---------------------------- MODULE OfflineSync ----------------------------
(***************************************************************************)
(* The mobile point of sale's path from "Charge" to a Sale row: the        *)
(* durable MutationQueue (packages/offline-sync), the SyncEngine passes    *)
(* that startSyncService runs (apps/mobile), the QueueScreen's Retry       *)
(* button, the network, and the idempotency of POST /sales.                *)
(*                                                                         *)
(* Every await is a point where another pass, the screen or the server may *)
(* run.  SqliteQueueStorageAdapter.update is a read, an await and a write  *)
(* of the merged row, so each mark* operation is a reading step and a      *)
(* writing step; seen holds what the reading step saw.                     *)
(***************************************************************************)
EXTENDS Naturals

CONSTANTS
  Items,        \* clientMutationIds: one UUID per handleCharge
  Services,     \* slots for startSyncService instances; two can overlap
  None,         \* no item
  MaxAttempts,  \* MutationQueue.maxAttempts
  MaxKills,     \* bound: times the app is killed in a behaviour
  MaxIoErrors,  \* bound: SQLite calls that fail in a behaviour
  MaxRetries,   \* bound: taps on Retry in a behaviour
  MaxLogins     \* bound: starts of a sync service in a behaviour

ASSUME OfflineSyncAssumption ==
  /\ None \notin Items
  /\ MaxAttempts \in Nat \ {0}
  /\ MaxKills \in Nat /\ MaxIoErrors \in Nat
  /\ MaxRetries \in Nat /\ MaxLogins \in Nat

VARIABLES
  (* the mutation_queue table (SQLite, survives a restart) *)
  status,       \* per item: "absent" before enqueue, then QueueItemStatus
  attempts,     \* per item
  due,          \* per item: nextAttemptAt <= now
  createdAt,    \* per item: Date.now() at enqueue, 0 when absent
  (* the sync services (memory of the app) *)
  live,         \* timers and the NetInfo listener are installed
  pc,           \* where the current pass is; "idle" when not running
  ready,        \* what is left of the listReady snapshot
  cur,          \* the item the pass is working on
  seen,         \* attempts as read by the update in progress
  outcome,      \* the SubmitResult of the current item
  call,         \* the POST /sales of the current item
  (* the queue screen *)
  shown,        \* items the last load() rendered with a Retry button
  tapped,       \* the item of the handleRetry in progress
  tapSeen,      \* attempts as read by it
  (* the world *)
  clock,        \* Date.now() at the last enqueue
  online,       \* what NetInfo reports
  orphans,      \* requests still on their way although nobody waits for them
  sales,        \* Sale rows per clientMutationId
  kills, ioErrors, retries, logins   \* counters for the bounds

queueVars  == <<status, attempts, due, createdAt, clock>>
passVars   == <<pc, ready, cur, seen, outcome, call>>
screenVars == <<shown, tapped, tapSeen>>
bounds     == <<kills, ioErrors, retries, logins>>
vars == <<status, attempts, due, createdAt, live, pc, ready, cur, seen,
          outcome, call, shown, tapped, tapSeen, clock, online, orphans, sales,
          kills, ioErrors, retries, logins>>

Statuses == {"absent", "pending", "syncing", "synced", "failed", "dead"}
Answers  == {"ok", "retry", "reject"}      \* 2xx; network, 5xx, 408, 429; 4xx
Stages   == {"sent", "checked"}            \* of a request at the server
Passes   == {"idle", "online", "list", "next", "marking", "waiting", "settling"}

Enqueued == {i \in Items : status[i] # "absent"}

TypeOK ==
  /\ status \in [Items -> Statuses]
  /\ attempts \in [Items -> Nat]
  /\ due \in [Items -> BOOLEAN]
  /\ createdAt \in [Items -> Nat]
  /\ live \in [Services -> BOOLEAN]
  /\ pc \in [Services -> Passes]
  /\ ready \in [Services -> SUBSET Items]
  /\ cur \in [Services -> Items \union {None}]
  /\ seen \in [Services -> Nat]
  /\ outcome \in [Services -> Answers \union {"none"}]
  /\ call \in [Services -> Answers \union Stages \union {"none"}]
  /\ shown \in SUBSET Items
  /\ tapped \in Items \union {None}
  /\ tapSeen \in Nat
  /\ clock \in Nat
  /\ online \in BOOLEAN
  /\ orphans \in SUBSET (Items \X Stages)
  /\ sales \in [Items -> Nat]
  /\ kills \in Nat /\ ioErrors \in Nat /\ retries \in Nat /\ logins \in Nat

Init ==
  /\ status = [i \in Items |-> "absent"]
  /\ attempts = [i \in Items |-> 0]
  /\ due = [i \in Items |-> FALSE]
  /\ createdAt = [i \in Items |-> 0]
  /\ live = [s \in Services |-> FALSE]
  /\ pc = [s \in Services |-> "idle"]
  /\ ready = [s \in Services |-> {}]
  /\ cur = [s \in Services |-> None]
  /\ seen = [s \in Services |-> 0]
  /\ outcome = [s \in Services |-> "none"]
  /\ call = [s \in Services |-> "none"]
  /\ shown = {} /\ tapped = None /\ tapSeen = 0
  /\ clock = 0 /\ online = FALSE
  /\ orphans = {}
  /\ sales = [i \in Items |-> 0]
  /\ kills = 0 /\ ioErrors = 0 /\ retries = 0 /\ logins = 0
-----------------------------------------------------------------------------
(* The point of sale *)

\* handleCharge draws a fresh UUID and enqueues the sale, online or not.
Enqueue(i) ==
  /\ status[i] = "absent"
  /\ status' = [status EXCEPT ![i] = "pending"]
  /\ due' = [due EXCEPT ![i] = TRUE]
  /\ clock' = clock + 1
  /\ createdAt' = [createdAt EXCEPT ![i] = clock + 1]
  /\ UNCHANGED <<attempts, live, passVars, screenVars, online, orphans, sales,
                 bounds>>

\* nextAttemptAt, set computeBackoffMs(attempts) ahead, has been reached.
BackoffElapses(i) ==
  /\ status[i] = "failed" /\ ~due[i]
  /\ due' = [due EXCEPT ![i] = TRUE]
  /\ UNCHANGED <<status, attempts, createdAt, clock, live, passVars, screenVars,
                 online, orphans, sales, bounds>>
-----------------------------------------------------------------------------
(* The sync service: HomeScreen's effect starts one per signed-in tenant    *)

StartService(s) ==
  /\ logins < MaxLogins
  /\ \A t \in Services : ~live[t]
  /\ pc[s] = "idle"
  /\ live' = [live EXCEPT ![s] = TRUE]
  /\ pc' = [pc EXCEPT ![s] = "online"]         \* void syncNow()
  /\ logins' = logins + 1
  /\ UNCHANGED <<queueVars, ready, cur, seen, outcome, call, screenVars,
                 online, orphans, sales, kills, ioErrors, retries>>

\* Mutant: stop() also abandons the pass in progress.
StopServiceAbandoningPass(s) ==
  /\ live[s]
  /\ live' = [live EXCEPT ![s] = FALSE]
  /\ pc' = [pc EXCEPT ![s] = "idle"]
  /\ ready' = [ready EXCEPT ![s] = {}]
  /\ cur' = [cur EXCEPT ![s] = None]
  /\ seen' = [seen EXCEPT ![s] = 0]
  /\ outcome' = [outcome EXCEPT ![s] = "none"]
  /\ call' = [call EXCEPT ![s] = "none"]
  /\ UNCHANGED <<queueVars, screenVars, online, orphans, sales, bounds>>

\* stop() removes the triggers; a pass that is running keeps running.
StopService(s) ==
  /\ live[s]
  /\ live' = [live EXCEPT ![s] = FALSE]
  /\ UNCHANGED <<queueVars, passVars, screenVars, online, orphans, sales,
                 bounds>>

\* The poll timer or a NetInfo event; running is pc # "idle".
SyncNow(s) ==
  /\ live[s] /\ pc[s] = "idle"
  /\ pc' = [pc EXCEPT ![s] = "online"]
  /\ UNCHANGED <<queueVars, live, ready, cur, seen, outcome, call, screenVars,
                 online, orphans, sales, bounds>>

\* runOnce: if (!(await this.isOnline())) return
CheckOnline(s) ==
  /\ pc[s] = "online"
  /\ pc' = [pc EXCEPT ![s] = IF online THEN "list" ELSE "idle"]
  /\ UNCHANGED <<queueVars, live, ready, cur, seen, outcome, call, screenVars,
                 online, orphans, sales, bounds>>

ReadyItems == {i \in Items : status[i] \in {"pending", "failed"} /\ due[i]}

ListReady(s) ==
  /\ pc[s] = "list"
  /\ ready' = [ready EXCEPT ![s] = ReadyItems]
  /\ pc' = [pc EXCEPT ![s] = "next"]
  /\ UNCHANGED <<queueVars, live, cur, seen, outcome, call, screenVars,
                 online, orphans, sales, bounds>>

\* Mutant: the snapshot is worked off in no particular order.
IsNextUnsorted(i, s) == i \in ready[s]

\* The head of the snapshot, which listReady sorted by createdAt.
IsNext(i, s) == /\ i \in ready[s]
                /\ \A j \in ready[s] : createdAt[i] <= createdAt[j]

\* markSyncing, first half: update reads the row.
BeginItem(s) ==
  /\ pc[s] = "next"
  /\ \E i \in Items :
       /\ IsNext(i, s)
       /\ cur' = [cur EXCEPT ![s] = i]
       /\ seen' = [seen EXCEPT ![s] = attempts[i]]
       /\ ready' = [ready EXCEPT ![s] = @ \ {i}]
  /\ pc' = [pc EXCEPT ![s] = "marking"]
  /\ UNCHANGED <<queueVars, live, outcome, call, screenVars, online, orphans,
                 sales, bounds>>

\* update writes the merged row: its status from the patch, its attempts from
\* the row as it was read.
Write(i, newStatus, newAttempts) ==
  /\ status' = [status EXCEPT ![i] = newStatus]
  /\ attempts' = [attempts EXCEPT ![i] = newAttempts]

\* markSyncing, second half, and the POST leaves.
MarkSyncing(s) ==
  /\ pc[s] = "marking"
  /\ Write(cur[s], "syncing", seen[s])
  /\ pc' = [pc EXCEPT ![s] = "waiting"]
  /\ call' = [call EXCEPT ![s] = "sent"]
  /\ seen' = [seen EXCEPT ![s] = 0]
  /\ UNCHANGED <<due, createdAt, clock, live, ready, cur, outcome, screenVars,
                 online, orphans, sales, bounds>>

EndPass(s) ==
  /\ pc[s] = "next" /\ ready[s] = {}
  /\ pc' = [pc EXCEPT ![s] = "idle"]
  /\ UNCHANGED <<queueVars, live, ready, cur, seen, outcome, call, screenVars,
                 online, orphans, sales, bounds>>

\* The response arrives; the mark* operation it selects reads the row.
Respond(s) ==
  /\ pc[s] = "waiting"
  /\ call[s] \in Answers
  /\ outcome' = [outcome EXCEPT ![s] = call[s]]
  /\ call' = [call EXCEPT ![s] = "none"]
  /\ seen' = [seen EXCEPT ![s] = attempts[cur[s]]]
  /\ pc' = [pc EXCEPT ![s] = "settling"]
  /\ UNCHANGED <<queueVars, live, ready, cur, screenVars, online, orphans,
                 sales, bounds>>

\* What a broken connection leaves behind of a call: nothing, or a request
\* the server still gets to see.
Left(i, stage) == IF stage \in Stages THEN {{}, {<<i, stage>>}} ELSE {{}}

\* fetch throws: always retryable, whatever became of the request.
NetworkError(s) ==
  /\ pc[s] = "waiting"
  /\ \E o \in Left(cur[s], call[s]) : orphans' = orphans \union o
  /\ outcome' = [outcome EXCEPT ![s] = "retry"]
  /\ call' = [call EXCEPT ![s] = "none"]
  /\ seen' = [seen EXCEPT ![s] = attempts[cur[s]]]
  /\ pc' = [pc EXCEPT ![s] = "settling"]
  /\ UNCHANGED <<queueVars, live, ready, cur, screenVars, online, sales,
                 bounds>>

\* The loop goes on with the rest of the snapshot.
Continue(s) ==
  /\ pc' = [pc EXCEPT ![s] = "next"]
  /\ cur' = [cur EXCEPT ![s] = None]
  /\ outcome' = [outcome EXCEPT ![s] = "none"]
  /\ seen' = [seen EXCEPT ![s] = 0]
  /\ UNCHANGED <<createdAt, clock, live, ready, call, screenVars, online,
                 orphans, sales, bounds>>

MarkSynced(s) ==
  /\ pc[s] = "settling" /\ outcome[s] = "ok"
  /\ Write(cur[s], "synced", seen[s])
  /\ UNCHANGED due
  /\ Continue(s)

MarkRetryableFailure(s) ==
  /\ pc[s] = "settling" /\ outcome[s] = "retry"
  /\ \/ /\ seen[s] + 1 >= MaxAttempts
        /\ Write(cur[s], "dead", seen[s] + 1)
        /\ UNCHANGED due
     \/ /\ seen[s] + 1 < MaxAttempts
        /\ Write(cur[s], "failed", seen[s] + 1)
        /\ due' = [due EXCEPT ![cur[s]] = FALSE]
  /\ Continue(s)

MarkDead(s) ==
  /\ pc[s] = "settling" /\ outcome[s] = "reject"
  /\ Write(cur[s], "dead", seen[s] + 1)
  /\ UNCHANGED due
  /\ Continue(s)
-----------------------------------------------------------------------------
(* The queue screen *)

\* load(), every 3 s: the screen shows Retry on the items dead by now.
Load ==
  /\ shown' = {i \in Items : status[i] = "dead"}
  /\ UNCHANGED <<queueVars, live, passVars, tapped, tapSeen, online, orphans,
                 sales, bounds>>

\* handleRetry, first half: the item was dead when the screen was rendered.
TapRetry(i) ==
  /\ retries < MaxRetries
  /\ tapped = None
  /\ i \in shown
  /\ tapped' = i
  /\ tapSeen' = attempts[i]
  /\ retries' = retries + 1
  /\ UNCHANGED <<queueVars, live, passVars, shown, online, orphans, sales,
                 kills, ioErrors, logins>>

\* manualRetry's write, unconditional, then load(); attempts is not reset.
ManualRetry ==
  /\ tapped # None
  /\ Write(tapped, "pending", tapSeen)
  /\ due' = [due EXCEPT ![tapped] = TRUE]
  /\ shown' = {i \in Items : status'[i] = "dead"}
  /\ tapped' = None
  /\ tapSeen' = 0
  /\ UNCHANGED <<createdAt, clock, live, passVars, online, orphans, sales,
                 bounds>>
-----------------------------------------------------------------------------
(* The server: SalesService.createSale behind the guards *)

\* Mutant: no unique constraint behind the pre-check.
CreateSaleNoUniqueKey(i, stage) ==
  {[to |-> "retry", rows |-> sales[i]]} \union
  IF stage = "sent"
    THEN {[to |-> "reject", rows |-> sales[i]],
          [to |-> IF sales[i] > 0 THEN "ok" ELSE "checked",
           rows |-> sales[i]]}
    ELSE {[to |-> "ok", rows |-> sales[i] + 1]}

\* The results of one step of createSale for item i: the stage or answer the
\* call moves to, and the Sale rows of i afterwards.  "sent": the guards and
\* checks may refuse (4xx) or the request fail (5xx); otherwise the pre-check
\* by clientMutationId returns the existing sale or goes on.  "checked": the
\* transaction inserts unless the unique constraint stops it (P2002, a 500).
CreateSale(i, stage) ==
  {[to |-> "retry", rows |-> sales[i]]} \union
  IF stage = "sent"
    THEN {[to |-> "reject", rows |-> sales[i]],
          [to |-> IF sales[i] > 0 THEN "ok" ELSE "checked",
           rows |-> sales[i]]}
    ELSE IF sales[i] = 0 THEN {[to |-> "ok", rows |-> 1]} ELSE {}

ServeCall(s) ==
  /\ call[s] \in Stages
  /\ \E r \in CreateSale(cur[s], call[s]) :
       /\ call' = [call EXCEPT ![s] = r.to]
       /\ sales' = [sales EXCEPT ![cur[s]] = r.rows]
  /\ UNCHANGED <<queueVars, live, pc, ready, cur, seen, outcome, screenVars,
                 online, orphans, bounds>>

\* An abandoned request is served like any other; its answer reaches nobody.
\* One element of orphans may stand for several equal requests, so it may
\* stay after it has been served.
ServeOrphan ==
  /\ \E o \in orphans : \E r \in CreateSale(o[1], o[2]) :
       /\ sales' = [sales EXCEPT ![o[1]] = r.rows]
       /\ \E rest \in {orphans, orphans \ {o}} :
            orphans' = IF r.to = "checked" THEN rest \union {<<o[1], r.to>>}
                                           ELSE rest
  /\ UNCHANGED <<queueVars, live, passVars, screenVars, online, bounds>>
-----------------------------------------------------------------------------
(* The environment *)

Connectivity ==
  /\ online' = ~online
  /\ UNCHANGED <<queueVars, live, passVars, screenVars, orphans, sales, bounds>>

\* Mutant: on the next launch the rows of interrupted attempts are dropped.
AppKilledDroppingSyncing ==
  /\ kills < MaxKills
  /\ kills' = kills + 1
  /\ status' = [i \in Items |-> IF status[i] = "syncing" THEN "absent"
                                                       ELSE status[i]]
  /\ live' = [s \in Services |-> FALSE]
  /\ pc' = [s \in Services |-> "idle"]
  /\ ready' = [s \in Services |-> {}]
  /\ cur' = [s \in Services |-> None]
  /\ seen' = [s \in Services |-> 0]
  /\ outcome' = [s \in Services |-> "none"]
  /\ call' = [s \in Services |-> "none"]
  /\ shown' = {} /\ tapped' = None /\ tapSeen' = 0
  /\ UNCHANGED <<attempts, due, createdAt, clock, online, orphans, sales,
                 ioErrors, retries, logins>>

\* The app is killed: only SQLite and the requests on the wire remain.
AppKilled ==
  /\ kills < MaxKills
  /\ kills' = kills + 1
  /\ \E left \in SUBSET {<<cur[s], call[s]>> :
                         s \in {t \in Services : call[t] \in Stages}} :
       orphans' = orphans \union left
  /\ live' = [s \in Services |-> FALSE]
  /\ pc' = [s \in Services |-> "idle"]
  /\ ready' = [s \in Services |-> {}]
  /\ cur' = [s \in Services |-> None]
  /\ seen' = [s \in Services |-> 0]
  /\ outcome' = [s \in Services |-> "none"]
  /\ call' = [s \in Services |-> "none"]
  /\ shown' = {} /\ tapped' = None /\ tapSeen' = 0
  /\ UNCHANGED <<queueVars, online, sales, ioErrors, retries, logins>>

\* A SQLite call of the pass rejects: runOnce throws, syncNow's finally runs.
StorageError(s) ==
  /\ ioErrors < MaxIoErrors
  /\ pc[s] \in {"list", "marking", "settling"}
  /\ ioErrors' = ioErrors + 1
  /\ pc' = [pc EXCEPT ![s] = "idle"]
  /\ ready' = [ready EXCEPT ![s] = {}]
  /\ cur' = [cur EXCEPT ![s] = None]
  /\ seen' = [seen EXCEPT ![s] = 0]
  /\ outcome' = [outcome EXCEPT ![s] = "none"]
  /\ UNCHANGED <<queueVars, live, call, screenVars, online, orphans,
                 sales, kills, retries, logins>>
-----------------------------------------------------------------------------
PassStep(s) ==
  \/ CheckOnline(s) \/ ListReady(s) \/ BeginItem(s) \/ MarkSyncing(s)
  \/ EndPass(s) \/ Respond(s)
  \/ MarkSynced(s) \/ MarkRetryableFailure(s) \/ MarkDead(s)

Next ==
  \/ \E i \in Items : Enqueue(i) \/ BackoffElapses(i) \/ TapRetry(i)
  \/ \E s \in Services :
       \/ StartService(s) \/ StopService(s) \/ SyncNow(s) \/ PassStep(s)
       \/ NetworkError(s) \/ ServeCall(s) \/ StorageError(s)
  \/ Load \/ ManualRetry \/ ServeOrphan \/ Connectivity \/ AppKilled

Spec == Init /\ [][Next]_vars

(* Fairness.  A pass that can go on does (the JavaScript event loop runs      *)
(* ready continuations), the poll timer of a live service fires, a fetch is   *)
(* eventually settled one way or the other, and time passes.  Nothing is      *)
(* assumed of the cashier, the connectivity or a request nobody waits for.    *)
Fairness ==
  /\ \A s \in Services :
       /\ WF_vars(PassStep(s))
       /\ WF_vars(SyncNow(s))
       /\ WF_vars(ServeCall(s) \/ NetworkError(s))
  /\ \A i \in Items : WF_vars(BackoffElapses(i))

FairSpec == Spec /\ Fairness
-----------------------------------------------------------------------------
(* Properties *)

\* At most one sale per clientMutationId, however many passes, abandoned
\* requests and retries submit it (createSale's pre-check and unique key).
AtMostOneSale == \A i \in Items : sales[i] <= 1

\* The device shows an item as synced only if the server has the sale: no
\* lost response, late answer or overlapping pass makes markSynced run for a
\* sale that was never committed.
SyncedIsRecorded == \A i \in Items : status[i] = "synced" => sales[i] = 1

\* A later sale is recorded before an earlier one only if the earlier one has
\* been tried: a fresh pending item is never overtaken (runOnce's creation
\* order, with a single sync service).
FreshItemNotOvertaken ==
  \A i, j \in Enqueued :
    (createdAt[i] < createdAt[j] /\ sales[j] > 0 /\ sales[i] = 0)
      => ~(status[i] = "pending" /\ attempts[i] = 0)

\* With lasting connectivity and a lasting sign-in every queued sale is
\* eventually synced or shown as dead (bounded attempts, backoff, poll timer).
EveryItemSettles ==
  (<>[]online /\ <>[](\E s \in Services : live[s]))
    => \A i \in Items :
         (status[i] # "absent") ~> (status[i] \in {"synced", "dead"})

\* OfflineSync implements SaleOnce: the queue, the network and the retries
\* together record each rung-up sale at most once and never show a sale as
\* synced that the server does not hold.
Once == INSTANCE SaleOnce WITH rung  <- Enqueued,
                               rows  <- sales,
                               acked <- {i \in Items : status[i] = "synced"}
ImplementsSaleOnce == Once!OnceSpec

\* What the queue tells is true: a sale is recorded at most once, and shown as
\* synced only if it is, whatever passes overlap and whatever is lost or killed.
QueueTellsTruth == AtMostOneSale /\ SyncedIsRecorded
=============================================================================
