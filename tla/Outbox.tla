------------------------------- MODULE Outbox -------------------------------
(***************************************************************************)
(* The transactional outbox: OutboxEvent rows written with the domain      *)
(* change, apps/worker's pollOutboxOnce that hands them to BullMQ, and the *)
(* notifications worker that runs handleNotification.                      *)
(*                                                                         *)
(* setInterval starts a poll every five seconds whether or not the last    *)
(* one has finished, so polls overlap.  Redis, the database and the mail   *)
(* provider may fail at every call, and a call that fails may still have   *)
(* had its effect.                                                         *)
(***************************************************************************)
EXTENDS Naturals, FiniteSets

CONSTANTS
  Events,          \* OutboxEvent rows
  Polls,           \* slots for overlapping pollOutboxOnce calls
  Owners,          \* addresses a handler may have to write to
  NoRow,           \* no event
  BatchSize,       \* BATCH_SIZE
  MaxRowAttempts,  \* MAX_ATTEMPTS of the outbox
  JobAttempts,     \* attempts of a BullMQ job
  MaxCrashes       \* bound: crashes of the worker process

ASSUME OutboxAssumption ==
  /\ NoRow \notin Events
  /\ BatchSize \in Nat \ {0} /\ MaxRowAttempts \in Nat /\ JobAttempts \in Nat
  /\ MaxCrashes \in Nat

VARIABLES
  row,          \* per event: the state of its OutboxEvent row
  rowAttempts,  \* OutboxEvent.attempts
  stampedAt,    \* OutboxEvent.createdAt
  visibleAt,    \* history: when the publishing transaction committed
  rowClock,     \* the time of the last insert or commit of a row
  pollPc,       \* per poll: "idle", "next", "mark", "fail"
  batch,        \* what is left of the events the poll has read
  polled,       \* the event the poll is working on
  job,          \* BullMQ's job with the event's id
  jobTries,     \* how often it has failed
  added,        \* how many jobs were created for the event
  target,       \* the addresses its handler has looked up
  toSend,       \* those it has still to write to
  mailed,       \* addresses that have been written to
  redisUp,      \* Redis accepts commands
  crashes

rowVars  == <<row, rowAttempts, stampedAt, visibleAt, rowClock>>
pollVars == <<pollPc, batch, polled>>
jobVars  == <<job, jobTries, added, target, toSend, mailed>>
outboxVars == <<row, rowAttempts, stampedAt, visibleAt, rowClock, pollPc, batch,
                polled, job, jobTries, added, target, toSend, mailed, redisUp,
                crashes>>

OutboxTypeOK ==
  /\ row \in [Events -> {"absent", "pending", "rolledBack", "unprocessed",
                         "processed"}]
  /\ rowAttempts \in [Events -> Nat]
  /\ stampedAt \in [Events -> Nat]
  /\ visibleAt \in [Events -> Nat]
  /\ rowClock \in Nat
  /\ pollPc \in [Polls -> {"idle", "next", "mark", "fail"}]
  /\ batch \in [Polls -> SUBSET Events]
  /\ polled \in [Polls -> Events \union {NoRow}]
  /\ job \in [Events -> {"none", "waiting", "active", "completed", "failed"}]
  /\ jobTries \in [Events -> Nat]
  /\ added \in [Events -> Nat]
  /\ target \in [Events -> SUBSET Owners]
  /\ toSend \in [Events -> SUBSET Owners]
  /\ mailed \in [Events -> SUBSET Owners]
  /\ redisUp \in BOOLEAN
  /\ crashes \in Nat

OutboxInit ==
  /\ row = [e \in Events |-> "absent"]
  /\ rowAttempts = [e \in Events |-> 0]
  /\ stampedAt = [e \in Events |-> 0]
  /\ visibleAt = [e \in Events |-> 0]
  /\ rowClock = 0
  /\ pollPc = [p \in Polls |-> "idle"]
  /\ batch = [p \in Polls |-> {}]
  /\ polled = [p \in Polls |-> NoRow]
  /\ job = [e \in Events |-> "none"]
  /\ jobTries = [e \in Events |-> 0]
  /\ added = [e \in Events |-> 0]
  /\ target = [e \in Events |-> {}]
  /\ toSend = [e \in Events |-> {}]
  /\ mailed = [e \in Events |-> {}]
  /\ redisUp = TRUE
  /\ crashes = 0
-----------------------------------------------------------------------------
\* OutboxService.publish inserts the row, stamped with createdAt, inside the
\* transaction of the domain change it describes.
Publish(e) ==
  /\ row[e] = "absent"
  /\ row' = [row EXCEPT ![e] = "pending"]
  /\ rowClock' = rowClock + 1
  /\ stampedAt' = [stampedAt EXCEPT ![e] = rowClock + 1]
  /\ UNCHANGED <<rowAttempts, visibleAt, pollVars, jobVars, redisUp, crashes>>

\* That transaction commits, and the poller can see the row, or rolls back.
EndTransaction(e) ==
  /\ row[e] = "pending"
  /\ \/ /\ row' = [row EXCEPT ![e] = "unprocessed"]
        /\ rowClock' = rowClock + 1
        /\ visibleAt' = [visibleAt EXCEPT ![e] = rowClock + 1]
     \/ /\ row' = [row EXCEPT ![e] = "rolledBack"]
        /\ UNCHANGED <<rowClock, visibleAt>>
  /\ UNCHANGED <<rowAttempts, stampedAt, pollVars, jobVars, redisUp, crashes>>
-----------------------------------------------------------------------------
(* pollOutboxOnce *)

\* Mutant: only rows never tried before are read.
PollableUntried == {e \in Events : row[e] = "unprocessed" /\ rowAttempts[e] = 0}

Pollable == {e \in Events : /\ row[e] = "unprocessed"
                            /\ rowAttempts[e] < MaxRowAttempts}

\* The BatchSize oldest pollable rows.
OldestBatch ==
  {e \in Pollable :
     Cardinality({f \in Pollable : stampedAt[f] < stampedAt[e]}) < BatchSize}

\* The interval fires: findMany.
StartPoll(p) ==
  /\ pollPc[p] = "idle"
  /\ Pollable # {}
  /\ batch' = [batch EXCEPT ![p] = OldestBatch]
  /\ pollPc' = [pollPc EXCEPT ![p] = "next"]
  /\ UNCHANGED <<rowVars, polled, jobVars, redisUp, crashes>>

\* BullMQ's add with a custom jobId: an existing job of that id is kept.
AddJob(e) ==
  IF job[e] = "none"
    THEN /\ job' = [job EXCEPT ![e] = "waiting"]
         /\ added' = [added EXCEPT ![e] = @ + 1]
    ELSE UNCHANGED <<job, added>>

\* Mutant: the batch is handed over in any order.
AddInAnyOrder(p) ==
  /\ pollPc[p] = "next" /\ redisUp
  /\ \E e \in batch[p] :
       /\ polled' = [polled EXCEPT ![p] = e]
       /\ batch' = [batch EXCEPT ![p] = @ \ {e}]
       /\ AddJob(e)
  /\ pollPc' = [pollPc EXCEPT ![p] = "mark"]
  /\ UNCHANGED <<rowVars, jobTries, target, toSend, mailed, redisUp, crashes>>

\* Mutant: an add that throws is taken for one that succeeded.
AddSwallowingErrors(p) ==
  /\ pollPc[p] = "next"
  /\ \E e \in batch[p] :
       /\ \A f \in batch[p] : stampedAt[e] <= stampedAt[f]
       /\ polled' = [polled EXCEPT ![p] = e]
       /\ batch' = [batch EXCEPT ![p] = @ \ {e}]
       /\ IF redisUp THEN AddJob(e) ELSE UNCHANGED <<job, added>>
  /\ pollPc' = [pollPc EXCEPT ![p] = "mark"]
  /\ UNCHANGED <<rowVars, jobTries, target, toSend, mailed, redisUp, crashes>>

\* queue.add, on the oldest event of the batch: it succeeds, or throws, in
\* which case the job may still have been created.
Add(p) ==
  /\ pollPc[p] = "next"
  /\ \E e \in batch[p] :
       /\ \A f \in batch[p] : stampedAt[e] <= stampedAt[f]
       /\ polled' = [polled EXCEPT ![p] = e]
       /\ batch' = [batch EXCEPT ![p] = @ \ {e}]
       /\ \/ /\ redisUp
             /\ AddJob(e)
             /\ pollPc' = [pollPc EXCEPT ![p] = "mark"]
          \/ /\ ~redisUp
             /\ AddJob(e) \/ UNCHANGED <<job, added>>
             /\ pollPc' = [pollPc EXCEPT ![p] = "fail"]
  /\ UNCHANGED <<rowVars, jobTries, target, toSend, mailed, redisUp, crashes>>

\* The processedAt update, or its failure (caught like a failed add).
MarkProcessed(p) ==
  /\ pollPc[p] = "mark"
  /\ \/ /\ row' = [row EXCEPT ![polled[p]] = "processed"]
        /\ pollPc' = [pollPc EXCEPT ![p] = "next"]
        /\ polled' = [polled EXCEPT ![p] = NoRow]
     \/ /\ pollPc' = [pollPc EXCEPT ![p] = "fail"]
        /\ UNCHANGED <<row, polled>>
  /\ UNCHANGED <<rowAttempts, stampedAt, visibleAt, rowClock, batch, jobVars, redisUp,
                 crashes>>

\* The catch block counts the attempt; when that write fails too, the whole
\* poll rejects and the rest of the batch waits for another one.
RecordFailure(p) ==
  /\ pollPc[p] = "fail"
  /\ \/ /\ rowAttempts' = [rowAttempts EXCEPT ![polled[p]] = @ + 1]
        /\ pollPc' = [pollPc EXCEPT ![p] = "next"]
        /\ UNCHANGED batch
     \/ /\ pollPc' = [pollPc EXCEPT ![p] = "idle"]
        /\ batch' = [batch EXCEPT ![p] = {}]
        /\ UNCHANGED rowAttempts
  /\ polled' = [polled EXCEPT ![p] = NoRow]
  /\ UNCHANGED <<row, stampedAt, visibleAt, rowClock, jobVars, redisUp, crashes>>

EndPoll(p) ==
  /\ pollPc[p] = "next" /\ batch[p] = {}
  /\ pollPc' = [pollPc EXCEPT ![p] = "idle"]
  /\ UNCHANGED <<rowVars, batch, polled, jobVars, redisUp, crashes>>
-----------------------------------------------------------------------------
(* The notifications worker *)

\* A job is taken up and its handler looks its addresses up; none for an
\* event that is only logged or has nobody to write to.
StartJob(e) ==
  /\ redisUp
  /\ job[e] = "waiting"
  /\ job' = [job EXCEPT ![e] = "active"]
  /\ \E to \in SUBSET Owners :
       /\ target' = [target EXCEPT ![e] = to]
       /\ toSend' = [toSend EXCEPT ![e] = to]
  /\ UNCHANGED <<rowVars, pollVars, jobTries, added, mailed, redisUp, crashes>>

\* Mutant: the loop goes on after a send that failed.
SendSwallowingErrors(e) ==
  /\ job[e] = "active"
  /\ \E o \in toSend[e] :
       /\ mailed' = mailed \/ mailed' = [mailed EXCEPT ![e] = @ \union {o}]
       /\ toSend' = [toSend EXCEPT ![e] = @ \ {o}]
  /\ UNCHANGED <<rowVars, pollVars, job, jobTries, added, target, redisUp,
                 crashes>>

\* email.send to the next address of the loop.
Send(e) ==
  /\ job[e] = "active"
  /\ \E o \in toSend[e] :
       /\ mailed' = [mailed EXCEPT ![e] = @ \union {o}]
       /\ toSend' = [toSend EXCEPT ![e] = @ \ {o}]
  /\ UNCHANGED <<rowVars, pollVars, job, jobTries, added, target, redisUp,
                 crashes>>

CompleteJob(e) ==
  /\ redisUp
  /\ job[e] = "active" /\ toSend[e] = {}
  /\ job' = [job EXCEPT ![e] = "completed"]
  /\ UNCHANGED <<rowVars, pollVars, jobTries, added, target, toSend, mailed,
                 redisUp, crashes>>

\* The handler throws: BullMQ runs the job again from the start, or moves it
\* to the failed set once its attempts are used up.
FailJob(e) ==
  /\ redisUp
  /\ job[e] = "active"
  /\ jobTries' = [jobTries EXCEPT ![e] = @ + 1]
  /\ job' = [job EXCEPT ![e] = IF jobTries[e] + 1 < JobAttempts
                                 THEN "waiting" ELSE "failed"]
  /\ UNCHANGED <<rowVars, pollVars, added, target, toSend, mailed, redisUp,
                 crashes>>
-----------------------------------------------------------------------------
\* The worker process dies.  BullMQ hands its stalled jobs out again, or fails
\* one that has stalled too often (how often is left open here).
Crash ==
  /\ crashes < MaxCrashes
  /\ crashes' = crashes + 1
  /\ pollPc' = [p \in Polls |-> "idle"]
  /\ batch' = [p \in Polls |-> {}]
  /\ polled' = [p \in Polls |-> NoRow]
  /\ \E gone \in SUBSET {e \in Events : job[e] = "active"} :
       job' = [e \in Events |-> IF e \in gone THEN "failed"
                               ELSE IF job[e] = "active" THEN "waiting"
                               ELSE job[e]]
  /\ UNCHANGED <<rowVars, jobTries, added, target, toSend, mailed, redisUp>>

RedisGoesOrComes ==
  /\ redisUp' = ~redisUp
  /\ UNCHANGED <<rowVars, pollVars, jobVars, crashes>>

PollStep(p) == Add(p) \/ MarkProcessed(p) \/ RecordFailure(p) \/ EndPoll(p)

JobStep(e) == StartJob(e) \/ Send(e) \/ CompleteJob(e)

OutboxNext ==
  \/ \E e \in Events : \/ Publish(e) \/ EndTransaction(e)
                     \/ JobStep(e) \/ FailJob(e)
  \/ \E p \in Polls : StartPoll(p) \/ PollStep(p)
  \/ Crash \/ RedisGoesOrComes

OutboxSpec == OutboxInit /\ [][OutboxNext]_outboxVars

(* Fairness: the interval keeps firing, a started poll goes on, and BullMQ   *)
(* keeps serving jobs.  A database that fails forever is not fair.           *)
OutboxFairness ==
  /\ \A p \in Polls : WF_outboxVars(StartPoll(p)) /\ WF_outboxVars(PollStep(p))
  /\ \A e \in Events : WF_outboxVars(JobStep(e))

OutboxFairSpec == OutboxSpec /\ OutboxFairness
-----------------------------------------------------------------------------
(* Properties *)

\* A row is marked processed only once BullMQ has its job: no crash between
\* queue.add and the update, and no overlapping poll, loses the event.
ProcessedHasJob == \A e \in Events : row[e] = "processed" => job[e] # "none"

\* However often overlapping or restarted polls hand an event over, it becomes
\* one job (jobId is the row's id).
OneJobPerEvent == \A e \in Events : added[e] <= 1

\* A completed job has written to every address it looked up, although a retry
\* or a stalled run starts the loop again.
CompletedReachedAll ==
  \A e \in Events : job[e] = "completed" => target[e] \subseteq mailed[e]

\* An event that was stamped and committed before another one is not overtaken
\* by it on the way into the queue, unless a failure to hand it over has been
\* counted.  (An older stamp alone is not enough: a slow transaction may commit
\* its row when younger ones have already been handed over.)
HandedOverInOrder ==
  \A e, f \in Events :
    (/\ row[e] = "unprocessed" /\ job[e] = "none" /\ job[f] # "none"
     /\ stampedAt[e] < stampedAt[f] /\ visibleAt[e] < visibleAt[f])
      => rowAttempts[e] > 0

\* Once Redis stays up, every published event gets its job or has used up its
\* MAX_ATTEMPTS, and every job is completed or in the failed set.
EveryEventSettles ==
  <>[]redisUp => \A e \in Events :
    (row[e] = "unprocessed") ~> \/ job[e] \in {"completed", "failed"}
                           \/ rowAttempts[e] >= MaxRowAttempts

\* An event is handed over exactly once: none is marked processed without its
\* job, and none becomes two, through overlapping polls, failures and crashes.
HandedOverOnce == ProcessedHasJob /\ OneJobPerEvent
=============================================================================
