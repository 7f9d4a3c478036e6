---------------------------- MODULE OutboxProofs ----------------------------
(***************************************************************************)
(* Proofs about Outbox, for any events, any number of overlapping polls    *)
(* and any value of the bounds.                                            *)
(*                                                                         *)
(* HandedOverInOrder needs to know what a poll still holds.  Its batch is  *)
(* closed under older rows when it is read, and worked off from the oldest *)
(* on; so an event that is still due and older than one of the batch is in *)
(* the batch, or the poll is about to count its failure.                   *)
(***************************************************************************)
EXTENDS Outbox, FiniteSetTheorems, TLAPS

\* A poll that is about to mark an event has seen its job created, and a job
\* that exists is never forgotten.
HandInv ==
  /\ \A p \in Polls : pollPc[p] \in {"mark", "fail"} => polled[p] \in Events
  /\ \A p \in Polls : pollPc[p] = "mark" => job[polled[p]] # "none"
  /\ \A e \in Events : row[e] = "processed" => job[e] # "none"

\* A job is created once, on the way out of "none".
CountInv ==
  \A e \in Events : added[e] = IF job[e] = "none" THEN 0 ELSE 1

\* Between looking its addresses up and completing, a job has written to or has
\* still to write to each of them.
SendInv ==
  \A e \in Events :
    /\ job[e] = "active" => target[e] \subseteq mailed[e] \union toSend[e]
    /\ job[e] = "completed" => target[e] \subseteq mailed[e]

Inv == OutboxTypeOK /\ HandInv /\ CountInv /\ SendInv

\* The empty outbox satisfies the invariant.
LEMMA InitInv == OutboxInit => Inv
  BY DEF OutboxInit, Inv, OutboxTypeOK, HandInv, CountInv, SendInv

\* AddJob creates the job of an event that has none, and counts it.
LEMMA AddJobResult ==
  ASSUME Inv, NEW e \in Events, AddJob(e)
  PROVE  /\ job' \in [Events -> {"none", "waiting", "active", "completed", "failed"}]
         /\ added' \in [Events -> Nat]
         /\ job'[e] # "none"
         /\ \A f \in Events : job'[f] = job[f] \/ (job[f] = "none" /\ job'[f] = "waiting")
         /\ CountInv'
  BY DEF AddJob, Inv, OutboxTypeOK, CountInv

\* Every step preserves the invariant.
LEMMA NextInv == Inv /\ [OutboxNext]_outboxVars => Inv'
<1> SUFFICES ASSUME Inv, [OutboxNext]_outboxVars PROVE Inv'
  OBVIOUS
<1> USE OutboxAssumption
    DEF Inv, OutboxTypeOK, HandInv, CountInv, SendInv, rowVars, pollVars, jobVars
<1>1. ASSUME NEW e \in Events, Publish(e) PROVE Inv'
  BY <1>1 DEF Publish
<1>2. ASSUME NEW e \in Events, EndTransaction(e) PROVE Inv'
  BY <1>2 DEF EndTransaction
<1>3. ASSUME NEW p \in Polls, StartPoll(p) PROVE Inv'
  BY <1>3 DEF StartPoll, OldestBatch, Pollable
<1>4. ASSUME NEW p \in Polls, Add(p) PROVE Inv'
  <2>1. PICK e \in batch[p] :
          /\ polled' = [polled EXCEPT ![p] = e]
          /\ batch' = [batch EXCEPT ![p] = @ \ {e}]
          /\ \/ AddJob(e) /\ pollPc' = [pollPc EXCEPT ![p] = "mark"]
             \/ /\ AddJob(e) \/ UNCHANGED <<job, added>>
                /\ pollPc' = [pollPc EXCEPT ![p] = "fail"]
    BY <1>4 DEF Add
  <2>2. e \in Events
    OBVIOUS
  <2>3. UNCHANGED <<rowVars, jobTries, target, toSend, mailed, redisUp, crashes>>
    BY <1>4 DEF Add
  <2>4. CASE AddJob(e)
    <3>1. /\ job' \in [Events -> {"none", "waiting", "active", "completed", "failed"}]
          /\ added' \in [Events -> Nat]
          /\ job'[e] # "none"
          /\ \A f \in Events : job'[f] = job[f] \/ (job[f] = "none" /\ job'[f] = "waiting")
          /\ CountInv'
      BY <2>2, <2>4, AddJobResult
    <3> QED
      BY <2>1, <2>2, <2>3, <3>1
  <2>5. CASE UNCHANGED <<job, added>> /\ pollPc' = [pollPc EXCEPT ![p] = "fail"]
    BY <2>1, <2>2, <2>3, <2>5
  <2> QED
    BY <2>1, <2>4, <2>5
<1>5. ASSUME NEW p \in Polls, MarkProcessed(p) PROVE Inv'
  BY <1>5 DEF MarkProcessed
<1>6. ASSUME NEW p \in Polls, RecordFailure(p) PROVE Inv'
  BY <1>6 DEF RecordFailure
<1>7. ASSUME NEW p \in Polls, EndPoll(p) PROVE Inv'
  BY <1>7 DEF EndPoll
<1>8. ASSUME NEW e \in Events, StartJob(e) PROVE Inv'
  BY <1>8 DEF StartJob
<1>9. ASSUME NEW e \in Events, Send(e) PROVE Inv'
  BY <1>9 DEF Send
<1>10. ASSUME NEW e \in Events, CompleteJob(e) PROVE Inv'
  BY <1>10 DEF CompleteJob
<1>11. ASSUME NEW e \in Events, FailJob(e) PROVE Inv'
  BY <1>11 DEF FailJob
<1>12. CASE Crash
  BY <1>12 DEF Crash
<1>13. CASE RedisGoesOrComes
  BY <1>13 DEF RedisGoesOrComes
<1>14. CASE UNCHANGED outboxVars
  BY <1>14 DEF outboxVars
<1> QED
  BY <1>1, <1>2, <1>3, <1>4, <1>5, <1>6, <1>7, <1>8, <1>9, <1>10, <1>11,
     <1>12, <1>13, <1>14 DEF OutboxNext, PollStep, JobStep

\* The inductive invariant holds throughout every behaviour.
THEOREM Invariance == OutboxSpec => []Inv
  BY InitInv, NextInv, PTL DEF OutboxSpec

\* Rows, polls and jobs keep their types.
THEOREM TypeCorrect == OutboxSpec => []OutboxTypeOK
<1>1. Inv => OutboxTypeOK
  BY DEF Inv
<1> QED
  BY <1>1, Invariance, PTL

\* No event is marked processed without its job: neither a crash nor an
\* overlapping poll loses it (pollOutboxOnce's add before update).
THEOREM ProcessedKeepsJob == OutboxSpec => []ProcessedHasJob
<1>1. Inv => ProcessedHasJob
  BY DEF Inv, HandInv, ProcessedHasJob
<1> QED
  BY <1>1, Invariance, PTL

\* An event becomes at most one job, however often it is polled (jobId).
THEOREM JobsUnique == OutboxSpec => []OneJobPerEvent
<1>1. Inv => OneJobPerEvent
  BY DEF Inv, CountInv, OneJobPerEvent
<1> QED
  BY <1>1, Invariance, PTL

\* A completed job has written to everybody it looked up, across retries and
\* stalled runs (handleNotification's loop).
THEOREM CompletedDelivers == OutboxSpec => []CompletedReachedAll
<1>1. Inv => CompletedReachedAll
  BY DEF Inv, SendInv, CompletedReachedAll
<1> QED
  BY <1>1, Invariance, PTL

\* An event is handed over exactly once, for any number of polls and crashes.
THEOREM EventsHandedOver == OutboxSpec => []HandedOverOnce
  BY ProcessedKeepsJob, JobsUnique, PTL DEF HandedOverOnce
-----------------------------------------------------------------------------
(* The order of handing over *)

Visible(e) == row[e] \in {"unprocessed", "processed"}

\* Handing the event over has neither succeeded nor been counted as failed.
Due(e) == row[e] = "unprocessed" /\ job[e] = "none" /\ rowAttempts[e] = 0

Before(e, f) == stampedAt[e] < stampedAt[f] /\ visibleAt[e] < visibleAt[f]

Written == {e \in Events : row[e] # "absent"}

\* Stamps are of the past, only committed rows are read or handed over, and at
\* any time finitely many rows have been written.
StampInv ==
  /\ \A e \in Events : stampedAt[e] <= rowClock /\ visibleAt[e] <= rowClock
  /\ \A e \in Events : job[e] # "none" => Visible(e)
  /\ \A p \in Polls : \A e \in batch[p] : Visible(e)
  /\ IsFiniteSet(Written)

\* What is due and older than an event of the batch comes before it in the
\* batch, or is what the poll is failing on.
BatchInv ==
  \A p \in Polls : \A e \in Events : \A f \in batch[p] :
    Due(e) /\ Before(e, f) => e \in batch[p] \/ (polled[p] = e /\ pollPc[p] = "fail")

OrderInv == StampInv /\ BatchInv /\ HandedOverInOrder

\* The batch a poll reads is closed under older pollable rows (orderBy createdAt
\* with take).
LEMMA BatchIsClosed ==
  ASSUME OutboxTypeOK, StampInv, NEW f \in OldestBatch, NEW e \in Pollable,
         stampedAt[e] < stampedAt[f]
  PROVE  e \in OldestBatch
<1> DEFINE Older(g) == {h \in Pollable : stampedAt[h] < stampedAt[g]}
<1>1. e \in Events /\ f \in Events /\ f \in Pollable
  BY DEF Pollable, OldestBatch
<1>2. Older(e) \subseteq Older(f)
  BY <1>1 DEF OutboxTypeOK, Pollable
<1>3. IsFiniteSet(Older(f))
  <2>1. Older(f) \subseteq Written
    BY DEF Pollable, Written
  <2> QED BY <2>1, FS_Subset DEF StampInv
<1>4. /\ Cardinality(Older(e)) \in Nat /\ Cardinality(Older(f)) \in Nat
      /\ Cardinality(Older(e)) <= Cardinality(Older(f))
  BY <1>2, <1>3, FS_Subset, FS_CardinalityType
<1>5. Cardinality(Older(f)) < BatchSize
  BY DEF OldestBatch
<1>6. Cardinality(Older(e)) < BatchSize
  BY <1>4, <1>5, OutboxAssumption
<1> QED BY <1>6 DEF OldestBatch

\* Steps of the rows: nothing that is due or handed over changes its stamps, and
\* what becomes visible is the youngest.
LEMMA RowsOrder ==
  ASSUME Inv, OrderInv, NEW e \in Events, Publish(e) \/ EndTransaction(e)
  PROVE  OrderInv'
<1> USE DEF Inv, OutboxTypeOK, OrderInv, StampInv, BatchInv, HandedOverInOrder, Due,
            Before, Visible, pollVars, jobVars
<1>1. CASE Publish(e)
  <2>1. Written' = Written \union {e}
    BY <1>1 DEF Publish, Written
  <2>2. IsFiniteSet(Written')
    BY <2>1, FS_AddElement
  <2>3. job[e] = "none" /\ \A p \in Polls : e \notin batch[p]
    BY <1>1 DEF Publish
  <2>4. StampInv'
    BY <1>1, <2>2, <2>3 DEF Publish
  <2>5. BatchInv' /\ HandedOverInOrder'
    BY <1>1, <2>3 DEF Publish
  <2> QED BY <2>4, <2>5
<1>2. CASE EndTransaction(e)
  <2>1. Written' = Written
    BY <1>2 DEF EndTransaction, Written
  <2>2. job[e] = "none" /\ \A p \in Polls : e \notin batch[p]
    BY <1>2 DEF EndTransaction
  <2>3. StampInv'
    <3>1. /\ rowClock' \in Nat /\ rowClock' >= rowClock
          /\ stampedAt' = stampedAt /\ job' = job /\ batch' = batch
          /\ \A g \in Events : visibleAt'[g] \in {visibleAt[g], rowClock'}
          /\ \A g \in Events \ {e} : row'[g] = row[g]
      <4>1. CASE visibleAt' = visibleAt /\ rowClock' = rowClock
        BY <1>2, <4>1 DEF EndTransaction
      <4>2. CASE /\ visibleAt' = [visibleAt EXCEPT ![e] = rowClock + 1]
                 /\ rowClock' = rowClock + 1
        BY <1>2, <4>2 DEF EndTransaction
      <4> QED BY <1>2, <4>1, <4>2 DEF EndTransaction
    <3>2. \A g \in Events : stampedAt'[g] <= rowClock' /\ visibleAt'[g] <= rowClock'
      BY <3>1
    <3>3. ASSUME NEW g \in Events, job'[g] # "none" PROVE Visible(g)'
      BY <2>2, <3>1, <3>3
    <3>4. ASSUME NEW p \in Polls, NEW g \in batch'[p] PROVE Visible(g)'
      BY <2>2, <3>1
    <3> QED BY <2>1, <3>2, <3>3, <3>4
  <2>4. BatchInv'
    BY <1>2, <2>2 DEF EndTransaction
  <2>5. ASSUME NEW g \in Events, NEW f \in Events, Before(g, f)',
               row'[g] = "unprocessed", job[g] = "none", job[f] # "none"
        PROVE  rowAttempts[g] > 0
    <3>1. f # e
      BY <2>2, <2>5
    <3>2. g # e
      BY <1>2, <2>5, <3>1 DEF EndTransaction
    <3> QED BY <1>2, <2>5, <3>1, <3>2 DEF EndTransaction
  <2>6. HandedOverInOrder'
    BY <1>2, <2>5 DEF EndTransaction
  <2> QED BY <2>3, <2>4, <2>6
<1> QED BY <1>1, <1>2

\* A step that adds no job, fills no batch, and drops no event from a batch
\* unless it drops all, keeps the order.
LEMMA QuietOrder ==
  ASSUME Inv, OrderInv,
         UNCHANGED <<row, stampedAt, visibleAt, rowClock>>,
         rowAttempts' \in [Events -> Nat],
         \A e \in Events : rowAttempts'[e] >= rowAttempts[e],
         \A e \in Events : job'[e] = "none" <=> job[e] = "none",
         \A p \in Polls : \/ batch'[p] = {}
                          \/ /\ batch'[p] = batch[p]
                             /\ \A e \in Events : polled[p] = e /\ pollPc[p] = "fail"
                                  => \/ polled'[p] = e /\ pollPc'[p] = "fail"
                                     \/ rowAttempts'[e] > 0
  PROVE  OrderInv'
<1> USE DEF Inv, OutboxTypeOK, OrderInv, StampInv, BatchInv, HandedOverInOrder, Due,
            Before, Visible
<1>1. StampInv'
  BY DEF Written
<1>2. \A e \in Events : Due(e)' => Due(e)
  OBVIOUS
<1>3. BatchInv'
  <2> SUFFICES ASSUME NEW p \in Polls, NEW e \in Events, NEW f \in batch'[p],
                      Due(e)', Before(e, f)'
               PROVE  e \in batch'[p] \/ (polled'[p] = e /\ pollPc'[p] = "fail")
    OBVIOUS
  <2>1. /\ batch'[p] = batch[p]
        /\ polled[p] = e /\ pollPc[p] = "fail"
             => \/ polled'[p] = e /\ pollPc'[p] = "fail"
                \/ rowAttempts'[e] > 0
    OBVIOUS
  <2>2. Due(e) /\ Before(e, f)
    BY <1>2
  <2>3. e \in batch[p] \/ (polled[p] = e /\ pollPc[p] = "fail")
    BY <2>1, <2>2
  <2>4. ~(rowAttempts'[e] > 0)
    BY DEF Due
  <2> QED BY ONLY <2>1, <2>3, <2>4
<1>4. HandedOverInOrder'
  OBVIOUS
<1> QED BY <1>1, <1>3, <1>4

\* A poll reads its batch.
LEMMA StartPollOrder ==
  ASSUME Inv, OrderInv, NEW p \in Polls, StartPoll(p)
  PROVE  OrderInv'
<1> USE DEF Inv, OutboxTypeOK, OrderInv, rowVars, jobVars
<1>1. StampInv' /\ HandedOverInOrder'
  BY DEF StartPoll, StampInv, Written, HandedOverInOrder, Visible, OldestBatch, Pollable
<1>2. BatchInv'
  <2> SUFFICES ASSUME NEW q \in Polls, NEW e \in Events, NEW f \in batch'[q],
                      Due(e), Before(e, f)
               PROVE  e \in batch'[q] \/ (polled'[q] = e /\ pollPc'[q] = "fail")
    BY DEF BatchInv, Due, Before, StartPoll
  <2>1. CASE q = p
    <3>1. batch'[q] = OldestBatch
      BY <2>1 DEF StartPoll
    <3>2. 0 < MaxRowAttempts
      BY <3>1, OutboxAssumption DEF OldestBatch, Pollable
    <3>3. e \in Pollable
      BY <3>2 DEF Due, Pollable
    <3>4. stampedAt[e] < stampedAt[f]
      BY DEF Before
    <3> QED BY <3>1, <3>3, <3>4, BatchIsClosed
  <2>2. CASE q # p
    BY <2>2 DEF BatchInv, StartPoll
  <2> QED BY <2>1, <2>2
<1> QED BY <1>1, <1>2

\* queue.add takes the oldest of the batch: whatever is due, older and not in
\* the batch any more has had its failure counted.
LEMMA AddOrder ==
  ASSUME Inv, OrderInv, NEW p \in Polls, Add(p)
  PROVE  OrderInv'
<1> USE DEF Inv, OutboxTypeOK, OrderInv, rowVars
<1>1. PICK g \in batch[p] :
        /\ \A f \in batch[p] : stampedAt[g] <= stampedAt[f]
        /\ polled' = [polled EXCEPT ![p] = g]
        /\ batch' = [batch EXCEPT ![p] = @ \ {g}]
        /\ \/ AddJob(g) /\ pollPc' = [pollPc EXCEPT ![p] = "mark"]
           \/ /\ AddJob(g) \/ UNCHANGED <<job, added>>
              /\ pollPc' = [pollPc EXCEPT ![p] = "fail"]
  BY DEF Add
<1>2. g \in Events /\ Visible(g)
  BY DEF StampInv
<1>3. UNCHANGED <<row, rowAttempts, stampedAt, visibleAt, rowClock>> /\ pollPc[p] = "next"
  BY DEF Add
<1>4. /\ job' \in [Events -> {"none", "waiting", "active", "completed", "failed"}]
      /\ \A f \in Events \ {g} : job'[f] = job[f]
      /\ job[g] # "none" => job'[g] # "none"
      /\ pollPc'[p] # "fail" => job'[g] # "none"
  BY <1>1, <1>2 DEF AddJob
<1>5. StampInv'
  BY <1>1, <1>2, <1>3, <1>4 DEF StampInv, Visible, Written
<1>6. \A e \in Events : Due(e)' => Due(e)
  BY <1>3, <1>4 DEF Due
<1>7. BatchInv'
  <2> SUFFICES ASSUME NEW q \in Polls, NEW e \in Events, NEW f \in batch'[q],
                      Due(e)', Before(e, f)
               PROVE  e \in batch'[q] \/ (polled'[q] = e /\ pollPc'[q] = "fail")
    BY <1>3 DEF BatchInv, Before
  <2>1. f \in batch[q] /\ Due(e)
    BY <1>1, <1>6
  <2>2. CASE q # p
    BY <1>1, <2>1, <2>2 DEF BatchInv
  <2>3. CASE q = p
    <3>1. e \in batch[p]
      BY <1>3, <2>1, <2>3 DEF BatchInv
    <3>2. CASE e = g
      BY <1>1, <1>4, <2>3, <3>2 DEF Due
    <3>3. CASE e # g
      BY <1>1, <2>3, <3>1, <3>3
    <3> QED BY <3>2, <3>3
  <2> QED BY <2>2, <2>3
<1>8. HandedOverInOrder'
  <2> SUFFICES ASSUME NEW e \in Events, NEW f \in Events, row[e] = "unprocessed",
                      job'[e] = "none", job'[f] # "none", Before(e, f),
                      ~(rowAttempts[e] > 0)
               PROVE  FALSE
    BY <1>3 DEF HandedOverInOrder, Before
  <2>1. Due(e)
    BY <1>4 DEF Due
  <2>2. job[f] = "none"
    BY <2>1 DEF HandedOverInOrder, Due, Before
  <2>3. f = g
    BY <1>4, <2>2
  <2>4. e \in batch[p]
    BY <1>3, <2>1, <2>3 DEF BatchInv
  <2> QED BY <1>1, <1>2, <2>3, <2>4 DEF Before
<1> QED BY <1>5, <1>7, <1>8

\* Every step keeps the order.
LEMMA NextOrder == Inv /\ OrderInv /\ [OutboxNext]_outboxVars => OrderInv'
<1> SUFFICES ASSUME Inv, OrderInv, [OutboxNext]_outboxVars PROVE OrderInv'
  OBVIOUS
<1> USE DEF rowVars, pollVars, jobVars
<1>1. ASSUME NEW e \in Events, Publish(e) \/ EndTransaction(e) PROVE OrderInv'
  BY <1>1, RowsOrder
<1>2. ASSUME NEW p \in Polls, StartPoll(p) PROVE OrderInv'
  BY <1>2, StartPollOrder
<1>3. ASSUME NEW p \in Polls, Add(p) PROVE OrderInv'
  BY <1>3, AddOrder
<1>4. ASSUME NEW p \in Polls, MarkProcessed(p) PROVE OrderInv'
  <2> USE DEF Inv, OutboxTypeOK, HandInv, OrderInv
  <2>1. polled[p] \in Events /\ job[polled[p]] # "none"
    BY <1>4 DEF MarkProcessed
  <2>2. Written' = Written
    BY <1>4, <2>1 DEF MarkProcessed, OrderInv, StampInv, Visible, Written
  <2>3. StampInv'
    BY <1>4, <2>1, <2>2 DEF MarkProcessed, StampInv, Visible
  <2>4. BatchInv'
    BY <1>4, <2>1 DEF MarkProcessed, BatchInv, Due, Before
  <2>5. HandedOverInOrder'
    BY <1>4, <2>1 DEF MarkProcessed, HandedOverInOrder
  <2> QED BY <2>3, <2>4, <2>5
<1>5. ASSUME NEW p \in Polls, RecordFailure(p) PROVE OrderInv'
  BY <1>5, QuietOrder DEF RecordFailure, Inv, OutboxTypeOK, HandInv
<1>6. ASSUME NEW p \in Polls, EndPoll(p) PROVE OrderInv'
  BY <1>6, QuietOrder DEF EndPoll, Inv, OutboxTypeOK
<1>7. ASSUME NEW e \in Events, JobStep(e) \/ FailJob(e) PROVE OrderInv'
  BY <1>7, QuietOrder
  DEF JobStep, StartJob, Send, CompleteJob, FailJob, Inv, OutboxTypeOK
<1>8. CASE Crash
  BY <1>8, QuietOrder DEF Crash, Inv, OutboxTypeOK
<1>9. CASE RedisGoesOrComes
  BY <1>9, QuietOrder DEF RedisGoesOrComes, Inv, OutboxTypeOK
<1>10. CASE UNCHANGED outboxVars
  BY <1>10, QuietOrder DEF outboxVars, Inv, OutboxTypeOK
<1> QED
  BY <1>1, <1>2, <1>3, <1>4, <1>5, <1>6, <1>7, <1>8, <1>9, <1>10
  DEF OutboxNext, PollStep

\* No event is overtaken on the way into the queue by one that was stamped and
\* committed later, unless a failure of its own has been counted, for any number
\* of overlapping polls, crashes and failures (pollOutboxOnce's ordered batches).
THEOREM EventsInOrder == OutboxSpec => []HandedOverInOrder
<1>1. OutboxInit => OrderInv
  <2>1. OutboxInit => Written = {}
    BY DEF OutboxInit, Written
  <2> QED
    BY <2>1, FS_EmptySet DEF OutboxInit, OrderInv, StampInv, BatchInv,
       HandedOverInOrder, Due, Before, Visible
<1>2. OrderInv => HandedOverInOrder
  BY DEF OrderInv
<1> QED
  BY <1>1, <1>2, NextOrder, Invariance, PTL DEF OutboxSpec
=============================================================================
