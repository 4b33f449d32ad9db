----------------------- MODULE BoundedStalenessProofs -----------------------
(***************************************************************************)
(* Proofs about BoundedStaleness, for every bound, run length and batch    *)
(* size.  The inductive invariant says how the two threads' counters move  *)
(* together: dispatched = consumed + queued + in production (or lost to a  *)
(* panic), and consumed is at most one ahead of published.                 *)
(***************************************************************************)
EXTENDS BoundedStaleness, SequenceTheorems, TLAPS

\* Batches dispatched that are neither consumed nor queued: the one being
\* produced, or the one a panicking worker took with it.
Held == IF producer \in {"produce", "push", "panicked"} THEN 1 ELSE 0

\* Batches consumed and not yet published.
InTraining == IF trainer \in {"train", "publish"} THEN 1 ELSE 0

\* The trainer's loop variable against what it has published and recorded.
TrainerInv ==
    /\ publishedWeights = publishedVersion
    /\ Len(trajectory) = publishedVersion + InTraining
    /\ update = IF trainer = "notify" THEN publishedVersion ELSE publishedVersion + 1
    /\ trainer \in {"consume", "waiting", "train", "publish", "notify"}
           => update <= TotalUpdates
    /\ trainer \in {"train", "publish", "notify"} => consumed.target = update

\* Every dispatched batch is accounted for, in order, and dispatch is never
\* more than the bound ahead of publication.
DispatchInv ==
    /\ nextDispatch = Len(trajectory) + Len(ready) + Held + 1
    /\ nextDispatch <= publishedVersion + MaxStaleness + 1
    /\ steps = nextDispatch - 1 - (IF producer \in {"produce", "panicked"} THEN 1 ELSE 0)

\* The batch in the worker's hands is the last one dispatched.
JobInv ==
    InFlight = 1 =>
        /\ job.target = nextDispatch - 1
        /\ producer = "push" => job.evidence = nextDispatch - 1
        /\ Fresh(job.scoring, job.target)
        /\ job.weights = job.scoring

\* The queue holds the updates after the consumed ones, in order.
QueueInv ==
    \A i \in 1..Len(ready) :
        /\ ready[i].target = Len(trajectory) + i
        /\ ready[i].evidence = Len(trajectory) + i
        /\ Fresh(ready[i].scoring, ready[i].target)
        /\ ready[i].weights = ready[i].scoring

LedgerInv ==
    \A i \in 1..Len(ledger) : Fresh(ledger[i].scoring, ledger[i].consuming)

IInv == TypeOK /\ TrainerInv /\ DispatchInv /\ JobInv /\ QueueInv /\ LedgerInv

-----------------------------------------------------------------------------

(* Lengths are natural numbers, a fact most of the counting rests on.       *)
LEMMA Lengths ==
  TypeOK => /\ Len(trajectory) \in Nat /\ Len(ready) \in Nat /\ Len(ledger) \in Nat
  BY LenProperties DEF TypeOK

(* The initial state satisfies the invariant: nothing is dispatched, queued *)
(* or published.                                                            *)
LEMMA InitIInv == Init => IInv
  <1> SUFFICES ASSUME Init PROVE IInv
    OBVIOUS
  <1> USE BoundAssumption, SizeAssumption
  <1>1. /\ publishedVersion = 0 /\ publishedWeights = 0 /\ nextDispatch = 1
        /\ producer = "check" /\ steps = 0 /\ update = 1 /\ outcome = "running"
        /\ stopped = FALSE /\ consumed = NoBatch /\ gaveUpOn = "nobody"
    BY DEF Init
  <1>2. /\ trainer \in {"audit", "consume"}
        /\ trainer = "consume" => 1 <= TotalUpdates
    BY DEF Init
  <1>3. job \in Batch /\ consumed \in Batch
    BY DEF Init, NoBatch, Batch
  <1>4. /\ ready \in Seq(Batch) /\ Len(ready) = 0
        /\ ledger \in Seq(Entry) /\ Len(ledger) = 0
        /\ trajectory \in Seq(Nat) /\ Len(trajectory) = 0
    BY EmptySeq, Zenon DEF Init
  <1>5. TypeOK
    <2>1. publishedVersion \in Nat /\ publishedWeights \in Nat /\ steps \in Nat
          /\ nextDispatch \in Nat \ {0} /\ update \in Nat \ {0}
      BY <1>1
    <2>2. /\ stopped \in BOOLEAN /\ outcome \in Outcomes /\ producer \in ProducerStates
          /\ gaveUpOn \in ProducerStates \cup {"nobody"}
      BY <1>1 DEF ProducerStates, Outcomes
    <2>3. trainer \in TrainerStates
      BY <1>2 DEF TrainerStates
    <2>4. QED
      BY <2>1, <2>2, <2>3, <1>3, <1>4 DEF TypeOK
  <1>6. TrainerInv
    BY <1>1, <1>2, <1>4 DEF TrainerInv, InTraining
  <1>7. DispatchInv
    <2>1. Held = 0
      BY <1>1 DEF Held
    <2>2. 1 <= 0 + MaxStaleness + 1
      OBVIOUS
    <2>3. QED
      <3>1. nextDispatch = Len(trajectory) + Len(ready) + Held + 1
        BY <1>1, <1>4, <2>1
      <3>2. nextDispatch <= publishedVersion + MaxStaleness + 1
        BY <1>1, <2>2
      <3>3. steps = nextDispatch - 1 - (IF producer \in {"produce", "panicked"} THEN 1 ELSE 0)
        <4>1. producer \notin {"produce", "panicked"}
          BY <1>1
        <4>2. steps = 0 /\ nextDispatch - 1 - 0 = 0
          BY <1>1
        <4>3. QED
          BY <4>1, <4>2
      <3>4. QED
        BY <3>1, <3>2, <3>3 DEF DispatchInv
  <1>8. JobInv /\ QueueInv /\ LedgerInv
    BY <1>1, <1>4 DEF JobInv, InFlight, QueueInv, LedgerInv
  <1>9. QED
    BY <1>5, <1>6, <1>7, <1>8 DEF IInv

(* A dispatch under the gate creates a batch that is fresh, and it is the   *)
(* next one in order.                                                       *)
LEMMA DispatchStep == IInv /\ Dispatch => IInv'
  <1> SUFFICES ASSUME IInv, Dispatch PROVE IInv'
    OBVIOUS
  <1> USE BoundAssumption, SizeAssumption DEF IInv, Dispatch, trainerVars, loopVars
  <1>1. TypeOK'
    BY DEF TypeOK, ProducerStates, Batch
  <1>2. TrainerInv'
    BY DEF TrainerInv, InTraining
  <1>3. /\ publishedVersion \in Nat /\ nextDispatch \in Nat
        /\ publishedVersion < nextDispatch
        /\ nextDispatch - publishedVersion <= MaxStaleness
    BY DEF TypeOK, TrainerInv, DispatchInv, Held, InTraining, MayDispatch,
           SaturatingSub
  <1>4. DispatchInv'
    BY <1>3 DEF DispatchInv, Held, TypeOK
  <1>5. JobInv'
    BY <1>3 DEF JobInv, InFlight, Fresh, TypeOK, TrainerInv
  <1>6. QueueInv' /\ LedgerInv'
    BY DEF QueueInv, LedgerInv
  <1>7. QED
    BY <1>1, <1>2, <1>4, <1>5, <1>6

(* Producing advances the one trainer, so the evidence has the number of    *)
(* the batch.                                                               *)
LEMMA ProduceStep == IInv /\ Produce => IInv'
  <1> SUFFICES ASSUME IInv, Produce PROVE IInv'
    OBVIOUS
  <1> USE DEF IInv, Produce, schedulerVars, trainerVars, loopVars
  <1>1. TypeOK'
    BY DEF TypeOK, ProducerStates, Batch
  <1>2. TrainerInv' /\ DispatchInv'
    <2>1. TrainerInv'
      BY DEF TrainerInv, InTraining
    <2>2. DispatchInv'
      BY Lengths DEF DispatchInv, Held, TypeOK
    <2>3. QED
      BY <2>1, <2>2
  <1>3. JobInv'
    <2>1. job.target = nextDispatch - 1 /\ Fresh(job.scoring, job.target)
          /\ job.weights = job.scoring
      BY DEF JobInv, InFlight
    <2>2. steps + 1 = nextDispatch - 1
      BY DEF DispatchInv, TypeOK
    <2>3. /\ job'.target = job.target /\ job'.scoring = job.scoring
          /\ job'.weights = job.weights /\ job'.evidence = steps + 1
      OBVIOUS
    <2>4. QED
      BY ONLY <2>1, <2>2, <2>3, nextDispatch' = nextDispatch DEF JobInv, Fresh
  <1>4. QueueInv' /\ LedgerInv'
    BY DEF QueueInv, LedgerInv
  <1>5. QED
    BY <1>1, <1>2, <1>3, <1>4

(* The batch that is pushed is the next one the queue is missing.           *)
LEMMA PushStep == IInv /\ PushReady => IInv'
  <1> SUFFICES ASSUME IInv, PushReady PROVE IInv'
    OBVIOUS
  <1> USE DEF IInv, PushReady, schedulerVars, trainerVars, loopVars
  <1>1. TypeOK'
    BY DEF TypeOK, ProducerStates
  <1>2. Len(ready') = Len(ready) + 1 /\ Len(ready) \in Nat
    BY DEF TypeOK
  <1>3. TrainerInv' /\ DispatchInv' /\ JobInv' /\ LedgerInv'
    <2>1. TrainerInv' /\ LedgerInv'
      BY DEF TrainerInv, LedgerInv, InTraining
    <2>2. DispatchInv'
      BY <1>2, Lengths DEF DispatchInv, Held, TypeOK
    <2>3. JobInv'
      BY DEF JobInv, InFlight
    <2>4. QED
      BY <2>1, <2>2, <2>3
  <1>4. QueueInv'
    <2> SUFFICES ASSUME NEW i \in 1..Len(ready')
                 PROVE  /\ ready'[i].target = Len(trajectory) + i
                        /\ ready'[i].evidence = Len(trajectory) + i
                        /\ Fresh(ready'[i].scoring, ready'[i].target)
                        /\ ready'[i].weights = ready'[i].scoring
      BY DEF QueueInv, Fresh
    <2>1. CASE i \in 1..Len(ready)
      BY <2>1, <1>2 DEF QueueInv, TypeOK
    <2>2. CASE i = Len(ready) + 1
      <3>1. ready'[i] = job
        BY <2>2 DEF TypeOK
      <3>2. nextDispatch - 1 = Len(trajectory) + i
        BY <2>2, <1>2 DEF DispatchInv, Held, TypeOK
      <3>3. QED
        BY <3>1, <3>2 DEF JobInv, InFlight
    <2>3. QED
      BY <2>1, <2>2, <1>2
  <1>5. QED
    BY <1>1, <1>3, <1>4

(* The entries recorded for a fresh batch are well typed and fresh.         *)
LEMMA EntriesFresh ==
  ASSUME NEW batch \in Batch, batch.target > 0,
         Fresh(batch.scoring, batch.target)
  PROVE  /\ EntriesOf(batch) \in Seq(Entry)
         /\ Len(EntriesOf(batch)) = BatchEpisodes
         /\ \A i \in 1..BatchEpisodes :
               Fresh(EntriesOf(batch)[i].scoring, EntriesOf(batch)[i].consuming)
  <1> USE SizeAssumption DEF Batch
  <1>1. \A m, n \in Nat : m * n \in Nat
    OBVIOUS
  <1>2. batch.target - 1 \in Nat
    OBVIOUS
  <1>3. (batch.target - 1) * BatchEpisodes \in Nat
    BY <1>1, <1>2
  <1>4. \A i \in 1..BatchEpisodes :
          (batch.target - 1) * BatchEpisodes + (i - 1) \in Nat
    BY <1>3
  <1>5. EntriesOf(batch) \in [1..BatchEpisodes -> Entry]
    BY <1>4 DEF EntriesOf, Entry
  <1>6. QED
    BY <1>5 DEF EntriesOf

(* Consuming takes the head of the queue, which is the update the trainer   *)
(* is at; the ledger's own check cannot fail.                               *)
LEMMA ConsumeStep == IInv /\ Consume => IInv' /\ Sync!RunUpdate
  <1> SUFFICES ASSUME IInv, Consume PROVE IInv' /\ Sync!RunUpdate
    OBVIOUS
  <1> USE BoundAssumption, SizeAssumption DEF IInv
  <1> DEFINE batch == Head(ready)
  <1>1. /\ Len(ready) \in Nat /\ Len(ready) > 0 /\ batch = ready[1]
        /\ batch \in Batch /\ Len(trajectory) \in Nat
    BY DEF Consume, TypeOK
  <1>2. /\ batch.target = Len(trajectory) + 1
        /\ batch.evidence = Len(trajectory) + 1
        /\ Fresh(batch.scoring, batch.target)
    BY <1>1 DEF QueueInv
  <1>3. WithinBound(batch.scoring, batch.target)
    BY <1>1, <1>2 DEF WithinBound, Fresh, SaturatingSub, Batch
  <1>4. /\ ledger' = ledger \o EntriesOf(batch)
        /\ outcome' = outcome /\ trainer' = "train" /\ consumed' = batch
        /\ trajectory' = Append(trajectory, Len(trajectory) + 1)
        /\ ready' = Tail(ready)
        /\ UNCHANGED <<publishedVersion, publishedWeights, nextDispatch, stopped,
                       producer, job, steps, update, gaveUpOn>>
    BY <1>2, <1>3 DEF Consume, schedulerVars, workerVars
  <1>5. /\ Len(ready') = Len(ready) - 1 /\ Len(trajectory') = Len(trajectory) + 1
        /\ ready' \in Seq(Batch) /\ trajectory' \in Seq(Nat)
        /\ \A i \in 1..Len(ready') : ready'[i] = ready[i + 1]
    BY <1>1, <1>4 DEF TypeOK
  <1>6. /\ EntriesOf(batch) \in Seq(Entry)
        /\ Len(EntriesOf(batch)) = BatchEpisodes
        /\ \A i \in 1..BatchEpisodes :
              Fresh(EntriesOf(batch)[i].scoring, EntriesOf(batch)[i].consuming)
    BY <1>1, <1>2, EntriesFresh
  <1>7. TypeOK'
    BY <1>1, <1>4, <1>5, <1>6 DEF TypeOK, TrainerStates
  <1>8. TrainerInv' /\ DispatchInv' /\ JobInv'
    <2>1. TrainerInv'
      BY <1>1, <1>2, <1>4, <1>5 DEF TrainerInv, InTraining, TypeOK, Consume
    <2>2. DispatchInv'
      <3>1. Len(trajectory') + Len(ready') = Len(trajectory) + Len(ready)
        BY <1>1, <1>5
      <3>2. Held' = Held /\ Held \in Nat
        BY <1>4 DEF Held
      <3>3. QED
        BY <1>1, <1>4, <1>5, <3>1, <3>2 DEF DispatchInv
    <2>3. JobInv'
      BY <1>4 DEF JobInv, InFlight
    <2>4. QED
      BY <2>1, <2>2, <2>3
  <1>9. QueueInv'
    <2> SUFFICES ASSUME NEW i \in 1..Len(ready')
                 PROVE  /\ ready'[i].target = Len(trajectory') + i
                        /\ ready'[i].evidence = Len(trajectory') + i
                        /\ Fresh(ready'[i].scoring, ready'[i].target)
                        /\ ready'[i].weights = ready'[i].scoring
      BY DEF QueueInv, Fresh
    <2>1. i + 1 \in 1..Len(ready) /\ ready'[i] = ready[i + 1]
      BY <1>1, <1>5
    <2>2. Len(trajectory') + i = Len(trajectory) + (i + 1)
      BY <1>1, <1>5
    <2>3. QED
      BY <2>1, <2>2 DEF QueueInv
  <1>10. LedgerInv'
    <2> SUFFICES ASSUME NEW i \in 1..Len(ledger')
                 PROVE  Fresh(ledger'[i].scoring, ledger'[i].consuming)
      BY DEF LedgerInv, Fresh
    <2>1. /\ Len(ledger) \in Nat
          /\ Len(ledger') = Len(ledger) + BatchEpisodes
      BY <1>4, <1>6, ConcatProperties, Lengths DEF TypeOK
    <2>2. CASE i \in 1..Len(ledger)
      <3>1. ledger'[i] = ledger[i]
        BY <2>2, <1>4, <1>6 DEF TypeOK
      <3>2. QED
        BY <3>1, <2>2 DEF LedgerInv
    <2>3. CASE i > Len(ledger)
      <3>1. i - Len(ledger) \in 1..BatchEpisodes
        BY <2>1, <2>3
      <3>2. ledger'[i] = EntriesOf(batch)[i - Len(ledger)]
        BY <2>1, <2>3, <1>4, <1>6 DEF TypeOK
      <3>3. QED
        BY <3>1, <3>2, <1>6
    <2>4. QED
      BY <2>1, <2>2, <2>3
  <1>11. Sync!RunUpdate
    BY <1>1, <1>4 DEF Sync!RunUpdate, TrainerInv, InTraining, Consume, TypeOK
  <1>12. QED
    BY <1>7, <1>8, <1>9, <1>10, <1>11

(* publish_v1 raises the version to the update just consumed.               *)
LEMMA PublishStep == IInv /\ Publish => IInv'
  <1> SUFFICES ASSUME IInv, Publish PROVE IInv'
    OBVIOUS
  <1> USE BoundAssumption DEF IInv, Publish, workerVars, loopVars
  <1>1. TypeOK' /\ QueueInv' /\ LedgerInv'
    BY DEF TypeOK, TrainerStates, QueueInv, LedgerInv
  <1>2. TrainerInv' /\ DispatchInv' /\ JobInv'
    BY DEF TrainerInv, DispatchInv, JobInv, InTraining, Held, InFlight, TypeOK
  <1>3. QED
    BY <1>1, <1>2

(* The actions that only move a thread's program counter, or wake the       *)
(* other thread, keep every count.                                          *)
LEMMA ControlStep ==
  ASSUME IInv,
         \/ WorkerExhausted \/ WorkerStops \/ WaitForPublish \/ SpuriousWakeup
         \/ ProducePanics \/ NotifyReady \/ WaitForBatch \/ TimeoutElapses
         \/ WaitSeesBatch \/ Train \/ NotifyPublished \/ Audit \/ MarkStopped
         \/ NotifyStopped \/ Join
  PROVE  IInv'
  <1> USE BoundAssumption, SizeAssumption
      DEF IInv, schedulerVars, workerVars, trainerVars, loopVars
  <1>0. QueueInv' /\ LedgerInv'
    BY DEF QueueInv, LedgerInv, WorkerExhausted, WorkerStops, WaitForPublish,
           SpuriousWakeup, ProducePanics, NotifyReady, WaitForBatch,
           TimeoutElapses, WaitSeesBatch, Train, NotifyPublished, Audit,
           MarkStopped, NotifyStopped, Join
  <1>1. CASE WorkerExhausted
    <2>1. TypeOK'
      BY <1>1 DEF WorkerExhausted, TypeOK, ProducerStates, TrainerStates
    <2>2. TrainerInv' /\ DispatchInv' /\ JobInv'
      BY <1>1 DEF WorkerExhausted, TypeOK, TrainerInv, DispatchInv, JobInv, InTraining,
                 Held, InFlight
    <2>3. QED
      BY <1>0, <2>1, <2>2
  <1>2. CASE WorkerStops
    <2>1. TypeOK'
      BY <1>2 DEF WorkerStops, TypeOK, ProducerStates, TrainerStates
    <2>2. TrainerInv' /\ DispatchInv' /\ JobInv'
      BY <1>2 DEF WorkerStops, TypeOK, TrainerInv, DispatchInv, JobInv, InTraining,
                 Held, InFlight
    <2>3. QED
      BY <1>0, <2>1, <2>2
  <1>3. CASE WaitForPublish
    <2>1. TypeOK'
      BY <1>3 DEF WaitForPublish, TypeOK, ProducerStates, TrainerStates
    <2>2. TrainerInv' /\ DispatchInv' /\ JobInv'
      BY <1>3 DEF WaitForPublish, TypeOK, TrainerInv, DispatchInv, JobInv, InTraining,
                 Held, InFlight
    <2>3. QED
      BY <1>0, <2>1, <2>2
  <1>4. CASE SpuriousWakeup
    <2>1. TypeOK'
      BY <1>4 DEF SpuriousWakeup, TypeOK, ProducerStates, TrainerStates
    <2>2. TrainerInv' /\ DispatchInv' /\ JobInv'
      BY <1>4 DEF SpuriousWakeup, TypeOK, TrainerInv, DispatchInv, JobInv, InTraining,
                 Held, InFlight
    <2>3. QED
      BY <1>0, <2>1, <2>2
  <1>5. CASE ProducePanics
    <2>1. TypeOK'
      BY <1>5 DEF ProducePanics, TypeOK, ProducerStates, TrainerStates
    <2>2. TrainerInv' /\ DispatchInv' /\ JobInv'
      BY <1>5 DEF ProducePanics, TypeOK, TrainerInv, DispatchInv, JobInv, InTraining,
                 Held, InFlight
    <2>3. QED
      BY <1>0, <2>1, <2>2
  <1>6. CASE NotifyReady
    <2>1. TypeOK'
      BY <1>6 DEF NotifyReady, TypeOK, ProducerStates, TrainerStates
    <2>2. TrainerInv' /\ DispatchInv' /\ JobInv'
      BY <1>6 DEF NotifyReady, TypeOK, TrainerInv, DispatchInv, JobInv, InTraining,
                 Held, InFlight
    <2>3. QED
      BY <1>0, <2>1, <2>2
  <1>7. CASE WaitForBatch
    <2>1. TypeOK'
      BY <1>7 DEF WaitForBatch, TypeOK, ProducerStates, TrainerStates
    <2>2. TrainerInv' /\ DispatchInv' /\ JobInv'
      BY <1>7 DEF WaitForBatch, TypeOK, TrainerInv, DispatchInv, JobInv, InTraining,
                 Held, InFlight
    <2>3. QED
      BY <1>0, <2>1, <2>2
  <1>8. CASE TimeoutElapses
    <2>1. TypeOK'
      BY <1>8 DEF TimeoutElapses, TypeOK, ProducerStates, TrainerStates, Outcomes, Finished
    <2>2. TrainerInv' /\ DispatchInv' /\ JobInv'
      BY <1>8 DEF TimeoutElapses, TypeOK, TrainerInv, DispatchInv, JobInv, InTraining,
                 Held, InFlight, Outcomes, Finished
    <2>3. QED
      BY <1>0, <2>1, <2>2
  <1>9. CASE WaitSeesBatch
    <2>1. TypeOK'
      BY <1>9 DEF WaitSeesBatch, TypeOK, ProducerStates, TrainerStates
    <2>2. TrainerInv' /\ DispatchInv' /\ JobInv'
      BY <1>9 DEF WaitSeesBatch, TypeOK, TrainerInv, DispatchInv, JobInv, InTraining,
                 Held, InFlight
    <2>3. QED
      BY <1>0, <2>1, <2>2
  <1>10. CASE Train
    <2>1. TypeOK'
      BY <1>10 DEF Train, TypeOK, ProducerStates, TrainerStates
    <2>2. TrainerInv' /\ DispatchInv' /\ JobInv'
      BY <1>10 DEF Train, TypeOK, TrainerInv, DispatchInv, JobInv, InTraining,
                 Held, InFlight
    <2>3. QED
      BY <1>0, <2>1, <2>2
  <1>11. CASE NotifyPublished
    <2>1. TypeOK'
      BY <1>11 DEF NotifyPublished, TypeOK, ProducerStates, TrainerStates, NotifyDispatch,
                   NoBatch, Batch
    <2>2. TrainerInv' /\ DispatchInv' /\ JobInv'
      <3>1. TrainerInv'
        BY <1>11 DEF NotifyPublished, TypeOK, TrainerInv, InTraining
      <3>2. Held' = Held /\ InFlight' = InFlight /\ (producer' = "push" => producer = "push")
            /\ (producer' \in {"produce", "panicked"} <=> producer \in {"produce", "panicked"})
        BY <1>11 DEF NotifyPublished, NotifyDispatch, Held, InFlight
      <3>3. DispatchInv' /\ JobInv'
        BY <1>11, <3>2 DEF NotifyPublished, DispatchInv, JobInv
      <3>4. QED
        BY <3>1, <3>3
    <2>3. QED
      BY <1>0, <2>1, <2>2
  <1>12. CASE Audit
    <2>1. TypeOK'
      BY <1>12 DEF Audit, TypeOK, ProducerStates, TrainerStates, Outcomes
    <2>2. TrainerInv' /\ DispatchInv' /\ JobInv'
      BY <1>12 DEF Audit, TypeOK, TrainerInv, DispatchInv, JobInv, InTraining,
                 Held, InFlight, Outcomes
    <2>3. QED
      BY <1>0, <2>1, <2>2
  <1>13. CASE MarkStopped
    <2>1. TypeOK'
      BY <1>13 DEF MarkStopped, TypeOK, ProducerStates, TrainerStates
    <2>2. TrainerInv' /\ DispatchInv' /\ JobInv'
      BY <1>13 DEF MarkStopped, TypeOK, TrainerInv, DispatchInv, JobInv, InTraining,
                 Held, InFlight
    <2>3. QED
      BY <1>0, <2>1, <2>2
  <1>14. CASE NotifyStopped
    <2>1. TypeOK'
      BY <1>14 DEF NotifyStopped, TypeOK, ProducerStates, TrainerStates, NotifyDispatch
    <2>2. TrainerInv' /\ DispatchInv' /\ JobInv'
      BY <1>14 DEF NotifyStopped, TypeOK, TrainerInv, DispatchInv, JobInv, InTraining,
                 Held, InFlight, NotifyDispatch
    <2>3. QED
      BY <1>0, <2>1, <2>2
  <1>15. CASE Join
    <2>1. TypeOK'
      BY <1>15 DEF Join, TypeOK, ProducerStates, TrainerStates, Finished
    <2>2. TrainerInv' /\ DispatchInv' /\ JobInv'
      BY <1>15 DEF Join, TypeOK, TrainerInv, DispatchInv, JobInv, InTraining,
                 Held, InFlight, Finished
    <2>3. QED
      BY <1>0, <2>1, <2>2
  <1>16. QED
    BY <1>1, <1>2, <1>3, <1>4, <1>5, <1>6, <1>7, <1>8, <1>9, <1>10, <1>11, <1>12, <1>13, <1>14, <1>15

(* Every step of the two threads keeps the invariant.                       *)
LEMMA NextIInv == IInv /\ [Next]_vars => IInv'
  <1> SUFFICES ASSUME IInv, [Next]_vars PROVE IInv'
    OBVIOUS
  <1>1. CASE UNCHANGED vars
    BY <1>1 DEF vars, IInv, TypeOK, TrainerInv, DispatchInv, JobInv, QueueInv,
                LedgerInv, InTraining, Held, InFlight, Fresh
  <1>2. CASE Next
    BY <1>1, <1>2, DispatchStep, ProduceStep, PushStep, ConsumeStep, PublishStep,
       ControlStep DEF Next, Worker, Trainer, TrainerRuns, Done
  <1>3. QED
    BY <1>1, <1>2

(* The inductive invariant holds in every reachable state.                  *)
LEMMA Inductive == Spec => []IInv
  BY InitIInv, NextIInv, PTL DEF Spec

(* Every state of BoundedStalenessSchedulerV1 and its two threads is well   *)
(* typed.                                                                   *)
THEOREM TypeCorrect == Spec => []TypeOK
  <1>1. IInv => TypeOK
    BY DEF IInv
  <1>2. QED
    BY <1>1, Inductive, PTL

(* The staleness bound of the dispatch gate holds for every batch in        *)
(* production, in the queue and in the ledger, for every bound and length.  *)
THEOREM StalenessBound == Spec => []StalenessBounded
  <1>1. IInv => StalenessBounded
    <2>1. TypeOK => DOMAIN ready = 1..Len(ready) /\ DOMAIN ledger = 1..Len(ledger)
      BY LenProperties DEF TypeOK
    <2>2. QED
      BY <2>1 DEF IInv, StalenessBounded, JobInv, QueueInv, LedgerInv
  <1>2. QED
    BY <1>1, Inductive, PTL

(* The unbounded VecDeque never holds more than the bound allows.           *)
THEOREM OutstandingBound == Spec => []OutstandingBounded
  <1>1. IInv => OutstandingBounded
    <2> SUFFICES ASSUME IInv PROVE OutstandingBounded
      OBVIOUS
    <2>1. /\ Len(ready) \in Nat /\ Len(trajectory) \in Nat
          /\ publishedVersion \in Nat /\ MaxStaleness \in Nat
      BY BoundAssumption, Lengths DEF IInv, TypeOK
    <2>2. InFlight \in 0..1 /\ Held \in 0..1 /\ InFlight <= Held
      BY DEF InFlight, Held
    <2>3. Len(ready) + Held + InTraining <= MaxStaleness /\ InTraining \in 0..1
      BY <2>1, <2>2 DEF IInv, DispatchInv, TrainerInv, InTraining
    <2>4. QED
      BY <2>1, <2>2, <2>3 DEF OutstandingBounded, InTraining
  <1>2. QED
    BY <1>1, Inductive, PTL

(* The async arm refines the synchronous one: each consumed batch records   *)
(* the evidence the synchronous loop would have recorded next.              *)
THEOREM AsyncRefinesSync == Spec => MatchesSynchronousArm
  <1>1. Init => Sync!Init
    BY DEF Init, Sync!Init
  <1>2. IInv /\ [Next]_vars => [Sync!RunUpdate]_trajectory
    <2> SUFFICES ASSUME IInv, [Next]_vars
                 PROVE  Sync!RunUpdate \/ UNCHANGED trajectory
      OBVIOUS
    <2>1. CASE Consume
      BY <2>1, ConsumeStep
    <2>2. CASE ~Consume
      BY <2>2 DEF Next, Worker, Trainer, TrainerRuns, Done, vars, trainerVars, loopVars, WorkerExhausted,
           WorkerStops, Dispatch, WaitForPublish, SpuriousWakeup, Produce,
           ProducePanics, PushReady, NotifyReady, WaitForBatch,
           TimeoutElapses, WaitSeesBatch, Train, Publish, NotifyPublished,
           Audit, MarkStopped, NotifyStopped, Join
    <2>3. QED
      BY <2>1, <2>2
  <1>3. QED
    BY <1>1, <1>2, Inductive, PTL DEF Spec, MatchesSynchronousArm, Sync!Spec

-----------------------------------------------------------------------------
(* The ledger as evidence trail.                                           *)

\* A batch's episodes are recorded exactly when its update is.
LedgerCount == Len(ledger) = Len(trajectory) * BatchEpisodes

(* Multiplication is monotone.                                              *)
LEMMA TimesMonotone == \A a, b, c \in Nat : a <= b => a * c <= b * c
  <1> SUFFICES ASSUME NEW a \in Nat, NEW b \in Nat, NEW c \in Nat, a <= b
               PROVE  a * c <= b * c
    OBVIOUS
  <1>1. PICK d \in Nat : b = a + d
    <2>1. b - a \in Nat /\ b = a + (b - a)
      OBVIOUS
    <2>2. QED
      BY <2>1
  <1>2. b * c = a * c + d * c
    BY <1>1
  <1>3. d * c \in Nat /\ a * c \in Nat
    OBVIOUS
  <1>4. QED
    BY <1>2, <1>3

(* The quotient of a number written in base n.                              *)
LEMMA Quotient ==
  ASSUME NEW q \in Nat, NEW n \in Nat \ {0}, NEW r \in 0..(n - 1)
  PROVE  (q * n + r) \div n = q
  <1> DEFINE a == q * n + r
             d == a \div n
             m == a % n
  <1>1. q * n \in Nat /\ a \in Nat
    OBVIOUS
  <1>2. d \in Nat /\ m \in 0..(n - 1) /\ a = d * n + m
    <2>1. \A x \in Nat : /\ x \div n \in Nat /\ x % n \in 0..(n - 1)
                         /\ x = (x \div n) * n + (x % n)
      OBVIOUS
    <2>2. QED
      BY <1>1, <2>1
  <1> HIDE DEF d, m
  <1>3. ~(d >= q + 1)
    <2>1. d >= q + 1 => (q + 1) * n <= d * n
      BY <1>2, TimesMonotone
    <2>2. (q + 1) * n = q * n + n
      OBVIOUS
    <2>3. d * n \in Nat
      BY <1>2
    <2>4. QED
      BY <1>1, <1>2, <2>1, <2>2, <2>3
  <1>4. ~(q >= d + 1)
    <2>1. q >= d + 1 => (d + 1) * n <= q * n
      BY <1>2, TimesMonotone
    <2>2. (d + 1) * n = d * n + n
      BY <1>2
    <2>3. d * n \in Nat
      BY <1>2
    <2>4. QED
      BY <1>1, <1>2, <2>1, <2>2, <2>3
  <1>5. d = q
    BY <1>2, <1>3, <1>4
  <1>6. QED
    BY <1>5 DEF d

(* Consuming the next batch continues the trail where it ended.             *)
LEMMA ConsumeLedger ==
  ASSUME IInv, LedgerCount, LedgerExact, Consume
  PROVE  (LedgerCount /\ LedgerExact)'
  <1> DEFINE batch == Head(ready)
  <1>0. BatchEpisodes \in Nat
    BY SizeAssumption
  <1>1. /\ Len(ready) \in Nat /\ Len(ready) > 0 /\ batch = ready[1]
        /\ batch \in Batch /\ Len(trajectory) \in Nat /\ Len(ledger) \in Nat
        /\ ledger \in Seq(Entry) /\ trajectory \in Seq(Nat)
    BY DEF Consume, IInv, TypeOK
  <1>2. batch.target = Len(trajectory) + 1 /\ Fresh(batch.scoring, batch.target)
    BY <1>1 DEF IInv, QueueInv
  <1>3. batch.target > 0 /\ WithinBound(batch.scoring, batch.target)
    BY <1>1, <1>2, BoundAssumption DEF WithinBound, Fresh, SaturatingSub, Batch
  <1>4. ledger' = ledger \o EntriesOf(batch) /\ trajectory' = Append(trajectory, batch.evidence)
    BY <1>3 DEF Consume
  <1>5. EntriesOf(batch) \in Seq(Entry) /\ Len(EntriesOf(batch)) = BatchEpisodes
    BY <1>1, <1>2, <1>3, EntriesFresh
  <1>6. /\ Len(ledger') = Len(ledger) + BatchEpisodes
        /\ Len(trajectory') = Len(trajectory) + 1
        /\ ledger' \in Seq(Entry)
    <2>1. batch.evidence \in Nat
      BY <1>1 DEF Batch
    <2>2. Len(trajectory') = Len(trajectory) + 1
      BY <1>1, <1>4, <2>1
    <2>3. ledger' \in Seq(Entry) /\ Len(ledger') = Len(ledger) + BatchEpisodes
      BY <1>1, <1>4, <1>5, ConcatProperties
    <2>4. QED
      BY <2>2, <2>3
  <1>7. LedgerCount'
    BY <1>0, <1>1, <1>6 DEF LedgerCount
  <1>8. LedgerExact'
    <2> SUFFICES ASSUME NEW i \in 1..Len(ledger')
                 PROVE  /\ ledger'[i].episode = i - 1
                        /\ ledger'[i].consuming = 1 + ((i - 1) \div BatchEpisodes)
      BY <1>6 DEF LedgerExact
    <2>1. CASE i \in 1..Len(ledger)
      <3>1. ledger'[i] = ledger[i] /\ i \in DOMAIN ledger
        BY <2>1, <1>1, <1>4, <1>5
      <3>2. QED
        BY <3>1 DEF LedgerExact
    <2>2. CASE i > Len(ledger)
      <3>0. i - Len(ledger) \in 1..BatchEpisodes
        BY <1>0, <1>1, <1>6, <2>2
      <3>1. PICK j \in 1..BatchEpisodes : j = i - Len(ledger)
        BY <3>0
      <3>2. ledger'[i] = EntriesOf(batch)[j]
        BY <1>1, <1>4, <1>5, <1>6, <2>2, <3>1
      <3>3. /\ ledger'[i].episode = (batch.target - 1) * BatchEpisodes + (j - 1)
            /\ ledger'[i].consuming = batch.target
        BY <3>2 DEF EntriesOf
      <3>4. batch.target - 1 = Len(trajectory)
        BY <1>1, <1>2
      <3>5. (batch.target - 1) * BatchEpisodes = Len(ledger)
        BY <3>4 DEF LedgerCount
      <3>6. i - 1 = Len(trajectory) * BatchEpisodes + (j - 1)
        BY <1>1, <3>1 DEF LedgerCount
      <3>7. BatchEpisodes \in Nat \ {0} /\ j - 1 \in 0..(BatchEpisodes - 1)
        BY <1>0, <3>1
      <3>8. (i - 1) \div BatchEpisodes = Len(trajectory)
        BY <1>1, <3>6, <3>7, Quotient
      <3>9. ledger'[i].episode = i - 1
        BY <1>1, <3>1, <3>3, <3>5
      <3>10. ledger'[i].consuming = 1 + ((i - 1) \div BatchEpisodes)
        BY <1>1, <1>2, <3>3, <3>8
      <3>11. QED
        BY <3>9, <3>10
    <2>3. QED
      BY <1>1, <2>1, <2>2
  <1>9. QED
    BY <1>7, <1>8

(* Every other step leaves the trail and the count alone.                   *)
LEMMA QuietLedger ==
  ASSUME [Next]_vars, ~Consume
  PROVE  UNCHANGED <<ledger, trajectory>>
  BY DEF Next, Worker, Trainer, TrainerRuns, Done, vars, trainerVars, loopVars, WorkerExhausted,
       WorkerStops, Dispatch, WaitForPublish, SpuriousWakeup, Produce,
       ProducePanics, PushReady, NotifyReady, WaitForBatch,
       TimeoutElapses, WaitSeesBatch, Train, Publish, NotifyPublished,
       Audit, MarkStopped, NotifyStopped, Join

(* LedgerExact: episode i of a run is entry i + 1 of its ledger, once, under *)
(* the update its batch was dispatched for, for every batch size.            *)
THEOREM LedgerIsExact == Spec => []LedgerExact
  <1>1. Init => LedgerCount /\ LedgerExact
    BY SizeAssumption DEF Init, LedgerCount, LedgerExact
  <1>2. IInv /\ [Next]_vars /\ LedgerCount /\ LedgerExact => (LedgerCount /\ LedgerExact)'
    <2> SUFFICES ASSUME IInv, [Next]_vars, LedgerCount, LedgerExact
                 PROVE  (LedgerCount /\ LedgerExact)'
      OBVIOUS
    <2>1. CASE Consume
      BY <2>1, ConsumeLedger
    <2>2. CASE ~Consume
      BY <2>2, QuietLedger DEF LedgerCount, LedgerExact
    <2>3. QED
      BY <2>1, <2>2
  <1>3. QED
    BY <1>1, <1>2, Inductive, PTL DEF Spec

-----------------------------------------------------------------------------
(* What the arm reports.                                                   *)

Ending == {"stop", "notifyStop", "join", "returned"}

\* How far the trainer got when it reports, and why the worker ended.
ReportInv ==
    /\ outcome = "running" <=> trainer \notin Ending
    /\ outcome # "BoundViolation"
    /\ stopped => trainer \in {"notifyStop", "join", "returned"}
    /\ producer = "ended" => stopped \/ nextDispatch > TotalUpdates
    /\ trainer = "audit" \/ outcome = "ok" => publishedVersion = TotalUpdates
    /\ outcome \in {"running", "ok"} => gaveUpOn = "nobody"
    /\ outcome = "ProducerEnded" => gaveUpOn = "panicked"
    /\ outcome = "Timeout" => gaveUpOn \notin {"nobody", "ended", "panicked"}

(* The worker's own steps end it only for the two reasons it has.           *)
LEMMA WorkerReports ==
  ASSUME IInv, ReportInv, Worker \/ ProducePanics \/ SpuriousWakeup
  PROVE  ReportInv'
  <1> USE DEF schedulerVars, trainerVars, loopVars, ReportInv
  <1>1. CASE WorkerExhausted
    BY <1>1 DEF WorkerExhausted
  <1>2. CASE WorkerStops
    BY <1>2 DEF WorkerStops
  <1>3. CASE Dispatch
    BY <1>3 DEF Dispatch
  <1>4. CASE WaitForPublish \/ Produce \/ PushReady \/ ProducePanics \/ SpuriousWakeup
    BY <1>4 DEF WaitForPublish, Produce, PushReady, ProducePanics, SpuriousWakeup
  <1>5. CASE NotifyReady
    BY <1>5 DEF NotifyReady, Ending
  <1>6. QED
    BY <1>1, <1>2, <1>3, <1>4, <1>5 DEF Worker

(* A queue found empty after the worker ended means the worker panicked:    *)
(* one that exhausted its updates left every batch in the queue.            *)
LEMMA TimeoutReports == ASSUME IInv, ReportInv, TimeoutElapses PROVE ReportInv'
  <1>1. /\ trainer = "waiting" /\ ready = <<>> /\ trainer' = "stop"
        /\ outcome' = IF Finished THEN "ProducerEnded" ELSE "Timeout"
        /\ gaveUpOn' = producer
        /\ UNCHANGED <<publishedVersion, nextDispatch, stopped, producer>>
    BY DEF TimeoutElapses, schedulerVars, workerVars, loopVars
  <1>2. producer # "ended"
    <2>1. ~stopped
      BY <1>1 DEF ReportInv
    <2>2. Len(ready) = 0 /\ Len(trajectory) \in Nat /\ publishedVersion \in Nat
      BY <1>1, Lengths DEF IInv, TypeOK
    <2>3. Len(trajectory) = publishedVersion /\ publishedVersion + 1 <= TotalUpdates
      BY <1>1, <2>2 DEF IInv, TrainerInv, InTraining
    <2>4. ASSUME producer = "ended" PROVE nextDispatch <= TotalUpdates
      BY <2>2, <2>3, <2>4 DEF IInv, DispatchInv, Held
    <2>5. QED
      BY <2>1, <2>4, SizeAssumption DEF ReportInv, IInv, TypeOK
  <1>3. QED
    BY <1>1, <1>2 DEF ReportInv, Ending, Finished, IInv, TypeOK, ProducerStates

(* The trainer's steps.                                                     *)
LEMMA TrainerReports == ASSUME IInv, ReportInv, Trainer PROVE ReportInv'
  <1> USE DEF schedulerVars, workerVars, loopVars, ReportInv, Ending
  <1>1. CASE Consume
    <2>1. Len(ready) > 0 /\ Head(ready) = ready[1] /\ Head(ready) \in Batch
      BY <1>1 DEF Consume, IInv, TypeOK
    <2>2. Fresh(Head(ready).scoring, Head(ready).target)
      BY <2>1, Lengths DEF IInv, QueueInv
    <2>3. WithinBound(Head(ready).scoring, Head(ready).target)
      BY <2>1, <2>2, BoundAssumption DEF WithinBound, Fresh, SaturatingSub, Batch
    <2>4. outcome' = outcome /\ trainer' = "train"
      BY <1>1, <2>3 DEF Consume
    <2>5. QED
      BY <1>1, <2>4 DEF Consume
  <1>2. CASE WaitForBatch \/ WaitSeesBatch \/ Train
    BY <1>2 DEF WaitForBatch, WaitSeesBatch, Train
  <1>3. CASE TimeoutElapses
    BY <1>3, TimeoutReports
  <1>4. CASE Publish
    BY <1>4 DEF Publish
  <1>5. CASE NotifyPublished
    <2>1. ~(update < TotalUpdates) => publishedVersion = TotalUpdates
      BY <1>5, SizeAssumption DEF NotifyPublished, IInv, TypeOK, TrainerInv
    <2>2. producer' = "ended" <=> producer = "ended"
      BY <1>5 DEF NotifyPublished, NotifyDispatch
    <2>3. QED
      BY <1>5, <2>1, <2>2 DEF NotifyPublished
  <1>6. CASE Audit \/ MarkStopped \/ Join
    BY <1>6 DEF Audit, MarkStopped, Join
  <1>7. CASE NotifyStopped
    BY <1>7 DEF NotifyStopped, NotifyDispatch
  <1>8. QED
    BY <1>1, <1>2, <1>3, <1>4, <1>5, <1>6, <1>7 DEF Trainer, TrainerRuns

(* OutcomeHonest: the trainer holds the batch of its own update; the arm    *)
(* reports success only for the whole run, ProducerEnded only if it gave up *)
(* on a panicked worker, Timeout only if it gave up on a live one, and      *)
(* never meets its own BoundViolation, in every interleaving and for every  *)
(* run length.                                                              *)
THEOREM ReportsAreHonest == Spec => []OutcomeHonest
  <1>1. Init => ReportInv
    BY SizeAssumption DEF Init, ReportInv, Ending
  <1>2. IInv /\ [Next]_vars /\ ReportInv => ReportInv'
    <2> SUFFICES ASSUME IInv, [Next]_vars, ReportInv PROVE ReportInv'
      OBVIOUS
    <2>1. CASE Done \/ UNCHANGED vars
      BY <2>1 DEF Done, vars, ReportInv
    <2>2. QED
      BY <2>1, WorkerReports, TrainerReports DEF Next
  <1>3. IInv /\ ReportInv => OutcomeHonest
    <2> SUFFICES ASSUME IInv, ReportInv PROVE OutcomeHonest
      OBVIOUS
    <2>1. publishedVersion \in Nat
      BY DEF IInv, TypeOK
    <2>2. trainer \in {"train", "publish", "notify"} => consumed.target = update
      BY DEF IInv, TrainerInv
    <2>3. outcome = "ok" => Len(trajectory) = publishedVersion
      BY <2>1 DEF IInv, TrainerInv, InTraining, ReportInv, Ending
    <2>4. QED
      BY <2>2, <2>3 DEF ReportInv, OutcomeHonest
  <1>4. QED
    BY <1>1, <1>2, <1>3, Inductive, PTL DEF Spec
-----------------------------------------------------------------------------
(* No thread waits for a thread that waits for it.                         *)

\* A trainer waits for a batch that is not there, or whose notify is on its
\* way; a worker waits because the gate is closed, until the trainer that
\* opens it, or stops it, has notified.
WaitInv ==
    /\ trainer = "waiting" => ready = <<>> \/ producer = "notify"
    /\ trainer \in {"notifyStop", "join", "returned"} => stopped
    /\ producer = "waiting" /\ trainer \notin {"notify", "notifyStop"}
           => ~stopped /\ ~MayDispatch(nextDispatch, publishedVersion)

(* Every step keeps the reasons for waiting.                                *)
LEMMA WaitStep == ASSUME IInv, WaitInv, Next PROVE WaitInv'
  <1> USE DEF WaitInv, schedulerVars, workerVars, trainerVars, loopVars
  <1>1. CASE WorkerExhausted \/ WorkerStops \/ Dispatch \/ Produce \/ ProducePanics
    BY <1>1 DEF WorkerExhausted, WorkerStops, Dispatch, Produce, ProducePanics
  <1>2. CASE WaitForPublish \/ SpuriousWakeup
    BY <1>2 DEF WaitForPublish, SpuriousWakeup
  <1>3. CASE PushReady \/ NotifyReady
    BY <1>3 DEF PushReady, NotifyReady
  <1>4. CASE Consume
    BY <1>4 DEF Consume
  <1>5. CASE WaitForBatch \/ WaitSeesBatch \/ Train \/ TimeoutElapses \/ Audit
    BY <1>5 DEF WaitForBatch, WaitSeesBatch, Train, TimeoutElapses, Audit
  <1>6. CASE Publish \/ MarkStopped \/ Join
    BY <1>6 DEF Publish, MarkStopped, Join
  <1>7. CASE NotifyPublished \/ NotifyStopped
    BY <1>7 DEF NotifyPublished, NotifyStopped, NotifyDispatch
  <1>8. CASE Done
    BY <1>8 DEF Done, vars
  <1>9. QED
    BY <1>1, <1>2, <1>3, <1>4, <1>5, <1>6, <1>7, <1>8
    DEF Next, Worker, Trainer, TrainerRuns

(* NeverBothWaiting: when the trainer waits on an empty queue everything    *)
(* dispatched is published, and then the gate of a bound of at least one is *)
(* open; a joined worker was told to stop before it was notified.           *)
THEOREM NoMutualWait == Spec => []NeverBothWaiting
  <1>1. Init => WaitInv
    BY DEF Init, WaitInv
  <1>2. IInv /\ [Next]_vars /\ WaitInv => WaitInv'
    <2>1. ASSUME UNCHANGED vars, WaitInv PROVE WaitInv'
      BY <2>1 DEF vars, WaitInv
    <2>2. QED
      BY <2>1, WaitStep
  <1>3. IInv /\ WaitInv => NeverBothWaiting
    <2> SUFFICES ASSUME IInv, WaitInv, producer = "waiting"
                 PROVE  trainer \notin {"waiting", "join", "returned"}
      BY DEF NeverBothWaiting
    <2>1. trainer \notin {"join", "returned"}
      BY DEF WaitInv
    <2>2. ASSUME trainer = "waiting" PROVE FALSE
      <3>1. ready = <<>> /\ ~MayDispatch(nextDispatch, publishedVersion)
        BY <2>2 DEF WaitInv
      <3>2. Len(ready) = 0 /\ publishedVersion \in Nat
        BY <3>1 DEF IInv, TypeOK
      <3>3. nextDispatch = publishedVersion + 1
        BY <2>2, <3>2 DEF IInv, DispatchInv, TrainerInv, InTraining, Held
      <3>4. QED
        BY <3>1, <3>2, <3>3, BoundAssumption DEF MayDispatch, SaturatingSub
    <2>3. QED
      BY <2>1, <2>2
  <1>4. QED
    BY <1>1, <1>2, <1>3, Inductive, PTL DEF Spec
=============================================================================
