-------------------------- MODULE BoundedStaleness --------------------------
(***************************************************************************)
(* `BoundedStalenessSchedulerV1` together with the trainer loop that       *)
(* drives it (`run_async_arm_v1`, `run_real_async_arm_v1`).                *)
(*                                                                         *)
(* Two threads share a state mutex with the condvar `dispatch_cv`, and a   *)
(* ready-queue mutex with the condvar `ready_cv`.  Every critical section  *)
(* is one action; what happens after a guard is dropped (producing a       *)
(* batch, every notify) is an action of its own.                           *)
(*                                                                         *)
(* Data: a weight snapshot is the number of updates it has absorbed; the   *)
(* evidence in a batch is the number of the trainer step that computed it  *)
(* (the producer closure owns one trainer and advances it in place).       *)
(***************************************************************************)
EXTENDS Naturals, Sequences

CONSTANTS
    MaxStaleness,     \* max_staleness_updates, the bound K
    TotalUpdates,     \* total_updates
    BatchEpisodes,    \* episodes in one batch
    ProduceMayPanic,  \* the closure's `.expect` may panic the worker
    ProducerMayBeSlow \* production may outlast the consumer's timeout

\* spawn_v1 asserts a bound of at least one.
ASSUME BoundAssumption == MaxStaleness \in Nat \ {0}
ASSUME SizeAssumption == TotalUpdates \in Nat /\ BatchEpisodes \in Nat
ASSUME FaultAssumption ==
    ProduceMayPanic \in BOOLEAN /\ ProducerMayBeSlow \in BOOLEAN

VARIABLES
    publishedVersion, publishedWeights, nextDispatch, stopped,
                      \* SchedulerStateV1, behind the state mutex
    ready,            \* VecDeque<ReadyBatchV1>
    ledger,           \* StalenessLedgerV1.entries
    producer,         \* where the worker thread is
    job,              \* the worker's dispatched batch (locals of the loop body)
    steps,            \* updates run by the trainer the closure owns
    trainer,          \* where the trainer thread is
    update,           \* its loop variable
    outcome,          \* what the arm returns
    trajectory,       \* evidence recorded for each consumed update
    consumed,         \* the batch next_batch_v1 returned to this iteration
    gaveUpOn          \* history: where the worker was when a wait was given up

schedulerVars == <<publishedVersion, publishedWeights, nextDispatch, stopped>>
workerVars == <<producer, job, steps>>
loopVars == <<update, outcome, trajectory, consumed, gaveUpOn>>
trainerVars == <<trainer, loopVars>>
vars == <<publishedVersion, publishedWeights, nextDispatch, stopped, ready,
          ledger, producer, job, steps, trainer, update, outcome, trajectory,
          consumed, gaveUpOn>>

\* "panicked" and "ended" are the two ways JoinHandle::is_finished is true.
ProducerStates == {"check", "waiting", "produce", "push", "notify",
                   "ended", "panicked"}
TrainerStates == {"consume", "waiting", "train", "publish", "notify", "audit",
                  "stop", "notifyStop", "join", "returned"}
Outcomes == {"running", "ok", "Timeout", "ProducerEnded", "BoundViolation"}

Batch == [target: Nat, scoring: Nat, weights: Nat, evidence: Nat]
Entry == [episode: Nat, scoring: Nat, consuming: Nat]
NoBatch == [target |-> 0, scoring |-> 0, weights |-> 0, evidence |-> 0]

Finished == producer \in {"ended", "panicked"}

Init ==
    /\ publishedVersion = 0 /\ publishedWeights = 0
    /\ nextDispatch = 1 /\ stopped = FALSE
    /\ ready = <<>> /\ ledger = <<>>
    /\ producer = "check" /\ job = NoBatch /\ steps = 0
    /\ trainer = IF TotalUpdates = 0 THEN "audit" ELSE "consume"
    /\ update = 1 /\ outcome = "running" /\ trajectory = <<>>
    /\ consumed = NoBatch /\ gaveUpOn = "nobody"

-----------------------------------------------------------------------------
(* The staleness bound, as the dispatch gate and the ledger compute it.    *)

SaturatingSub(a, b) == IF a < b THEN 0 ELSE a - b

\* Mutant: the gate is one update too lax.
MayDispatch_Lax(target, published) ==
    SaturatingSub(target, published) <= MaxStaleness + 1

\* The gate of the worker's inner loop.
MayDispatch(target, published) == SaturatingSub(target, published) <= MaxStaleness

\* check_staleness_bound_v1: causality, then the bound.
WithinBound(scoring, consuming) ==
    /\ scoring <= consuming
    /\ SaturatingSub(consuming, scoring) <= MaxStaleness

-----------------------------------------------------------------------------
(* The worker thread of spawn_v1.  Its loop counter is not kept: it is     *)
(* always nextDispatch - 1, which only this thread advances.               *)

\* `for _ in 0..total_updates` is exhausted: the thread returns.
WorkerExhausted ==
    /\ producer = "check" /\ nextDispatch > TotalUpdates
    /\ producer' = "ended"
    /\ UNCHANGED <<schedulerVars, ready, ledger, job, steps, trainerVars>>

\* Under the state lock: return, dispatch, or wait on dispatch_cv.
WorkerStops ==
    /\ producer = "check" /\ nextDispatch <= TotalUpdates
    /\ stopped
    /\ producer' = "ended"
    /\ UNCHANGED <<schedulerVars, ready, ledger, job, steps, trainerVars>>

\* Mutant: dispatch counts what the trainer has consumed, not what it has
\* published.
Dispatch_CountsConsumed ==
    /\ producer = "check" /\ nextDispatch <= TotalUpdates
    /\ ~stopped
    /\ MayDispatch(nextDispatch, Len(trajectory))
    /\ job' = [target |-> nextDispatch, scoring |-> publishedVersion,
               weights |-> publishedWeights, evidence |-> 0]
    /\ nextDispatch' = nextDispatch + 1
    /\ producer' = "produce"
    /\ UNCHANGED <<publishedVersion, publishedWeights, stopped, ready, ledger,
                   steps, trainerVars>>

Dispatch ==
    /\ producer = "check" /\ nextDispatch <= TotalUpdates
    /\ ~stopped
    /\ MayDispatch(nextDispatch, publishedVersion)
    /\ job' = [target |-> nextDispatch, scoring |-> publishedVersion,
               weights |-> publishedWeights, evidence |-> 0]
    /\ nextDispatch' = nextDispatch + 1
    /\ producer' = "produce"
    /\ UNCHANGED <<publishedVersion, publishedWeights, stopped, ready, ledger,
                   steps, trainerVars>>

WaitForPublish ==
    /\ producer = "check" /\ nextDispatch <= TotalUpdates
    /\ ~stopped
    /\ ~MayDispatch(nextDispatch, publishedVersion)
    /\ producer' = "waiting"
    /\ UNCHANGED <<schedulerVars, ready, ledger, job, steps, trainerVars>>

\* A condvar may wake without a notify.
SpuriousWakeup ==
    /\ producer = "waiting"
    /\ producer' = "check"
    /\ UNCHANGED <<schedulerVars, ready, ledger, job, steps, trainerVars>>

\* Mutant: the closure forks from the snapshot it was given instead of
\* advancing the trainer it owns.
Produce_ForksFromSnapshot ==
    /\ producer = "produce"
    /\ steps' = steps + 1
    /\ job' = [job EXCEPT !.evidence = job.weights + 1]
    /\ producer' = "push"
    /\ UNCHANGED <<schedulerVars, ready, ledger, trainerVars>>

\* The closure runs outside every lock: one in-place trainer update, stamped
\* with the dispatch identity.
Produce ==
    /\ producer = "produce"
    /\ steps' = steps + 1
    /\ job' = [target |-> job.target, scoring |-> job.scoring,
               weights |-> job.weights, evidence |-> steps + 1]
    /\ producer' = "push"
    /\ UNCHANGED <<schedulerVars, ready, ledger, trainerVars>>

ProducePanics ==
    /\ ProduceMayPanic
    /\ producer = "produce"
    /\ producer' = "panicked"
    /\ UNCHANGED <<schedulerVars, ready, ledger, job, steps, trainerVars>>

\* Mutant: push_front, a stack instead of a queue.
PushReady_Front ==
    /\ producer = "push"
    /\ ready' = <<job>> \o ready
    /\ producer' = "notify"
    /\ UNCHANGED <<schedulerVars, ledger, job, steps, trainerVars>>

PushReady ==
    /\ producer = "push"
    /\ ready' = Append(ready, job)
    /\ producer' = "notify"
    /\ UNCHANGED <<schedulerVars, ledger, job, steps, trainerVars>>

\* ready_cv.notify_one(), after the queue lock is released.
NotifyReady ==
    /\ producer = "notify"
    /\ producer' = "check"
    /\ trainer' = IF trainer = "waiting" THEN "consume" ELSE trainer
    /\ UNCHANGED <<schedulerVars, ready, ledger, job, steps, loopVars>>

Worker == WorkerExhausted \/ WorkerStops \/ Dispatch \/ WaitForPublish
          \/ Produce \/ PushReady \/ NotifyReady

-----------------------------------------------------------------------------
(* The trainer thread: next_batch_v1, the train step, publish_v1.          *)

\* next_batch_v1 records every episode of the batch, in order, before it
\* decides: recording never refuses an entry.
EntriesOf(batch) ==
    [i \in 1..BatchEpisodes |->
        [episode   |-> (batch.target - 1) * BatchEpisodes + (i - 1),
         scoring   |-> batch.scoring,
         consuming |-> batch.target]]

Consume ==
    /\ trainer = "consume"
    /\ ready # <<>>
    /\ LET batch == Head(ready)
           violated == BatchEpisodes > 0 /\ ~WithinBound(batch.scoring, batch.target)
       IN  /\ ledger' = ledger \o EntriesOf(batch)
           /\ outcome' = IF violated THEN "BoundViolation" ELSE outcome
           /\ trainer' = IF violated THEN "stop" ELSE "train"
           /\ trajectory' = IF violated THEN trajectory
                                        ELSE Append(trajectory, batch.evidence)
           /\ consumed' = IF violated THEN consumed ELSE batch
    /\ ready' = Tail(ready)
    /\ UNCHANGED <<schedulerVars, workerVars, update, gaveUpOn>>

\* wait_timeout_while on an empty queue.
WaitForBatch ==
    /\ trainer = "consume"
    /\ ready = <<>>
    /\ trainer' = "waiting"
    /\ UNCHANGED <<schedulerVars, ready, ledger, workerVars, loopVars>>

\* Mutant: the consumer does not ask whether its producer has finished.
TimeoutElapses_NeverAsks ==
    /\ trainer = "waiting"
    /\ ready = <<>>
    /\ Finished \/ ProducerMayBeSlow
    /\ outcome' = "Timeout"
    /\ gaveUpOn' = producer
    /\ trainer' = "stop"
    /\ UNCHANGED <<schedulerVars, ready, ledger, workerVars, update, trajectory,
                   consumed>>

\* The timeout elapses on an empty queue; the `?` of the caller then drops
\* the scheduler.  A live producer is only reported when it can be that slow.
TimeoutElapses ==
    /\ trainer = "waiting"
    /\ ready = <<>>
    /\ Finished \/ ProducerMayBeSlow
    /\ outcome' = IF Finished THEN "ProducerEnded" ELSE "Timeout"
    /\ gaveUpOn' = producer
    /\ trainer' = "stop"
    /\ UNCHANGED <<schedulerVars, ready, ledger, workerVars, update, trajectory,
                   consumed>>

\* The timeout elapses (or the wait wakes spuriously) and the predicate is
\* looked at again: the queue is not empty any more.
WaitSeesBatch ==
    /\ trainer = "waiting"
    /\ ready # <<>>
    /\ trainer' = "consume"
    /\ UNCHANGED <<schedulerVars, ready, ledger, workerVars, loopVars>>

\* The gradient step, Store commit and evaluation; it touches no shared state.
Train ==
    /\ trainer = "train"
    /\ trainer' = "publish"
    /\ UNCHANGED <<schedulerVars, ready, ledger, workerVars, loopVars>>

\* Mutant: the weights are swapped and the version is not raised.
Publish_KeepsVersion ==
    /\ trainer = "publish"
    /\ publishedWeights' = update
    /\ trainer' = "notify"
    /\ UNCHANGED <<publishedVersion, nextDispatch, stopped, ready, ledger,
                   workerVars, loopVars>>

\* publish_v1(update, weights): version and weights under one lock.
Publish ==
    /\ trainer = "publish"
    /\ publishedVersion' = update
    /\ publishedWeights' = update
    /\ trainer' = "notify"
    /\ UNCHANGED <<nextDispatch, stopped, ready, ledger, workerVars, loopVars>>

\* dispatch_cv.notify_all(), after the state lock is released.
NotifyDispatch ==
    producer' = IF producer = "waiting" THEN "check" ELSE producer

\* Mutant: publish_v1 does not notify; stop_and_join_v1 still does.
NotifyPublished_Lost ==
    /\ trainer = "notify"
    /\ update' = update + 1
    /\ consumed' = NoBatch
    /\ trainer' = IF update < TotalUpdates THEN "consume" ELSE "audit"
    /\ UNCHANGED <<schedulerVars, ready, ledger, workerVars, outcome, trajectory,
                   gaveUpOn>>

\* The notify of publish_v1, and the loop's next iteration or its end.
NotifyPublished ==
    /\ trainer = "notify"
    /\ NotifyDispatch
    /\ update' = update + 1
    /\ consumed' = NoBatch
    /\ trainer' = IF update < TotalUpdates THEN "consume" ELSE "audit"
    /\ UNCHANGED <<schedulerVars, ready, ledger, job, steps, outcome, trajectory,
                   gaveUpOn>>

\* enforce_all_v1 over the whole ledger.  `.expect` makes the check a guard: a
\* ledger that fails it would leave the trainer stuck here, a deadlock.
Audit ==
    /\ trainer = "audit"
    /\ \A i \in DOMAIN ledger : WithinBound(ledger[i].scoring, ledger[i].consuming)
    /\ outcome' = "ok"
    /\ trainer' = "stop"
    /\ UNCHANGED <<schedulerVars, ready, ledger, workerVars, update, trajectory,
                   consumed, gaveUpOn>>

-----------------------------------------------------------------------------
(* stop_and_join_v1, and Drop on every early return.                       *)

MarkStopped ==
    /\ trainer = "stop"
    /\ stopped' = TRUE
    /\ trainer' = "notifyStop"
    /\ UNCHANGED <<publishedVersion, publishedWeights, nextDispatch, ready,
                   ledger, workerVars, loopVars>>

NotifyStopped ==
    /\ trainer = "notifyStop"
    /\ NotifyDispatch
    /\ trainer' = "join"
    /\ UNCHANGED <<schedulerVars, ready, ledger, job, steps, loopVars>>

Join ==
    /\ trainer = "join"
    /\ Finished
    /\ trainer' = "returned"
    /\ UNCHANGED <<schedulerVars, ready, ledger, workerVars, loopVars>>

\* The trainer's steps that do not wait for a timeout, and the two ways out of
\* a wait that no notify ended.
TrainerRuns == Consume \/ WaitForBatch \/ Train \/ Publish \/ NotifyPublished
               \/ Audit \/ MarkStopped \/ NotifyStopped \/ Join

Trainer == TrainerRuns \/ TimeoutElapses \/ WaitSeesBatch

\* The arm has returned; nothing is left to happen.
Done == trainer = "returned" /\ UNCHANGED vars

Next == Worker \/ ProducePanics \/ SpuriousWakeup \/ Trainer \/ Done

Spec == Init /\ [][Next]_vars

\* Both threads keep being scheduled and `produce` returns.  A wait is owed its
\* timeout only when its producer is gone: that a live producer is slow, that
\* one panics, and that a wait wakes without a notify, is owed to nobody.
FairSpec ==
    /\ Spec
    /\ WF_vars(Worker) /\ WF_vars(TrainerRuns)
    /\ WF_vars(TimeoutElapses /\ Finished)

-----------------------------------------------------------------------------
(* What the scheduler must keep.                                           *)

TypeOK ==
    /\ publishedVersion \in Nat /\ publishedWeights \in Nat
    /\ nextDispatch \in Nat \ {0} /\ stopped \in BOOLEAN
    /\ ready \in Seq(Batch) /\ ledger \in Seq(Entry)
    /\ producer \in ProducerStates /\ job \in Batch /\ steps \in Nat
    /\ trainer \in TrainerStates /\ update \in Nat \ {0}
    /\ outcome \in Outcomes /\ trajectory \in Seq(Nat)
    /\ consumed \in Batch /\ gaveUpOn \in ProducerStates \cup {"nobody"}

InFlight == IF producer \in {"produce", "push"} THEN 1 ELSE 0

\* A batch is scored by weights that are older than the update it trains, and
\* by at most MaxStaleness updates.
Fresh(scoring, consuming) ==
    scoring < consuming /\ consuming - scoring <= MaxStaleness

\* The declared bound, end to end: the batch being produced, every batch in
\* the queue and every episode in the ledger was scored by a strictly older
\* version, at most MaxStaleness behind, and with the very weights of that
\* version, whatever was published while it was being produced.
StalenessBounded ==
    /\ InFlight = 1 => Fresh(job.scoring, job.target) /\ job.weights = job.scoring
    /\ \A i \in DOMAIN ready : /\ Fresh(ready[i].scoring, ready[i].target)
                               /\ ready[i].weights = ready[i].scoring
    /\ \A i \in DOMAIN ledger : Fresh(ledger[i].scoring, ledger[i].consuming)

\* The ready queue has no capacity of its own: the dispatch gate is what keeps
\* it from growing.  At most MaxStaleness batches are outstanding, and while
\* the trainer is between consuming a batch and publishing its update one of
\* them is that batch, so a bound of one admits no overlap at all.
OutstandingBounded ==
    Len(ready) + InFlight
        <= IF trainer \in {"train", "publish"} THEN MaxStaleness - 1 ELSE MaxStaleness

\* The ledger is the evidence trail of the run: episode i of the run is its
\* entry i + 1, once, under the update that its batch was dispatched for.
LedgerExact ==
    \A i \in DOMAIN ledger :
        /\ ledger[i].episode = i - 1
        /\ ledger[i].consuming = 1 + ((i - 1) \div BatchEpisodes)

\* `debug_assert_eq!(consumed.consuming_update_version, update)` for the batch
\* the trainer holds, and what the arm reports: success only for the whole run,
\* ProducerEnded only when the wait was given up on a worker that had panicked
\* (one that exhausted its updates left no batch missing), Timeout only when it
\* was given up on one still alive, and never the ledger's own BoundViolation.
OutcomeHonest ==
    /\ trainer \in {"train", "publish", "notify"} => consumed.target = update
    /\ outcome = "ok" => /\ Len(trajectory) = TotalUpdates
                         /\ publishedVersion = TotalUpdates
                         /\ gaveUpOn = "nobody"
    /\ outcome = "ProducerEnded" => gaveUpOn = "panicked"
    /\ outcome = "Timeout" => gaveUpOn \notin {"nobody", "ended", "panicked"}
    /\ outcome # "BoundViolation"

\* The two condition variables never hold both threads: a worker that waits for
\* a publication waits for a trainer that is not itself waiting for a batch, and
\* never for one that has told it to stop and is joining it.
NeverBothWaiting ==
    producer = "waiting" => trainer \notin {"waiting", "join", "returned"}

\* The async arm records exactly the evidence the synchronous arm records, in
\* the same order (`learning_trajectories_match`), however the threads
\* interleave; a faulty run records a prefix of it.
Sync == INSTANCE SynchronousArm
MatchesSynchronousArm == Sync!Spec

\* The arm returns and its worker thread has been joined, under panics and
\* under every order of publish, stop and wait.  No timeout on a live producer
\* is counted on, so no notify that ends a wait is lost and the gate is never
\* too strict: a run without a fault ends with outcome "ok".
Terminates == <>(trainer = "returned" /\ Finished)

=============================================================================
