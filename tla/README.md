# TLA+ models of mtg-kernel

Formal models of the parts of mtg-kernel whose correctness depends on an order
of events that no test controls: threads that hand batches and payloads to one
another, files that must survive a power failure, processes that share a host,
suspended procedures that must find the game as they left it, and long legal
sequences of steps through the rules engine's turn.

## 1. The system

mtg-kernel is a deterministic Magic rules kernel in Rust with a
reinforcement-learning stack around it. Rules code is sequential; concurrency,
durability and multi-process coordination live in the stack.

| Component | State it keeps | Operations | Hard behaviour | Module |
|---|---|---|---|---|
| Bounded-staleness training (`bounded_staleness_async_v1.rs`, harness, production arm) | published weights and version, next batch to dispatch, ready queue, ledger, stop flag | dispatch, produce, push, consume with timeout, publish, audit, stop, drop | two threads, two condition variables, timeouts, panics | `BoundedStaleness`, `SynchronousArm` |
| Asynchronous rollout (`async_rollout.rs`) | one mailbox per lane, notification bitmap, episode counter, start and cancel flags, per-lane learner streams | claim, publish message, notify, answer a snapshot, collect, fail, cancel, join | lock-free hand-over of plain memory, lost notifications, panics | `AsyncRollout` |
| Durable publication (`durable_publication_v1.rs`, `durable_move_publication_v2.rs`) | directory entries, file contents, what of both is on disk | publish by link, by no-replace rename, by replacing rename; verify existing | concurrent publishers, failing calls, power loss | `DurablePublication`, `WriteOnce` |
| Best-of-three match (`bo3_match.rs`, `bo3_session.rs`, `sideboard.rs`) | score, completed games, chooser and starter, registered and prepared decks | choose play or draw, prepare a game (plan, explicit, live policies), record a result | callbacks that fail half-way through a call | `BestOfThree` |
| London mulligans (`london_mulligan_v1.rs`) | counts, who kept, remembered hands, stage, whose turn, zones | drain to the next decision, answer | state remembered across suspension, checked by identity | `LondonMulligan` |
| Host slots (`python/tools/host_slots_v1.py`) | mutex directory, tickets, claims, timed declaration, each runner's process tree | queue, admit, backfill, start, poll, lend and give back, release | launcher processes that die, check-then-act on paths | `SlotMutex`, `HostSlots` |
| Host reservation (`python/tools/host_reservation_v1.py`) | lock record, events that name processes, boot id | acquire, dispatch, handoff, adopt, record, release, reclaim | processes killed anywhere, reclaim of a dead owner, two process-table backends | `HostReservation` |
| Training store (`native_training_store_{bootstrap,resume,}_v2.rs`, `native_science_loop_v1.rs`) | run file, generations of finals, latest pointer, stages, range lock; each trainer's session | bootstrap, genesis, resume, train, publish, validate | death between two files, trainers on stale state, a shortcut that skips the full check | `TrainingStore` |
| Turn and priority loop (`engine.rs`), cleanup, Time Stop, extra turns, legend rule, combat damage | turn, step, priority, stack, waiting triggers, cleanup records, extra-turn scheduler | one iteration of the loop, one answer to a decision | long legal sequences, procedures that suspend and are validated when resumed | `TurnLoop`, `TurnOrder` |
| Networks, search, card code, tooling, vendored code | | | numeric, sequential or input/output | not modelled (see `PROJECT.json`) |

Interactions: the training arm calls the scheduler and owns its producer
closure; the rollout broker and its workers share only mailboxes and the
bitmap; the training store publishes through durable publication; a session
prepares games of a match, each game begins with mulligans and then runs the
turn loop; launchers on a host meet only through files under the slot mutex and
the reservation's lock, and timed work declared to the slots runs inside a
reservation.

## 2. Modules and code

Each module's header says what is one step and what the data stand for.
`PROJECT.json` maps every definition to its lines. Definitions called
`X_Something` before `X` are mutants: plausible mistakes in `X` that the named
property must catch.

**BoundedStaleness** models the scheduler with the trainer loop that drives it.
A critical section is one action; what the code does after it drops a guard
(producing, every notify) is an action of its own, so a notification can come
late. A condition-variable wait is a state; it may wake spuriously. Weights are
the number of updates they contain; evidence is the number of the trainer step
that produced it. The trainer's timeout may elapse whenever the producer is
slow; it then asks whether the thread has finished, as the code does, and a
history variable keeps where the worker was at that moment.
**SynchronousArm** is the abstract specification: one update after another.

**AsyncRollout** models workers and broker. Payload cells are not atomic, so a
write of a payload and the store of its state are separate steps; atomics are
sequentially consistent, which release and acquire give for what they order.
The compare-exchange fails only when the value differs. Random draws are
identified by episode, seat and number, so "the same trajectory" is equality of
the draws. A session may fail at reset and at any step, or panic; a spawn may
fail.

**DurablePublication** models one directory. `dir` is what processes see;
`maybe` holds, for each name, every entry a power failure may leave, so entries
changed by one rename may be lost independently (more than journaling file
systems do). Contents are torn after a crash unless synced. Each system call is
an action; an attempt may stop after any of them. `VerifyExisting` returns a
receipt too, kept apart (`verified`) because nothing was synced for it; its holders
die when the power fails. Directory sync is Unix's;
the Windows path is not modelled. **WriteOnce** is the abstract specification
for immutable names.

**BestOfThree** models match state and session. A refused call changes nothing
and is a stutter; a call that consults live policies is a step per
consultation, so it can fail after one seat has answered. Decks are pairs of
bags over a few card names.

**LondonMulligan** models both players' pregame. Every iteration of
`drain_or_decide` and every answer is an action; hands are remembered by card
and zone-change count; a shuffle is any permutation; both begin with the code's
validation, whose failure halts the kernel.

**SlotMutex** models class `Mutex`: one action per file-system call, all by
path; processes may die anywhere.

**HostSlots** models what launchers and timed work do under that mutex, which
it takes to be exclusive (section 5 says when it is not): a `with Mutex()` block
is one action. A job is one launcher: it queues (`Enqueue`), is admitted as head
of the queue or before it (`Admit`, `Backfill`), starts its command when the
cores are handed over (`TryStart`), polls (`Poll`: demotes itself when overdue,
gives back, suspends or resumes, publishes, grows) and releases its claim.
`claim` holds the published records, which is all that others see; `tree` holds
what the processes really do: the cores meant, the cores some process may still
be on, whether all are stopped. An affinity change and a suspension may fail in
part. The reservation itself (`Acquire`, `ReleaseLock`) is external here and
modelled in `HostReservation`. Adopted workers, core pools, bounded-delay
backfill, unreadable files and config edits are not modelled.

**HostReservation** models the processes of each reservation by role: launcher,
supervisor, work, a descendant of the work, and a nested supervisor with its own
work. An action is one change made with the lock open (`handle`), or one step of
`dispatch` or `supervise` outside it; release and reclaim are two actions, since
processes go on living and dying between their checks and their rename. `Linked`
and `Job` say what the process table and the containment show on each backend:
a Windows job ends with its supervisor and keeps a dead parent's pid visible; on
Linux an orphan is reparented, SIGKILL of a supervisor ends nothing else, and a
descendant may call setsid (`LeaveSession`), after which only its parent names it.
Kills, reboots, lost WMI responses, failed creation and failed containment
may happen at each point. `TypeOK` in this module and in `TrainingStore` states
the shape of the variables for the reader; no run lists it.

**TrainingStore** models trainers that run the science loop on one directory. The
content of a file is the sequence of training outcomes it binds. Bootstrap,
resume and publication are separate calls that take and give up the lock, so
other trainers come between them; publication is one action per file, staged and
moved. A lock held by somebody else is an error and not a wait, as in the code. A
completed write-through move is taken to survive, which is what
`DurablePublication` shows of the protocol on Unix. A trainer that died after
publishing finals of a generation leaves them to its successor, whose training
must come out the same; if it does not, publication is refused for good
(immutable final mismatch), so no liveness is claimed. A foreign writer may spoil
one final.

**TurnLoop** models `advance_without_linked_aura_v1` and the answers to its
decisions. `Stage` is the order in which the loop looks for something to do; an
action is one iteration or one answer. A cast, an activation or a resolution is
one step, because `step` refuses everything else until it is finished; what it
brings about is chosen from the outcomes the loop distinguishes (a card drawn, a
death, a trigger, an effect until end of turn, a legend choice, a loss, a turn
promised). `owned` chooses the build: Foundations, in which every cleanup has an
owner record, Time Stop exists and combat damage is a decision, or the historical
default. `unlimited` holds the players whose permanents lift their hand limit
(Niv-Mizzet); any checkpoint or expiration may change it, for the players in
`Lifters`. `emblem` holds those with an eternal-format emblem to the same effect,
which only the historical cleanup asks about; that cleanup counts Niv-Mizzet as it
was before the turn's effects ended. `owed` and `exempt` are history variables: the
players who have not passed since the game last changed, and whether the last owned
cleanup found its player without a limit. **TurnOrder** is the abstract specification of whose turn it is.

## 3. Runs

| Run | Bounds | Shows |
|---|---|---|
| `bounded_staleness` | K = 3, 6 updates, 2 episodes a batch, panics, slow producer | staleness at most K at training, at most K batches outstanding, exact ledger, honest outcome, the two threads never wait for each other, implements the synchronous arm, always ends |
| `async_rollout` | 2 workers, 3 episodes (two learner decisions; one of each seat; no learner decision), any failure | no race on a payload, no protocol error, trajectories independent of the schedule, honest result, the call returns |
| `durable_publication` | 2 publishers, 2 stages, an immutable name and a pointer, 2 values, 3 files, 2 power failures | the name is a write-once register whose receipts survive, a verified file stays until the power fails; the pointer is never torn and never behind an acknowledged value |
| `best_of_three` | 2 + 1 cards, up to 4 games, a plan that fits and one that does not | score equals record, the loser chooses, played decks are the registered 75 |
| `london_mulligan` | hands of 2, decks of 4 and 2, one Serum Powder | never halts, cards conserved, hand size pays for mulligans, a kept hand stays, the procedure ends |
| `host_slots` | 4 cores, 1 kept free; a lender, an ordinary job that is demoted when overdue and a background job; 2 reservations, failing changes, dying launchers | timed work is alone on its cores, no two claims run on one core (but see section 5 on demotion), ordinary and shared claims keep to the budget |
| `host_slots_queue` | 6 cores, 1 kept free, a CI floor of 1; 5 jobs of all classes, no faults | a backfill never delays the head; every job ends |
| `host_reservation` | 3 launchers (one with nested work, one refused after it acquires), both backends, 1 kill or reboot | only the lock holder's work runs; a reclaimer's evidence still stands when it acts; the host is never left reserved |
| `training_store` | 2 trainers, 3 launches, 3 generations of 2 finals, cadence 1, 2 training outcomes, 1 death, 1 foreign write | receipts hold, a death anywhere is recoverable, damage is noticed within the cadence |
| `turn_loop` | 3 turns, 3 events (everything but passing costs one), maximum hand size 0, only the starting player's hand limit may be lifted, both builds | the records always validate, no response is skipped, turns end clean, turn order, every turn ends |
| `host_reservation_members` | 1 launcher with descendants, no fault | violated: an idle host stays reserved (section 5) |
| `slot_mutex_race` | 3 processes, 1 death | violated: two holders (section 5) |

The bounds let each interesting case occur: K = 3 with six updates fills and
drains the window twice; three episodes on two lanes make one lane play twice
and the other close first; three inodes allow a loser's retry after a crash;
four games allow a draw in every position of a match; hands of two allow two
mulligans and the automatic keep; four cores let a lender grow onto unpreferred
cores beside timed work and exceed the budget when that ends; of the two small
jobs in the queue run one may start before the head and the second may not;
three launchers allow a reclaimer, a competitor and a late supervisor of the
reclaimed reservation; two trainers with three launches allow a restart beside a
trainer on stale state, and a cadence of one lets a shortcut and a due walk
alternate; three events are enough for an extra turn inside an extra turn, and
for a Time Stop that answers a trigger in a cleanup window; a maximum hand of
zero makes one drawn card an excess; one player whose limit may be lifted meets one
who keeps it, and one change brings the lifting permanent while another removes it
in the cleanup. `AsyncRollout` also passes with three
workers (1.45 million states), which takes too long to keep as a run.

Fairness. `BoundedStaleness` and `AsyncRollout` assume weak fairness of each
thread: a runnable OS thread eventually runs and spin loops re-read their
atomics. Faults and spurious wake-ups are not fair. In `BoundedStaleness` a
timeout is fair only when the worker is gone (nothing else can end that wait); one
on a live worker, and the second look of a wait that no notify ended, are owed
to nobody, so `Terminates` fails if a publication or a batch is not notified or
if the gate is too strict. The pregame
assumes weak fairness of the next step: the engine's driver keeps answering.
`HostSlots` assumes weak fairness of each launcher: it polls while it lives, and
a command that is not suspended ends. The launchers' own time limits are not
used: `EveryJobEnds` says nobody needs to give up. `HostReservation` assumes that
some launcher, supervisor or work process that can go on does (weak fairness of
their disjunction; none has infinitely many steps); nobody is assumed to launch,
reclaim, kill or reboot. `TurnLoop` assumes that the driver answers every decision;
that a game is not acted on for ever comes from the bound on events.
`BoundedStaleness` has no separate run without faults. The behaviours in which no
worker panics and no live worker is given up on are among those of the run;
`Terminates` holds in each of them, and by `OutcomeHonest` the arm can then only
have reported `ok`, for the whole run.

`CHECK_DEADLOCK FALSE` is used where the system may really stop: a finished
match, publishers out of files, a rollout that has returned, a host or a store that
nobody uses any more.

## 4. Proofs

A `XProofs` module proves theorems of `X`'s specification (`MatchProofs` of those of
`BestOfThree` and `LondonMulligan`) for every value of the constants: any number of lanes, trainers, launchers, writers, cards or turns, where
the runs have two or three. Each rests on an inductive invariant, `IInv`, that TLC
checked on the run's instance first, and each module is laid out in the same way:
the parts of `IInv`, lemmas about the operators, one lemma per action (or group of
actions), and the theorems at the end.

| Module | Theorems (property) | For every |
|---|---|---|
| `BoundedStalenessProofs` | `StalenessBound` (`StalenessBounded`), `OutstandingBound` (`OutstandingBounded`), `NoMutualWait` (`NeverBothWaiting`), `LedgerIsExact` (`LedgerExact`), `ReportsAreHonest` (`OutcomeHonest`), `AsyncRefinesSync` (`MatchesSynchronousArm`), `TypeCorrect` | bound K, schedule, batch size, fault |
| `AsyncRolloutProofs` | `CellsAreNeverShared` (`NoPayloadRace`), `ProtocolIsKept` (`ProtocolHolds`), `TrajectoriesAreReproducible` (`TrajectoriesScheduleFree`), `ResultsAreHonest` (`OutcomeHonest`), `HandoverHolds` | 1 to 16 workers, finite set of episodes, failure |
| `DurablePublicationProofs` | `NeverTorn` (`FinalNeverTorn`), `ReceiptsOutliveThePower` (`ReceiptDurable`), `NoRollBack` (`PointerNeverRollsBack`), `StageIsOwn` (`OwnStageOnly`), `PublicationRefines` (`ImplementsWriteOnce`) | writers, names, values, number of files and power failures |
| `HostReservationProofs` | `ExclusiveWork` (`WorkExclusive`), `EvidenceStaysTrue` (`EvidenceStands`) | launchers, nesting, kills and restarts, both backends |
| `TrainingStoreProofs` | `ReceiptsOutliveTrainers` (`ReceiptsHold`), `EveryCrashRecovers` (`CrashRecoverable`), `DamageIsNoticed` (`DamageNoticed`) | trainers, launches, deaths, target, cadence, finals per generation |
| `MatchProofs` | `ScoreIsTheRecord` (`ScoreMatchesRecord`), `LastLoserChooses` (`LoserChooses`), `DecksStayRegistered` (`PlayedDecksRegistered`); `PregameNeverHalts` (`NeverHalts`), `MulligansArePaid` (`HandPaysForMulligans`), `KeptHandsAreFinal` (`KeptHandStays`) | deck sizes, finite set of cards, plans, number of games; hand size, decks, Serum Powders, shuffles |
| `TurnLoopProofs` | `RecordsNeverRefuse` (`NeverRefused`), `WindowsAreKept` (`NoWindowSkipped`), `TurnsEndClean` (`TurnEndsClean`), `TurnOrderRefines` (`ImplementsTurnOrder`) | hand size, number of turns and events, both builds |
| `HostSlotsProofs` | `TimedExclusiveHolds` (`TimedExclusive`), `ClaimsExclusiveHolds` (`ClaimsExclusive`), `BudgetKeptHolds` (`BudgetKept`), `BackfillHarmlessHolds` (`BackfillHarmless`), `QueueKept`, `Inductive` | cores, floor and kept-free cores, jobs, requests, timed core sets, reservations, failing affinity changes and suspensions, deaths |

None of the properties is inductive by itself. What `IInv` adds, and why:

- **Bounded staleness.** Where the trainer is fixes how the loop variable, the
  published version and the trajectory are related (`TrainerInv`); dispatch was
  allowed by a version not newer than the published one (`DispatchInv`); the
  producer's batch carries the index, version and evidence of its dispatch
  (`JobInv`); the queue holds consecutive batches, ending just before the one being
  produced (`QueueInv`). Staleness follows because batches are taken in order, so
  the consuming update is the batch's index; refinement because the queue's head
  carries the evidence of the next update. The ledger is counted by its length
  (`LedgerCount`).
- **Asynchronous rollout.** Four layers, each proved from those below. `Handover`:
  a worker's place determines its mailbox's state word, and a lane the broker has
  seen notified, or has an answer for, stays put; from this alone there is no race
  on a payload. `Streams`: a game so far is a prefix of the episode played alone,
  and the broker's per-lane stream has made as many draws as the learner has
  decided. `Ledger`: every claimed episode is collected or held by exactly one lane,
  and the count of finished workers is the number of lanes done; a pigeonhole
  argument (`AllCollected`) then excludes the broker's own internal-error checks.
  `Reports`: a failure slot is the failure of its own lane.
- **Durable publication.** A staging name is its attempt's own until the attempt
  gives it up, no other staging name, and before publication no final, can come to
  lead to its file after a power failure (`StageInv`), what is synced or verified
  stays so (`CallInv`, `FinalInv`), and no two attempts share an inode
  (`DistinctInv`). That no publisher unbinds a final or writes to its file
  (`KeepsFinals`) is what a verified receipt rests on. The refinement maps what each name is bound to and the receipts
  to the register of `WriteOnce`.
- **Host reservation.** A reservation that lost the lock, or whose lock somebody
  else has open in order to remove it, is quiet: no supervisor of it is adopted,
  and what still runs escaped (`Quiet`): a child that was never recorded, or a
  descendant in a session of its own that outlived the work unrecorded
  (`LeftAlone`). Quiet is stable because its events are
  frozen and an adoption has to append one. The rest says who exists only because
  of whom, and what the events name.
- **Training store.** A trainer under the lock works at the pointer's generation or
  the next one (`Ahead`), all finals beyond the pointer belong to one candidate
  (`StoreInv`), and while a spoiled final lies below the pointer no walk succeeds,
  so every publication counts towards the cadence (`DamageInv`, `SinceInv`).
- **Best of three.** The chooser of the game at hand continues the rule that the
  record obeys (`ChooserInv`), and a suspended call still finds the match as it left
  it (`CallInv`). That a plan keeps the 75 cards is a statement about sums over
  the cards. They are folds; that the fold exists, is independent of the order and
  commutes with an exchange of cards is proved with smallest counterexamples.
- **London mulligans.** Hand, library and exile divide each deck, every card in one
  place (`ZonesOf`), so what was remembered of a hand is still found by identity.
  Every exiled Serum Powder has paid for at most one hand (`PowdersPay`), so a Powder
  always finds enough cards in the library (`EnoughCards`). The stage and whose turn it
  is fix how long a hand is and what is still to be put on the bottom (`HandLength`),
  who has announced (`AnnouncedOnce`) and who may be asked (`Asked`). Together they are
  `MulliganInv`; the validations that would halt the kernel, the count a player pays and
  the finality of a kept hand all follow from it.
- **Turn loop.** Both records pass their own checks in every state (`CleanupValid`,
  `TimeStopValid`), a pass only stands for a player who is owed nothing (`PassInv`),
  and each phase of a cleanup fixes what is settled (`PhaseInv`, `DoneInv`). A discard
  asked for is exactly the part of the hand above the maximum (`DutyInv`), whoever
  lifts a limit meanwhile; from the discard on the hand is within the maximum or was
  counted without one (`WithinLimit`).
- **Host slots.** A process tree is on cores its record names and on what the claim
  is guaranteed at least (`Fits`), so what others read bounds what runs, also after
  an affinity change that failed in part. What a claim is guaranteed changes only at
  admission, so two claims are kept apart by three facts about records (`PairInv`):
  guarantees overlap only where one side is background work, lent cores never do,
  and a claim that has started is left alone by lenders and background work. The
  budget holds of what started claims reach when a suspended one counts only its
  guarantee (`AllReach`), and of all guarantees (`AllHeld`): a start that finds all
  cores over budget waits for the lenders, and without lenders stays within the
  guarantees. It rests on how many cores `FirstOf` takes (`FirstOfAtMost`,
  `FirstOfAtLeast`).
- **Backfills.** The check at admission speaks of every set of claims that may be
  left, so the invariant does too: for the head that others were admitted before, the
  backfills are harmless in every subset of the live claims (`HarmlessFor`). This
  survives a claim's end because subsets of fewer claims are among those of more. It
  survives everything else because such a request stays at the head while it waits
  (`HeadInv`, from `QueueInv`: one ticket for each waiting request, ordinary ones
  first), because nothing is lent or grown while a ticket waits (`Renewed`), and
  because what a head would take depends only on guarantees and classes
  (`HeadStartOf`, `HarmlessAlike`). A new backfill brings subsets with itself, which
  its own check covers, and leaves those without it to the earlier checks.

Assumptions are those named in the modules. Besides ranges the code enforces (K and
the cadence positive, at most sixteen workers) they say that what stands for an
absent or spoiled value (`None`, `Torn`, `Damaged`) is none of the real ones, that
cards and episodes are finitely many, and that training has some outcome.

Only model-checked:

- liveness under fairness (`Terminates`, `Returns`, `HostFreed`, `EveryJobEnds`,
  `TurnsEnd`, `MulligansFinish`), which the prover does not reach;
- the two expected violations.

## 5. Findings

`slot_mutex_race`: `Mutex.__enter__` decides that a directory is stale and then
renames whatever has that path. If a holder dies and two launchers both find the
directory stale, the first breaks it and enters with a new directory; the
second's rename removes that one, its `mkdir` succeeds, and both are inside.
The class's docstring says only an absent holder is broken.

`host_reservation_members`: when its child has exited, the supervisor lists the
members of its job and then reads each one's creation time. A member that exits in
between is recorded without one; such a process is `unknown` for ever, so the
supervisor retries its release without end, and nobody can reclaim the host
before a reboot. The module's contract says the supervisor releases once its job
is empty. `HostFreed` in `host_reservation` excepts exactly these reservations.

Observations that need no run of their own:

- Demotion (`host_slots_v1.py:1787`): an ordinary claim that took a background
  claim's core and is demoted becomes background work, and background claims yield
  to others only (line 838), so both run on the core, although line 16 says a
  claim's cores are held by no other. `ClaimsExclusive` excepts exactly two
  background claims one of which was demoted (`SharedByDemotion`); without the
  exception `host_slots` is violated in nine steps.
- A backfill that is demoted when overdue becomes background work, whose cores the
  head may take after a hand-over it would not have waited for otherwise. The guarantee
  in `docs/host_slots_v1.md:47` covers claims ending, and `BackfillHarmless` excepts a
  head one of whose backfills was demoted; without the exception it is violated as soon
  as a request with `--on-overdue demote` may be backfilled.
- `keep_free` (`host_slots_v1.py:806`): the budget of an ordinary request does not
  count background claims. Background work admitted beside timed work may occupy
  the whole budget on less preferred cores, and an ordinary claim then takes a
  preferred one as well; `docs/host_slots_v1.md:94` says those cores are never
  handed out. `BudgetKept` shows what holds: ordinary and shared claims keep to it.
- `verify_existing_publication_v1` (`durable_publication_v1.rs:1435`) returns the
  same `DurablePublicationReceiptV1` as a publication and syncs no directory. If a
  publisher dies between the link (line 1340) and the sync (line 1362), whoever
  verifies the file next holds a receipt for an entry that a power failure may
  still take; the function's comment only says that verification does not make a
  file authoritative. `ReceiptDurable` therefore promises a verified receipt less
  (`VerifiedStands`); with the promise of a published one `durable_publication` is
  violated. Callers that resume, such as `publish_or_resume_immutable_v2`
  (`native_training_store_v2.rs:1456`) and `publish` in
  `phase1_bo3_learning_v1/continuation.rs:338`, go on as if they had published:
  the store then replaces `latest` in the root and syncs only the root, while a
  head record that was only verified is in another directory. `TrainingStore`
  has deaths of processes and no power failures, so no run shows this.
- On Linux, SIGKILL of a supervisor lets work escape in two cases, and
  `WorkExclusive` excepts exactly these (`Escaped`). Between the spawn of its child
  and `record_descendant` (`host_reservation_v1.py:1416`, `1422`) it leaves a child
  no event names; the docstring says session members keep the reservation held.
  And "a descendant that called setsid itself is no longer seen"
  (`host_reservation_v1.py:108-110`) once the work has ended, unless the supervisor
  had already recorded it as a member of its job; `host_reservation` is violated
  when that case is not excepted.
- The historical build does not repeat a cleanup after its own priority window
  unless a tracked effect is in force, so a plain until-end-of-turn effect started
  there, or a hand grown there, lasts into the next turn. The code says so;
  `TurnEndsClean` claims the full cleanup for the Foundations build only.
- A lifted hand limit is counted when the discard is staged. If the permanent that
  lifts it leaves at the expiration that ends the cleanup, the turn ends with the
  larger hand, as CR 514.1 has it; `TurnEndsClean` excepts exactly that (`exempt`).
- The owned cleanup's `discard_count` (`ordinary_cleanup_v1.rs:199`) asks about
  Niv-Mizzet only, the historical one also about the eternal emblem
  (`engine.rs:21276`). A game of the eternal build whose cleanup is owned, because
  of an exile replacement (`engine.rs:20744`), discards a player with that emblem
  down to seven. Time Stop's `start_discard` asks about Niv-Mizzet only as well. The
  model follows the code; no property is about emblems.

## 6. Not modelled

The repository has a million lines, and most of them are not protocol. What is
modelled is where order, concurrency, failure or suspended state decides
correctness; that is a small share of the lines, and the rest is left out for these
reasons:

- Card implementations, the effect interpreter (`effect.rs`), action enumeration
  and the card database are one function or record per card. A model of a card
  would repeat its code; they are compared with the XMage oracle instead.
- Networks, the train step, tensorizers and search are floating-point numerics.
- The vendored GPU stack, `build.rs` and generated tables are third-party code or
  build-time checks.
- Experiment contracts, audits, reports and their tests check fixed digests and
  formats: sequential comparisons with constants.
- In the turn loop: mana, per-turn counters, skipped steps and turns (Time Vault,
  Solitary Confinement), attack targets, the decisions inside a cast or a
  resolution, the linked-Aura wrapper, and the evidence rows that bind procedures
  to the event journal. `owned` stands for the Foundations build and for the
  checkpoints and the damage decision that its combat has; the build with Standard
  cards mixes the two (the checkpoint on entering BeginCombat and a historical
  cleanup), and that mix is not a value of `owned`.
- In the training store: record formats, wide-model and branch variants, the
  evaluation and report store in `native_training_store_run_v2.rs`.
- In the host tools: adopted workers, core pools, bounded-delay backfill, unreadable
  files, configuration edits, and duplicated generation numbers.

## 7. Plan

1. Second-generation and flat-scored rollouts as an extension of `AsyncRollout`.
2. The reinforcement-learning session around the turn loop, limited and human match
   services.
3. Host slots, the rest; composition of the slots with `HostReservation`. With the
   bounded-delay backfill `BackfillHarmless` becomes a bound on the delay.
