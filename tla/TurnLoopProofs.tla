--------------------------- MODULE TurnLoopProofs ---------------------------
(***************************************************************************)
(* Proofs about TurnLoop, for every hand size and any number of turns and  *)
(* events.  The inductive invariant says that both cleanup records pass    *)
(* their own checks in every state, that pass flags are only set for       *)
(* players owed nothing, and what is settled in each phase of a cleanup.   *)
(***************************************************************************)
EXTENDS TurnLoop, TLAPS

Steps == {"Untap", "Upkeep", "Draw", "Main1", "BeginCombat", "DeclareAttackers",
          "DeclareBlockers", "CombatDamage", "EndCombat", "Main2", "End", "Cleanup"}

TriggerKinds == {"plain", "madness"}
Items == (Kinds \cup TriggerKinds) \X Players
Owned(phases) == [phase : phases, key : Nat, active : Players]
Schedulers == [occurrence : Nat \ {0}, own : [Players -> Nat], regular : Players,
               queued : Seq(Players), original : BOOLEAN]
Combats == [declared : BOOLEAN, blocked : BOOLEAN, alive : BOOLEAN,
            damage : {"before", "first_pending", "first", "normal_pending", "normal"}]

ClockType ==
  /\ owned \in BOOLEAN /\ turn \in Nat \ {0} /\ active \in Players /\ started \in Nat
  /\ extra \in {NoExtra} \cup Schedulers

TableType ==
  /\ step \in Steps /\ priority \in Players /\ passes \in [Players -> BOOLEAN]
  /\ owed \in SUBSET Players
  /\ stack \in Seq(Items) /\ triggers \in Seq(TriggerKinds) /\ legend \in BOOLEAN
  /\ hand \in [Players -> Nat] /\ discard \in Nat /\ effects \in SUBSET Effects
  /\ combat \in Combats /\ lost \in BOOLEAN /\ halted \in BOOLEAN /\ budget \in Nat

OwnerType ==
  /\ cleanup \in {NoOwner} \cup Owned({"discard", "expiration", "priority", "gameover"})
  /\ timeStop \in {NoOwner} \cup Owned({"before", "discard", "expiration", "priority", "gameover"})

\* A player whose pass stands is owed nothing.
PassInv == \A p \in Players : passes[p] => p \notin owed

\* The active player has no more cards than the maximum, unless the last
\* owned cleanup found that player without one.
WithinLimit == hand[active] <= MaxHand \/ exempt

\* A discard is asked for in the cleanup, for exactly the cards above the
\* maximum; damage is only assigned in its own step.
DutyInv ==
  /\ discard > 0 => hand[active] = MaxHand + discard /\ step = "Cleanup" /\ stack = <<>>
  /\ combat.damage \in {"first_pending", "normal_pending"} => step = "CombatDamage"

\* What is settled in each phase of a cleanup.
PhaseInv ==
  /\ timeStop.phase = "before" => stack = <<>> /\ BothPassed /\ discard = 0
  /\ timeStop.phase \in {"discard", "expiration"} => stack = <<>> /\ ~legend
  /\ "expiration" \in {cleanup.phase, timeStop.phase} => WithinLimit
  /\ cleanup.phase \in {"discard", "expiration"} => ~legend /\ passes = NobodyPassed

\* An owned cleanup that is over leaves nothing behind.
DoneInv ==
  owned /\ step = "Cleanup" /\ cleanup = NoOwner /\ timeStop = NoOwner /\ ~lost =>
      /\ stack = <<>> /\ triggers = <<>> /\ ~legend /\ discard = 0
      /\ effects = {} /\ WithinLimit

IInv == /\ ClockType /\ TableType /\ OwnerType
        /\ ~halted /\ PassInv /\ CleanupValid /\ TimeStopValid
        /\ DutyInv /\ PhaseInv /\ DoneInv

-----------------------------------------------------------------------------
(* What the loop's stages mean.                                            *)

\* A record that is not absent is in one of its phases.
LEMMA OwnerFacts ==
  ASSUME OwnerType
  PROVE  /\ cleanup = NoOwner <=> cleanup.phase = "none"
         /\ timeStop = NoOwner <=> timeStop.phase = "none"
         /\ cleanup.phase \in {"none", "discard", "expiration", "priority", "gameover"}
         /\ timeStop.phase \in {"none", "before", "discard", "expiration", "priority", "gameover"}
         /\ cleanup # NoOwner => cleanup \in Owned({"discard", "expiration", "priority", "gameover"})
         /\ timeStop # NoOwner => timeStop \in Owned({"before", "discard", "expiration", "priority", "gameover"})
<1>1. NoOwner.phase = "none"
  BY DEF NoOwner
<1> QED
  BY <1>1 DEF OwnerType, Owned

\* No loss, no duty and no cleanup under way other than an open window.
Calm == /\ ~lost /\ ~legend /\ discard = 0
        /\ cleanup.phase \in {"none", "priority"} /\ timeStop.phase \in {"none", "priority"}

\* An owned cleanup is over, and the turn is about to end.
Finished == owned /\ step = "Cleanup" /\ cleanup = NoOwner /\ timeStop = NoOwner

\* The stages in which a record drives the loop, the legend rule aside.
LEMMA DrivenStages ==
  ASSUME IInv
  PROVE  /\ Stage = "time_stop" => ~lost /\ ~legend /\ timeStop.phase = "before"
         /\ Stage = "time_stop_expire" => ~lost /\ timeStop.phase = "expiration"
         /\ Stage = "expire" => ~lost /\ timeStop.phase # "expiration" /\ cleanup.phase = "expiration"
         /\ Stage = "legend" => ~lost /\ legend
         /\ Stage = "discard" => ~lost /\ ~legend /\ discard > 0
  BY DEF Stage

\* In every later stage the game is calm.
LEMMA CalmStages ==
  ASSUME IInv,
         Stage \in {"damage", "place", "attackers", "blockers", "advance", "priority", "madness", "resolve"}
  PROVE  Calm
<1>1. /\ ~lost /\ ~legend
      /\ cleanup.phase # "expiration" /\ timeStop.phase \notin {"before", "expiration"}
      /\ ~(discard > 0) \/ combat.damage \in {"first_pending", "normal_pending"}
  BY DEF Stage
<1>2. discard \in Nat /\ OwnerType /\ DutyInv /\ CleanupValid /\ TimeStopValid
  BY DEF IInv, TableType
<1>3. discard = 0
  BY <1>1, <1>2 DEF DutyInv
<1>4. cleanup.phase \notin {"discard", "gameover"} /\ timeStop.phase \notin {"discard", "gameover"}
  BY <1>1, <1>2, <1>3, OwnerFacts DEF CleanupValid, TimeStopValid
<1> QED
  BY <1>1, <1>2, <1>3, <1>4, OwnerFacts DEF Calm

\* What else each of them has found.
LEMMA StageFacts ==
  ASSUME IInv
  PROVE  /\ Stage = "damage" => combat.damage \in {"first_pending", "normal_pending"}
         /\ Stage = "place" => triggers # <<>>
         /\ Stage = "attackers" => step = "DeclareAttackers"
         /\ Stage = "blockers" => step = "DeclareBlockers"
         /\ Stage \in {"resolve", "madness"} => BothPassed /\ stack # <<>> /\ triggers = <<>>
         /\ Stage = "advance" =>
              /\ stack = <<>> /\ triggers = <<>>
              /\ GrantsPriority(step) \/ InCleanupWindow => BothPassed
         /\ Stage = "priority" => ~Finished
<1>1. NoOwner.phase = "none"
  BY DEF NoOwner
<1>2. /\ Stage = "damage" => combat.damage \in {"first_pending", "normal_pending"}
      /\ Stage = "place" => triggers # <<>>
      /\ Stage = "attackers" => step = "DeclareAttackers"
      /\ Stage = "blockers" => step = "DeclareBlockers"
  BY DEF Stage
<1>3. Stage \in {"resolve", "madness"} => BothPassed /\ stack # <<>> /\ triggers = <<>>
  BY DEF Stage
<1>4. Stage = "advance" =>
        /\ stack = <<>> /\ triggers = <<>>
        /\ \/ BothPassed
           \/ ~GrantsPriority(step) /\ timeStop.phase # "priority" /\ cleanup.phase # "priority"
  BY DEF Stage
<1>5. Stage = "priority" =>
        GrantsPriority(step) \/ stack # <<>> \/ timeStop.phase = "priority" \/ cleanup.phase = "priority"
  BY DEF Stage
<1>6. Stage = "priority" => ~lost
  BY DEF Stage
<1>7. DoneInv
  BY DEF IInv
<1> QED
  BY <1>1, <1>2, <1>3, <1>4, <1>5, <1>6, <1>7 DEF InCleanupWindow, Finished, GrantsPriority, DoneInv

\* In a calm stage other than the end of the turn, a turn's owned cleanup is
\* not over yet.
LEMMA NotFinished ==
  ASSUME IInv, Stage \in {"damage", "place", "attackers", "blockers", "priority", "madness", "resolve"}
  PROVE  ~Finished
<1>1. DoneInv /\ DutyInv /\ Calm
  BY CalmStages DEF IInv
<1> QED
  BY <1>1, StageFacts DEF DoneInv, DutyInv, Finished, Calm

-----------------------------------------------------------------------------
(* Steps in a calm game that leave the clock and the records alone.        *)

\* They keep the invariant if they keep the types and owe what they should.
LEMMA CalmKeep ==
  ASSUME IInv, Calm, ~Finished,
         UNCHANGED <<owned, turn, active, started, step, discard, cleanup, timeStop, halted>>,
         TurnKey' = TurnKey, extra' \in {NoExtra} \cup Schedulers,
         TableType', PassInv',
         combat'.damage \in {"first_pending", "normal_pending"} => step = "CombatDamage"
  PROVE  IInv'
<1>1. ClockType' /\ OwnerType' /\ ~halted'
  BY DEF IInv, ClockType, OwnerType
<1>2. OwnerType /\ CleanupValid /\ TimeStopValid
  BY DEF IInv
<1>3. cleanup # NoOwner => cleanup.phase = "priority"
  BY <1>2, OwnerFacts DEF Calm
<1>4. timeStop # NoOwner => timeStop.phase = "priority"
  BY <1>2, OwnerFacts DEF Calm
<1>5. CleanupValid'
  BY <1>2, <1>3 DEF CleanupValid, Current
<1>6. TimeStopValid'
  BY <1>2, <1>4 DEF TimeStopValid, Current
<1>7. DutyInv' /\ PhaseInv'
  BY DEF DutyInv, PhaseInv, Calm
<1>8. DoneInv'
  BY DEF DoneInv, Finished
<1> QED
  BY <1>1, <1>5, <1>6, <1>7, <1>8 DEF IInv

\* A checkpoint keeps its types.
LEMMA CollectTypes ==
  ASSUME TableType, NEW h \in Happenings, NEW queue \in Seq(TriggerKinds), NEW spent \in Nat,
         Collect(h, queue, spent)
  PROVE  budget' \in Nat /\ triggers' \in Seq(TriggerKinds) /\ legend' \in BOOLEAN /\ lost' \in BOOLEAN
<1>1. Cost(h) \in Nat /\ budget \in Nat
  BY DEF Cost, TableType
<1>2. budget' \in Nat
  BY <1>1 DEF Collect
<1>3. triggers' \in Seq(TriggerKinds)
  BY DEF Collect, TriggerKinds
<1> QED
  BY <1>2, <1>3 DEF Collect

\* A window opened anew owes both players; the active player has priority.
LEMMA ResetTypes ==
  ASSUME NEW p \in Players, ResetPriority(p) \/ KeepPriority(p)
  PROVE  /\ passes' \in [Players -> BOOLEAN] /\ priority' \in Players /\ owed' \in SUBSET Players
         /\ PassInv' /\ passes' = NobodyPassed
<1>1. passes' = NobodyPassed /\ priority' = p /\ owed' = Players
  BY DEF ResetPriority, KeepPriority, Owe
<1>2. PassInv'
  BY <1>1 DEF PassInv, NobodyPassed
<1> QED
  BY <1>1, <1>2 DEF NobodyPassed

CheckpointType ==
  triggers \in Seq(TriggerKinds) /\ legend \in BOOLEAN /\ lost \in BOOLEAN /\ budget \in Nat

WindowType ==
  /\ priority \in Players /\ passes \in [Players -> BOOLEAN] /\ owed \in SUBSET Players
  /\ PassInv

\* The checkpoint after an action.
LEMMA Checkpoint ==
  ASSUME IInv, NEW spent \in Nat, \E h \in Happenings : Collect(h, triggers, spent)
  PROVE  CheckpointType'
<1>1. PICK h \in Happenings : Collect(h, triggers, spent)
  OBVIOUS
<1>2. TableType /\ triggers \in Seq(TriggerKinds)
  BY DEF IInv, TableType
<1> QED
  BY <1>1, <1>2, CollectTypes DEF CheckpointType

\* The window an action opens anew or leaves as it was.
LEMMA Windows ==
  ASSUME IInv
  PROVE  /\ WindowType /\ CheckpointType
         /\ ResetPriority(active) => WindowType'
         /\ KeepPriority(priority) => WindowType'
         /\ passes' = NobodyPassed /\ Owe /\ UNCHANGED priority => WindowType'
         /\ UNCHANGED window => WindowType'
         /\ UNCHANGED checkpoint => CheckpointType'
<1>1. WindowType /\ CheckpointType /\ active \in Players /\ priority \in Players
  BY DEF IInv, TableType, ClockType, WindowType, CheckpointType
<1>2. ResetPriority(active) => WindowType'
  BY <1>1, ResetTypes DEF WindowType
<1>3. KeepPriority(priority) => WindowType'
  BY <1>1, ResetTypes DEF WindowType
<1>4. passes' = NobodyPassed /\ Owe /\ UNCHANGED priority => WindowType'
  BY <1>1 DEF WindowType, NobodyPassed, Owe, PassInv
<1>5. UNCHANGED window => WindowType'
  BY <1>1 DEF WindowType, window, PassInv
<1>6. UNCHANGED checkpoint => CheckpointType'
  BY <1>1 DEF CheckpointType, checkpoint
<1> QED
  BY <1>1, <1>2, <1>3, <1>4, <1>5, <1>6

\* The game's table is typed once its parts are.
LEMMA TableTypes ==
  ASSUME IInv, WindowType', CheckpointType', step' \in Steps, stack' \in Seq(Items),
         hand' \in [Players -> Nat], discard' \in Nat, effects' \in SUBSET Effects,
         combat' \in Combats, halted' = halted
  PROVE  TableType'
  BY DEF IInv, TableType, WindowType, CheckpointType

\* A step in a calm stage that keeps the clock and the records.
LEMMA CalmStep ==
  ASSUME IInv,
         Stage \in {"damage", "place", "attackers", "blockers", "priority", "madness", "resolve"},
         UNCHANGED <<owned, clock, step, discard, owners, halted>>,
         WindowType', CheckpointType', stack' \in Seq(Items),
         hand' \in [Players -> Nat], effects' \in SUBSET Effects, combat' \in Combats,
         combat'.damage \in {"first_pending", "normal_pending"} => step = "CombatDamage"
  PROVE  IInv'
<1>1. UNCHANGED <<owned, turn, active, extra, started, step, discard, cleanup, timeStop, halted>>
  BY DEF clock, owners
<1>2. TurnKey' = TurnKey /\ extra' \in {NoExtra} \cup Schedulers
  BY <1>1 DEF TurnKey, IInv, ClockType
<1>3. TableType' /\ PassInv'
  BY <1>1, TableTypes DEF IInv, TableType, WindowType
<1> QED
  BY <1>1, <1>2, <1>3, CalmKeep, CalmStages, NotFinished

\* Damage not assigned yet is damage of its step, and stays so.
LEMMA CombatFacts ==
  ASSUME IInv
  PROVE  /\ combat \in Combats
         /\ combat.damage \in {"first_pending", "normal_pending"} => step = "CombatDamage"
         /\ stack \in Seq(Items) /\ hand \in [Players -> Nat] /\ effects \in SUBSET Effects
         /\ active \in Players /\ priority \in Players /\ triggers \in Seq(TriggerKinds)
         /\ passes \in [Players -> BOOLEAN]
  BY DEF IInv, TableType, DutyInv, ClockType

\* The assigned damage is dealt.
LEMMA DealDamageKeeps == ASSUME IInv, DealDamage PROVE IInv'
<1>1. combat' \in Combats /\ combat'.damage \notin {"first_pending", "normal_pending"}
  BY CombatFacts DEF DealDamage, Combats
<1>2. CheckpointType' /\ WindowType'
  BY Checkpoint, Windows DEF DealDamage
<1> QED
  BY <1>1, <1>2, CombatFacts, CalmStep DEF DealDamage

\* Taking a waiting ability out leaves a queue of abilities.
LEMMA RemoveTypes ==
  ASSUME NEW queue \in Seq(TriggerKinds), NEW i \in DOMAIN queue
  PROVE  RemoveAt(queue, i) \in Seq(TriggerKinds)
  BY DEF RemoveAt

\* An ability is placed.
LEMMA PlaceTriggerKeeps == ASSUME IInv, PlaceTrigger PROVE IInv'
<1>1. PICK i \in DOMAIN triggers : /\ stack' = Append(stack, <<triggers[i], active>>)
                                   /\ triggers' = RemoveAt(triggers, i)
  BY DEF PlaceTrigger
<1>2. stack' \in Seq(Items)
  BY <1>1, CombatFacts DEF Items
<1>3. triggers' \in Seq(TriggerKinds)
  BY <1>1, CombatFacts, RemoveTypes
<1>4. CheckpointType' /\ WindowType'
  BY <1>3, Windows DEF PlaceTrigger, CheckpointType
<1> QED
  BY <1>2, <1>4, CombatFacts, CalmStep DEF PlaceTrigger

\* An ability without a target is dropped.
LEMMA DropTriggerKeeps == ASSUME IInv, DropTrigger PROVE IInv'
<1>1. PICK i \in DOMAIN triggers : triggers' = RemoveAt(triggers, i)
  BY DEF DropTrigger
<1>2. triggers' \in Seq(TriggerKinds)
  BY <1>1, CombatFacts, RemoveTypes
<1>3. CheckpointType' /\ WindowType'
  BY <1>2, Windows DEF DropTrigger, CheckpointType
<1> QED
  BY <1>3, CombatFacts, CalmStep DEF DropTrigger

\* Attackers are declared.
LEMMA DeclareAttackersKeeps == ASSUME IInv, DeclareAttackers PROVE IInv'
<1>1. combat' \in Combats /\ combat'.damage = combat.damage
  BY CombatFacts DEF DeclareAttackers, Combats
<1>2. CheckpointType' /\ WindowType'
  BY Checkpoint, Windows DEF DeclareAttackers
<1> QED
  BY <1>1, <1>2, CombatFacts, CalmStep DEF DeclareAttackers

\* Blockers are declared.
LEMMA DeclareBlockersKeeps == ASSUME IInv, DeclareBlockers PROVE IInv'
<1>1. combat' \in Combats /\ combat'.damage = combat.damage
  BY CombatFacts DEF DeclareBlockers, Combats
<1>2. CheckpointType' /\ WindowType'
  BY Checkpoint, Windows DEF DeclareBlockers
<1> QED
  BY <1>1, <1>2, CombatFacts, CalmStep DEF DeclareBlockers

\* A player passes.
LEMMA PassKeeps == ASSUME IInv, Pass PROVE IInv'
<1>1. WindowType /\ Opponent(priority) \in Players
  BY Windows DEF WindowType, Opponent, Players
<1>2. WindowType'
  BY <1>1 DEF Pass, WindowType, PassInv
<1>3. CheckpointType'
  BY Windows DEF Pass
<1> QED
  BY <1>2, <1>3, CombatFacts, CalmStep DEF Pass

\* A spell is cast or an ability activated.
LEMMA CastKeeps == ASSUME IInv, Cast PROVE IInv'
<1>1. PICK kind \in Kinds, cards \in 0..1 :
        /\ cards <= hand[priority]
        /\ hand' = [hand EXCEPT ![priority] = @ - cards]
        /\ stack' = Append(stack, <<kind, priority>>)
  BY DEF Cast
<1>2. stack' \in Seq(Items)
  BY <1>1, CombatFacts DEF Items
<1>3. hand' \in [Players -> Nat]
  BY <1>1, CombatFacts
<1>4. CheckpointType' /\ WindowType'
  BY Checkpoint, Windows DEF Cast
<1> QED
  BY <1>2, <1>3, <1>4, CombatFacts, CalmStep DEF Cast

\* A special action.
LEMMA SpecialActionKeeps == ASSUME IInv, SpecialAction PROVE IInv'
<1>1. hand' \in [Players -> Nat]
  BY CombatFacts DEF SpecialAction
<1>2. CheckpointType' /\ WindowType'
  BY Checkpoint, Windows DEF SpecialAction
<1> QED
  BY <1>1, <1>2, CombatFacts, CalmStep DEF SpecialAction

\* A mana ability.
LEMMA ActivateManaKeeps == ASSUME IInv, ActivateMana PROVE IInv'
<1>1. CheckpointType' /\ WindowType'
  BY Checkpoint, Windows DEF ActivateMana
<1> QED
  BY <1>1, CombatFacts, CalmStep DEF ActivateMana

\* A madness offer is answered.
LEMMA ChooseMadnessKeeps == ASSUME IInv, ChooseMadness PROVE IInv'
<1>1. stack # <<>> /\ stack \in Seq(Items)
  BY StageFacts, CombatFacts DEF ChooseMadness
<1>2. Front(stack) \in Seq(Items) /\ Last(stack) \in Items
  BY <1>1 DEF Front, Last
<1>3. <<"spell", Last(stack)[2]>> \in Items
  BY <1>2 DEF Items, Kinds
<1>4. stack' \in Seq(Items)
  BY <1>2, <1>3, SMTT(40) DEF ChooseMadness
<1>5. CheckpointType' /\ WindowType'
  BY Checkpoint, Windows DEF ChooseMadness
<1> QED
  BY <1>4, <1>5, CombatFacts, CalmStep DEF ChooseMadness

-----------------------------------------------------------------------------
(* Resolution, and the scheduler of extra turns.                           *)

\* A scheduler is never mistaken for none.
LEMMA ExtraFacts ==
  ASSUME IInv
  PROVE  /\ NoExtra \notin Schedulers
         /\ extra # NoExtra => extra \in Schedulers
         /\ TurnKey \in Nat \ {0}
         /\ InitialOwnTurns \in [Players -> Nat]
<1>1. NoExtra.occurrence = 0
  BY DEF NoExtra
<1>2. NoExtra \notin Schedulers
  BY <1>1 DEF Schedulers
<1>3. ClockType
  BY DEF IInv
<1>4. extra # NoExtra => extra \in Schedulers
  BY <1>3 DEF ClockType
<1>5. TurnKey \in Nat \ {0}
  BY <1>3, <1>4 DEF ClockType, TurnKey, Schedulers
<1>6. InitialOwnTurns \in [Players -> Nat]
  BY <1>3 DEF ClockType, InitialOwnTurns
<1> QED
  BY <1>2, <1>4, <1>5, <1>6

\* extra_turn_v1::schedule_owned: the key of the turn in progress is kept, and
\* the scheduler starts from the turns begun so far.
LEMMA ScheduleFacts ==
  ASSUME IInv, NEW p \in Players, Schedule(p), turn' = turn
  PROVE  /\ extra' \in Schedulers /\ TurnKey' = TurnKey
         /\ extra'.queued = Append(IF extra = NoExtra THEN <<>> ELSE extra.queued, p)
         /\ extra'.regular = (IF extra = NoExtra THEN Opponent(active) ELSE extra.regular)
         /\ extra'.own = (IF extra = NoExtra THEN InitialOwnTurns ELSE extra.own)
<1> DEFINE initial == [occurrence |-> turn, own |-> InitialOwnTurns,
                       regular |-> Opponent(active), queued |-> <<>>,
                       original |-> turn = 1 /\ active = Starting]
           current == IF extra = NoExtra THEN initial ELSE extra
<1>1. turn \in Nat \ {0} /\ active \in Players /\ Opponent(active) \in Players
  BY DEF IInv, ClockType, Opponent, Players
<1>2. initial \in Schedulers
  BY <1>1, ExtraFacts DEF Schedulers
<1>3. current \in Schedulers /\ current.occurrence = TurnKey
  BY <1>2, ExtraFacts DEF TurnKey
<1>4. /\ current.queued = (IF extra = NoExtra THEN <<>> ELSE extra.queued)
      /\ current.regular = (IF extra = NoExtra THEN Opponent(active) ELSE extra.regular)
      /\ current.own = (IF extra = NoExtra THEN InitialOwnTurns ELSE extra.own)
  OBVIOUS
<1>5. extra' = [current EXCEPT !.queued = Append(@, p)]
  BY DEF Schedule
<1> HIDE DEF current
<1>6. /\ extra' \in Schedulers /\ extra'.queued = Append(current.queued, p)
      /\ extra'.regular = current.regular /\ extra'.own = current.own
      /\ extra'.occurrence = current.occurrence
  <2>1. current = [occurrence |-> current.occurrence, own |-> current.own,
                   regular |-> current.regular, queued |-> current.queued,
                   original |-> current.original]
    BY <1>3 DEF Schedulers
  <2>2. extra' = [occurrence |-> current.occurrence, own |-> current.own,
                  regular |-> current.regular, queued |-> Append(current.queued, p),
                  original |-> current.original]
    BY <1>5, <2>1
  <2>3. Append(current.queued, p) \in Seq(Players)
    BY <1>3 DEF Schedulers
  <2> QED BY <1>3, <2>2, <2>3 DEF Schedulers
<1>7. TurnKey' = TurnKey
  BY <1>3, <1>6, ExtraFacts DEF TurnKey
<1> QED
  BY <1>4, <1>6, <1>7

\* The top of the stack resolves.
LEMMA ResolveKeeps == ASSUME IInv, Resolve PROVE IInv'
<1> DEFINE kind == Last(stack)[1]
           by == Last(stack)[2]
<1>1. stack # <<>> /\ stack \in Seq(Items)
  BY StageFacts, CombatFacts DEF Resolve
<1>2. stack' \in Seq(Items) /\ Last(stack) \in Items
  BY <1>1 DEF Resolve, Front, Last
<1>3. by \in Players
  BY <1>2 DEF Items
<1>4. PICK result \in Results :
         /\ IF kind = "extra" THEN Schedule(by) ELSE UNCHANGED extra
         /\ hand' = IF result \in {"draw", "emblem"} THEN [hand EXCEPT ![by] = @ + 1] ELSE hand
         /\ effects' = effects \cup (Effects \cap {result})
         /\ combat' = [combat EXCEPT !.alive = @ /\ result # "kill"]
  BY DEF Resolve
<1>5. UNCHANGED <<owned, turn, active, started, step, discard, cleanup, timeStop, halted>>
  BY DEF Resolve, owners
<1>6. extra' \in {NoExtra} \cup Schedulers /\ TurnKey' = TurnKey
  BY <1>3, <1>4, <1>5, ScheduleFacts DEF TurnKey, IInv, ClockType
<1>7. hand' \in [Players -> Nat] /\ effects' \in SUBSET Effects
  BY <1>3, <1>4, CombatFacts
<1>8. combat' \in Combats /\ combat'.damage = combat.damage
  BY <1>4, CombatFacts DEF Combats
<1>9. CheckpointType' /\ WindowType'
  BY Checkpoint, Windows DEF Resolve
<1>10. TableType' /\ PassInv'
  BY <1>2, <1>5, <1>7, <1>8, <1>9, TableTypes DEF IInv, TableType, WindowType
<1>11. Stage = "resolve"
  BY DEF Resolve
<1> QED
  BY <1>5, <1>6, <1>8, <1>10, <1>11, CombatFacts, CalmKeep, CalmStages, NotFinished

-----------------------------------------------------------------------------
(* The step boundary.                                                      *)

\* At a step boundary nothing waits, and outside a cleanup window there is no
\* record of a cleanup.
LEMMA Boundary ==
  ASSUME IInv, Stage = "advance"
  PROVE  /\ stack = <<>> /\ triggers = <<>> /\ Calm
         /\ combat.damage \notin {"first_pending", "normal_pending"}
         /\ GrantsPriority(step) \/ InCleanupWindow => BothPassed
         /\ ~InCleanupWindow => cleanup = NoOwner /\ timeStop = NoOwner
<1>1. combat.damage \notin {"first_pending", "normal_pending"}
  BY DEF Stage
<1>2. Calm /\ OwnerType
  BY CalmStages DEF IInv
<1>3. ~InCleanupWindow => cleanup = NoOwner /\ timeStop = NoOwner
  BY <1>2, OwnerFacts DEF Calm, InCleanupWindow
<1> QED
  BY <1>1, <1>2, <1>3, StageFacts

\* The next step is a step, and the cleanup follows the end step only.
LEMMA NextStep ==
  ASSUME NEW s \in Steps, s # "Cleanup"
  PROVE  /\ StepOrder[Position(s) + 1] \in Steps
         /\ StepOrder[Position(s) + 1] = "Cleanup" => s = "End"
<1>1. DOMAIN StepOrder = 1..12
  BY DEF StepOrder
<1>2. \E i \in 1..12 : StepOrder[i] = s
  BY DEF StepOrder, Steps
<1>3. Position(s) \in 1..12 /\ StepOrder[Position(s)] = s
  BY <1>1, <1>2 DEF Position
<1>4. Position(s) # 12
  BY <1>3 DEF StepOrder
<1> HIDE DEF Position
<1>5. Position(s) \in {1, 2, 3, 4, 5, 6, 7, 8, 9, 10, 11}
  BY <1>3, <1>4
<1>6. \A i \in {1, 2, 3, 4, 5, 6, 7, 8, 9, 10, 11} :
         StepOrder[i + 1] \in Steps /\ (StepOrder[i + 1] = "Cleanup" => StepOrder[i] = "End")
  BY DEF StepOrder, Steps
<1> QED
  BY <1>3, <1>5, <1>6

\* The cards above the maximum, if the player has one.
LEMMA SurplusFacts ==
  ASSUME IInv, NEW free
  PROVE  /\ Surplus(free) \in Nat
         /\ Surplus(free) > 0 => hand[active] = MaxHand + Surplus(free)
         /\ Surplus(free) = 0 => hand[active] <= MaxHand \/ active \in free
<1>1. hand[active] \in Nat /\ MaxHand \in Nat
  BY CombatFacts, TurnLoopAssumption
<1> QED
  BY <1>1 DEF Surplus

\* Entering a step.
LEMMA EnterKeep ==
  ASSUME IInv, Stage = "advance", ~InCleanupWindow, ClockType',
         NEW s \in Steps, s = "Cleanup" => ~owned /\ active' = active,
         NEW h \in Happenings, NEW strikers \in BOOLEAN, Enter(s, h, strikers)
  PROVE  IInv'
<1>1. /\ stack = <<>> /\ Calm /\ cleanup = NoOwner /\ timeStop = NoOwner /\ discard = 0
      /\ combat.damage \notin {"first_pending", "normal_pending"}
  BY Boundary DEF Calm
<1>2. /\ step' = s /\ CombatEntry(s, strikers) /\ ResetPriority(active')
      /\ UNCHANGED <<owned, stack, cleanup, timeStop, halted>>
  BY DEF Enter, owners
<1>3. WindowType'
  BY <1>2, ResetTypes DEF WindowType, ClockType
<1>4. combat' \in Combats /\ (combat'.damage \in {"first_pending", "normal_pending"} => s = "CombatDamage")
  <2>1. NoCombat \in Combats /\ NoCombat.damage = "before"
    BY DEF NoCombat, Combats
  <2>2. CASE s \in {"BeginCombat", "Main2"}
    <3>1. combat' = NoCombat
      BY <1>2, <2>2 DEF CombatEntry
    <3> QED BY <2>1, <3>1
  <2>3. CASE s = "CombatDamage" /\ owned
    <3>1. combat' = [combat EXCEPT !.damage = IF strikers THEN "first_pending" ELSE "normal_pending"]
      BY <1>2, <2>3 DEF CombatEntry
    <3> QED BY <2>3, <3>1, CombatFacts DEF Combats
  <2>4. CASE s \notin {"BeginCombat", "Main2"} /\ ~(s = "CombatDamage" /\ owned)
    <3>1. combat' = combat
      BY <1>2, <2>4 DEF CombatEntry
    <3> QED BY <1>1, <3>1, CombatFacts
  <2> QED BY <2>2, <2>3, <2>4
<1>5. /\ hand' \in [Players -> Nat] /\ CheckpointType' /\ effects' \in SUBSET Effects
      /\ discard' \in Nat
      /\ discard' > 0 => s = "Cleanup" /\ hand[active] = MaxHand + discard' /\ hand' = hand
  <2>1. CASE s = "Draw"
    <3>1. DrawStep(h) /\ UNCHANGED <<discard, effects>>
      BY <2>1 DEF Enter, Checks
    <3>2. CASE FirstTurnOfTheGame
      BY <1>1, <3>1, <3>2, CombatFacts, Windows DEF DrawStep
    <3>3. CASE ~FirstTurnOfTheGame
      <4>1. hand' = [hand EXCEPT ![active] = @ + 1] /\ Collect(h, triggers, 0)
        BY <3>1, <3>3 DEF DrawStep
      <4>2. CheckpointType'
        BY <4>1, Checkpoint
      <4>3. hand' \in [Players -> Nat]
        BY <4>1, CombatFacts
      <4> QED BY <1>1, <3>1, <4>2, <4>3, CombatFacts
    <3> QED BY <3>2, <3>3
  <2>2. CASE s = "Cleanup"
    <3>1. CleanupStep(h) /\ UNCHANGED hand
      BY <2>2 DEF Enter, Checks
    <3>2. CheckpointType'
      BY <3>1, Checkpoint DEF CleanupStep
    <3>3. discard' \in Nat /\ (discard' > 0 => hand[active] = MaxHand + discard')
      BY <3>1, SurplusFacts DEF CleanupStep
    <3> QED BY <2>2, <3>1, <3>2, <3>3, CombatFacts DEF CleanupStep
  <2>3. CASE Checks(s)
    <3>1. Collect(h, triggers, 0) /\ UNCHANGED <<hand, discard, effects>>
      BY <2>3 DEF Enter, Checks
    <3>2. CheckpointType'
      BY <3>1, Checkpoint
    <3> QED BY <1>1, <3>1, <3>2, CombatFacts
  <2>4. CASE s \notin {"Draw", "Cleanup"} /\ ~Checks(s)
    <3>1. UNCHANGED <<hand, discard, effects, checkpoint>>
      BY <2>4 DEF Enter
    <3> QED BY <1>1, <3>1, CombatFacts, Windows
  <2> QED BY <2>1, <2>2, <2>3, <2>4
<1>6. TableType'
  BY <1>2, <1>3, <1>4, <1>5, CombatFacts, TableTypes
<1>7. OwnerType' /\ CleanupValid' /\ TimeStopValid' /\ ~halted'
  BY <1>1, <1>2 DEF IInv, OwnerType, CleanupValid, TimeStopValid
<1>8. DutyInv'
  BY <1>1, <1>2, <1>4, <1>5 DEF DutyInv
<1>9. PhaseInv'
  BY <1>1, <1>2 DEF PhaseInv, NoOwner
<1>10. DoneInv'
  BY <1>2 DEF DoneInv
<1> QED
  BY <1>3, <1>6, <1>7, <1>8, <1>9, <1>10 DEF IInv, WindowType

\* The loop enters the next step of a turn.
LEMMA AdvanceStepKeeps == ASSUME IInv, AdvanceStep PROVE IInv'
<1>1. PICK h \in Happenings, strikers \in BOOLEAN : Enter(Successor, h, strikers)
  BY DEF AdvanceStep
<1>2. /\ Stage = "advance" /\ ~InCleanupWindow /\ step # "Cleanup" /\ ~OwnsCleanup
      /\ UNCHANGED <<turn, active, extra, started>>
  BY DEF AdvanceStep, OrdinaryAdvance, clock
<1>3. owned' = owned
  BY <1>1 DEF Enter
<1>4. ClockType' /\ step \in Steps
  BY <1>2, <1>3 DEF IInv, ClockType, TableType
<1>5. Successor \in Steps /\ (Successor = "Cleanup" => step = "End")
  BY <1>2, <1>4, NextStep DEF Successor, Steps
<1>6. Successor = "Cleanup" => ~owned /\ active' = active
  BY <1>2, <1>5 DEF OwnsCleanup
<1> QED
  BY <1>1, <1>2, <1>4, <1>5, <1>6, EnterKeep

\* extra_turn_v1::next: what the scheduler hands over.
LEMMA NextScheduledFacts ==
  ASSUME IInv, extra # NoExtra
  PROVE  /\ NextScheduled.taker \in Players /\ NextScheduled.round \in Nat \ {0}
         /\ NextScheduled.extra \in Schedulers
         /\ extra.queued # <<>> =>
              /\ NextScheduled.taker = Last(extra.queued) /\ NextScheduled.round = turn
              /\ NextScheduled.extra.queued = Front(extra.queued)
              /\ NextScheduled.extra.regular = extra.regular
         /\ extra.queued = <<>> =>
              /\ NextScheduled.taker = extra.regular
              /\ NextScheduled.round = (IF extra.regular = Starting THEN turn + 1 ELSE turn)
              /\ NextScheduled.extra.queued = <<>>
              /\ NextScheduled.extra.regular = Opponent(extra.regular)
         /\ NextScheduled.extra.own = [extra.own EXCEPT ![NextScheduled.taker] = @ + 1]
<1> DEFINE taker == IF extra.queued # <<>> THEN Last(extra.queued) ELSE extra.regular
           after == [extra EXCEPT !.occurrence = @ + 1, !.original = FALSE,
                                  !.own[taker] = @ + 1]
           own == [extra.own EXCEPT ![taker] = @ + 1]
<1>1. extra \in Schedulers /\ turn \in Nat \ {0}
  BY ExtraFacts DEF IInv, ClockType
<1>2. /\ extra.occurrence \in Nat \ {0} /\ extra.own \in [Players -> Nat]
      /\ extra.regular \in Players /\ extra.queued \in Seq(Players) /\ extra.original \in BOOLEAN
  BY <1>1 DEF Schedulers
<1>3. taker \in Players
  BY <1>2 DEF Last
<1>4. own \in [Players -> Nat] /\ extra.occurrence + 1 \in Nat \ {0}
  BY <1>2, <1>3
<1>5. after = [occurrence |-> extra.occurrence + 1, own |-> own, regular |-> extra.regular,
               queued |-> extra.queued, original |-> FALSE]
  <2>1. extra = [occurrence |-> extra.occurrence, own |-> extra.own, regular |-> extra.regular,
                 queued |-> extra.queued, original |-> extra.original]
    BY <1>1 DEF Schedulers
  <2> HIDE DEF taker
  <2>2. after = [extra EXCEPT !.occurrence = extra.occurrence + 1, !.original = FALSE,
                              !.own = own]
    BY <1>1 DEF Schedulers
  <2> HIDE DEF own, after
  <2> QED BY <2>1, <2>2
<1>6. CASE extra.queued # <<>>
  <2>1. NextScheduled = [taker |-> taker, round |-> turn,
                         extra |-> [after EXCEPT !.queued = Front(@)]]
    BY <1>6 DEF NextScheduled
  <2>2. Front(extra.queued) \in Seq(Players)
    BY <1>2, <1>6 DEF Front
  <2> HIDE DEF taker
  <2>3. NextScheduled.extra = [occurrence |-> extra.occurrence + 1, own |-> own,
                               regular |-> extra.regular, queued |-> Front(extra.queued),
                               original |-> FALSE]
    BY <1>5, <2>1
  <2>4. NextScheduled.extra \in Schedulers
    BY <1>2, <1>4, <2>2, <2>3 DEF Schedulers
  <2>5. NextScheduled.taker = taker /\ NextScheduled.round = turn
    BY <2>1
  <2>6. taker = Last(extra.queued)
    BY <1>6 DEF taker
  <2> QED BY <1>1, <1>3, <1>6, <2>3, <2>4, <2>5, <2>6
<1>7. CASE extra.queued = <<>>
  <2>1. NextScheduled = [taker |-> taker,
                         round |-> IF taker = Starting THEN turn + 1 ELSE turn,
                         extra |-> [after EXCEPT !.regular = Opponent(taker)]]
    BY <1>7 DEF NextScheduled
  <2>2. taker = extra.regular
    BY <1>7
  <2>3. Opponent(taker) \in Players
    BY <1>3 DEF Opponent, Players
  <2> HIDE DEF taker
  <2>4. NextScheduled.extra = [occurrence |-> extra.occurrence + 1, own |-> own,
                               regular |-> Opponent(taker), queued |-> extra.queued,
                               original |-> FALSE]
    BY <1>5, <2>1
  <2>5. NextScheduled.extra \in Schedulers
    BY <1>2, <1>4, <2>3, <2>4 DEF Schedulers
  <2>6. NextScheduled.taker = taker /\ NextScheduled.round = IF taker = Starting THEN turn + 1 ELSE turn
    BY <2>1
  <2> QED BY <1>1, <1>3, <1>7, <2>2, <2>4, <2>5, <2>6
<1> QED
  BY <1>6, <1>7

\* The next turn begins.
LEMMA NextTurnKeeps == ASSUME IInv, NextTurn PROVE IInv'
<1>1. /\ Stage = "advance" /\ ~InCleanupWindow
      /\ BeginNextTurn /\ Enter("Untap", "quiet", FALSE)
  BY DEF NextTurn, OrdinaryAdvance
<1>2. ClockType
  BY DEF IInv
<1>3. owned' \in BOOLEAN /\ started' \in Nat
  BY <1>1, <1>2 DEF Enter, ClockType, BeginNextTurn
<1>4. active' \in Players /\ turn' \in Nat \ {0} /\ extra' \in {NoExtra} \cup Schedulers
  <2>1. CASE extra = NoExtra
    <3>1. /\ active' = Opponent(active) /\ extra' = NoExtra
          /\ turn' = IF Opponent(active) = Starting THEN turn + 1 ELSE turn
      BY <1>1, <2>1 DEF BeginNextTurn
    <3> QED BY <1>2, <3>1 DEF ClockType, Opponent, Players
  <2>2. CASE extra # NoExtra
    <3>1. /\ active' = NextScheduled.taker /\ extra' = NextScheduled.extra
          /\ turn' = NextScheduled.round
      BY <1>1, <2>2 DEF BeginNextTurn
    <3> QED BY <2>2, <3>1, NextScheduledFacts
  <2> QED BY <2>1, <2>2
<1>5. ClockType'
  BY <1>3, <1>4 DEF ClockType
<1>6. "Untap" \in Steps /\ "quiet" \in Happenings /\ FALSE \in BOOLEAN
  BY DEF Steps, Happenings
<1> QED
  BY <1>1, <1>5, <1>6, EnterKeep

\* The historical cleanup happens again.
LEMMA RepeatCleanupKeeps == ASSUME IInv, RepeatCleanup PROVE IInv'
<1>1. /\ Stage = "advance" /\ ~InCleanupWindow /\ step = "Cleanup"
      /\ effects \cap Repeating # {}
      /\ UNCHANGED <<turn, active, extra, started>>
  BY DEF RepeatCleanup, RepeatsCleanup, clock
<1>2. ~owned
  BY <1>1, Boundary DEF IInv, DoneInv, Calm
<1>3. PICK h \in Happenings : Enter("Cleanup", h, FALSE)
  BY DEF RepeatCleanup
<1>4. ClockType'
  BY <1>1, <1>3 DEF IInv, ClockType, Enter
<1>5. "Cleanup" \in Steps /\ FALSE \in BOOLEAN
  BY DEF Steps
<1> QED
  BY <1>1, <1>2, <1>3, <1>4, <1>5, EnterKeep

\* The second wave of damage is announced.
LEMMA NormalWaveKeeps == ASSUME IInv, NormalWave PROVE IInv'
<1>1. /\ Stage = "advance" /\ step = "CombatDamage"
      /\ combat' = [combat EXCEPT !.damage = "normal_pending"]
      /\ UNCHANGED <<owned, turn, active, extra, started, step, stack, triggers, legend, lost,
                     budget, hand, discard, effects, cleanup, timeStop, halted>>
  BY DEF NormalWave, clock, checkpoint, owners
<1>2. WindowType' /\ CheckpointType'
  BY Windows DEF NormalWave
<1>3. combat' \in Combats
  BY <1>1, CombatFacts DEF Combats
<1>4. TableType' /\ PassInv'
  BY <1>1, <1>2, <1>3, CombatFacts, TableTypes DEF IInv, TableType, WindowType
<1>5. TurnKey' = TurnKey /\ extra' \in {NoExtra} \cup Schedulers
  BY <1>1 DEF TurnKey, IInv, ClockType
<1>6. ~Finished /\ Calm
  BY <1>1, Boundary DEF Finished
<1> QED
  BY <1>1, <1>4, <1>5, <1>6, CalmKeep

-----------------------------------------------------------------------------
(* The cleanup records.                                                    *)

\* A record's phase changes, the turn it belongs to does not.
LEMMA Rephase ==
  ASSUME NEW phases, NEW owner \in Owned(phases), NEW x
  PROVE  /\ [owner EXCEPT !.phase = x] = [phase |-> x, key |-> owner.key, active |-> owner.active]
         /\ owner.key \in Nat /\ owner.active \in Players
  BY DEF Owned

\* A record of the turn in progress.
LEMMA RecordFacts ==
  ASSUME IInv, NEW x, NEW r,
         r = [phase |-> x, key |-> TurnKey, active |-> active], x # "none"
  PROVE  /\ r # NoOwner /\ r.phase = x /\ r.key = TurnKey /\ r.active = active
         /\ \A phases : x \in phases => r \in Owned(phases)
<1>1. NoOwner.phase = "none"
  BY DEF NoOwner
<1>2. TurnKey \in Nat /\ active \in Players
  BY ExtraFacts, CombatFacts
<1> QED
  BY <1>1, <1>2 DEF Owned

\* Either record, if present, is of the turn in progress: what changing its
\* phase makes of it.
LEMMA CurrentRecords ==
  ASSUME IInv
  PROVE  /\ cleanup # NoOwner =>
              \A x : [cleanup EXCEPT !.phase = x] = [phase |-> x, key |-> TurnKey, active |-> active]
         /\ timeStop # NoOwner =>
              \A x : [timeStop EXCEPT !.phase = x] = [phase |-> x, key |-> TurnKey, active |-> active]
<1>1. OwnerType /\ CleanupValid /\ TimeStopValid
  BY DEF IInv
<1>2. ASSUME cleanup # NoOwner, NEW x
      PROVE  [cleanup EXCEPT !.phase = x] = [phase |-> x, key |-> TurnKey, active |-> active]
  <2>1. cleanup.key = TurnKey /\ cleanup.active = active
    BY <1>1, <1>2 DEF CleanupValid, Current
  <2>2. [cleanup EXCEPT !.phase = x] = [phase |-> x, key |-> cleanup.key, active |-> cleanup.active]
    BY <1>1, <1>2, OwnerFacts, Rephase
  <2> QED BY <2>1, <2>2
<1>3. ASSUME timeStop # NoOwner, NEW x
      PROVE  [timeStop EXCEPT !.phase = x] = [phase |-> x, key |-> TurnKey, active |-> active]
  <2>1. timeStop.key = TurnKey /\ timeStop.active = active
    BY <1>1, <1>3 DEF TimeStopValid, Current
  <2>2. [timeStop EXCEPT !.phase = x] = [phase |-> x, key |-> timeStop.key, active |-> timeStop.active]
    BY <1>1, <1>3, OwnerFacts, Rephase
  <2> QED BY <2>1, <2>2
<1> QED
  BY <1>2, <1>3

\* Nothing of the clock moves while a turn is cleaned up.
LEMMA ClockStays ==
  ASSUME IInv, UNCHANGED <<owned, turn, active, extra, started>>
  PROVE  ClockType' /\ TurnKey' = TurnKey
  BY DEF IInv, ClockType, TurnKey

\* The excess is a number, and depends on the hand, the limits and the turn.
LEMMA ExcessFacts ==
  ASSUME IInv
  PROVE  /\ Excess \in Nat
         /\ UNCHANGED <<hand, active, unlimited>> => Excess' = Excess
         /\ Excess > 0 => hand[active] = MaxHand + Excess
         /\ Excess = 0 => hand[active] <= MaxHand \/ active \in unlimited
<1>1. UNCHANGED <<hand, active, unlimited>> => Excess' = Excess
  BY DEF Excess, Surplus
<1> QED
  BY <1>1, SurplusFacts DEF Excess

\* An ordinary cleanup starts or starts over.
LEMMA StartDiscardKeep ==
  ASSUME IInv, Stage = "advance", timeStop = NoOwner, NEW owner,
         \A x : [owner EXCEPT !.phase = x] = [phase |-> x, key |-> TurnKey, active |-> active],
         StartDiscard(owner), step' = "Cleanup",
         UNCHANGED <<owned, clock, stack, checkpoint, hand, effects, timeStop, combat, halted>>
  PROVE  IInv'
<1> DEFINE x == IF Excess > 0 THEN "discard" ELSE "expiration"
<1>1. UNCHANGED <<owned, turn, active, extra, started, stack, triggers, legend, lost, budget,
                  unlimited, hand, effects, timeStop, combat, halted>>
  BY DEF clock, checkpoint
<1>2. ClockType' /\ TurnKey' = TurnKey /\ Excess' = Excess /\ Excess \in Nat
  BY <1>1, ClockStays, ExcessFacts
<1>3. /\ stack = <<>> /\ ~legend /\ ~lost /\ combat.damage \notin {"first_pending", "normal_pending"}
  BY Boundary DEF Calm
<1>4. WindowType' /\ passes' = NobodyPassed /\ CheckpointType'
  BY Windows DEF StartDiscard, ResetPriority
<1>5. /\ discard' = Excess /\ exempt' = (active \in unlimited)
      /\ cleanup' = [phase |-> x, key |-> TurnKey, active |-> active]
  BY DEF StartDiscard
<1>6. x # "none" /\ x \in {"discard", "expiration"}
  OBVIOUS
<1>7. /\ cleanup' # NoOwner /\ cleanup'.phase = x /\ cleanup'.key = TurnKey
      /\ cleanup'.active = active
      /\ cleanup' \in Owned({"discard", "expiration", "priority", "gameover"})
  BY <1>5, <1>6, RecordFacts
<1>8. TableType'
  BY <1>1, <1>2, <1>4, <1>5, CombatFacts, TableTypes DEF Steps
<1>9. OwnerType'
  BY <1>1, <1>7 DEF IInv, OwnerType
<1>10. CleanupValid'
  BY <1>1, <1>2, <1>3, <1>4, <1>5, <1>7 DEF CleanupValid, Current
<1>11. TimeStopValid'
  BY <1>1 DEF TimeStopValid
<1>12. DutyInv' /\ DoneInv'
  <2>1. discard' > 0 => hand'[active'] = MaxHand + discard'
    BY <1>1, <1>5, ExcessFacts
  <2> QED BY <1>1, <1>3, <1>7, <2>1 DEF DutyInv, DoneInv
<1>13. PhaseInv'
  <2>1. x = "expiration" => hand[active] <= MaxHand \/ active \in unlimited
    BY <1>2, ExcessFacts
  <2>2. hand' = hand /\ active' = active /\ exempt' = (active \in unlimited)
    BY <1>1, <1>5
  <2>3. x = "expiration" => WithinLimit'
    BY <2>1, <2>2, Zenon DEF WithinLimit
  <2> QED BY <1>1, <1>3, <1>4, <1>7, <2>3 DEF PhaseInv, NoOwner
<1> QED
  BY <1>1, <1>2, <1>4, <1>8, <1>9, <1>10, <1>11, <1>12, <1>13 DEF IInv, WindowType

\* An owned cleanup begins: begin never refuses.
LEMMA BeginCleanupKeeps == ASSUME IInv, BeginCleanup PROVE IInv'
<1>1. Stage = "advance" /\ ~InCleanupWindow /\ step = "End"
  BY DEF BeginCleanup, OwnsCleanup
<1>2. BeginAdmits
  BY <1>1, Boundary DEF BeginAdmits, GrantsPriority, Calm
<1>3. /\ step' = "Cleanup" /\ StartDiscard(Owner("expiration"))
      /\ UNCHANGED <<owned, clock, stack, checkpoint, hand, effects, timeStop, combat, halted>>
  BY <1>2 DEF BeginCleanup
<1>4. \A x : [Owner("expiration") EXCEPT !.phase = x] = [phase |-> x, key |-> TurnKey, active |-> active]
  BY DEF Owner
<1>5. timeStop = NoOwner
  BY <1>1, Boundary
<1> QED
  BY <1>1, <1>3, <1>4, <1>5, StartDiscardKeep

\* An owned cleanup starts over after its priority window.
LEMMA RepeatOwnedCleanupKeeps == ASSUME IInv, RepeatOwnedCleanup PROVE IInv'
<1>1. Stage = "advance" /\ cleanup.phase = "priority" /\ InCleanupWindow
  BY DEF RepeatOwnedCleanup, InCleanupWindow
<1>2. CleanupValid /\ cleanup # NoOwner
  BY <1>1 DEF IInv, NoOwner
<1>3. RepeatAdmits
  BY <1>1, <1>2, Boundary DEF RepeatAdmits, Calm
<1>4. timeStop = NoOwner /\ step = "Cleanup"
  BY <1>2 DEF CleanupValid
<1>5. /\ StartDiscard(cleanup) /\ step' = step
      /\ UNCHANGED <<owned, clock, stack, checkpoint, hand, effects, timeStop, combat, halted>>
  BY <1>3 DEF RepeatOwnedCleanup
<1> QED
  BY <1>1, <1>2, <1>4, <1>5, CurrentRecords, StartDiscardKeep

\* What the expiration of the turn's effects leaves.
LEMMA ExpireFacts ==
  ASSUME IInv, ~legend, NEW h \in Happenings \cup {"sba"}, ExpireEffects(h)
  PROVE  /\ WindowType' /\ CheckpointType' /\ effects' = {}
         /\ UNCHANGED <<owned, turn, active, extra, started, step, stack, hand, discard, exempt, combat, halted>>
         /\ AfterExpiry(h) \in {"none", "gameover", "priority"}
         /\ AfterExpiry(h) = "gameover" => lost'
         /\ AfterExpiry(h) = "none" => triggers' = <<>> /\ ~legend' /\ UNCHANGED window
<1>1. /\ effects' = {}
      /\ UNCHANGED <<owned, turn, active, extra, started, step, stack, hand, discard, exempt, combat, halted>>
  BY DEF ExpireEffects, clock
<1>2. WindowType'
  BY Windows DEF ExpireEffects
<1>3. CheckpointType'
  <2>1. CASE h = "sba"
    <3>1. UNCHANGED <<triggers, legend, lost>> /\ budget > 0 /\ budget' = budget - 1
      BY <2>1 DEF ExpireEffects
    <3>2. CheckpointType
      BY Windows
    <3> QED BY <3>1, <3>2 DEF CheckpointType
  <2>2. CASE h # "sba"
    <3>1. h \in Happenings /\ Collect(h, triggers, 0)
      BY <2>2 DEF ExpireEffects
    <3> QED BY <3>1, Checkpoint
  <2> QED BY <2>1, <2>2
<1>4. /\ AfterExpiry(h) \in {"none", "gameover", "priority"}
      /\ AfterExpiry(h) = "gameover" => h = "loss"
      /\ AfterExpiry(h) = "none" => h \in {"quiet", "limit"} /\ triggers = <<>>
  BY DEF AfterExpiry
<1>5. h = "loss" => lost'
  BY DEF ExpireEffects, Collect
<1>6. h \in {"quiet", "limit"} => triggers' = triggers /\ ~legend'
  BY DEF ExpireEffects, Collect
<1>7. AfterExpiry(h) = "none" => UNCHANGED window
  BY DEF ExpireEffects
<1> QED
  BY <1>1, <1>2, <1>3, <1>4, <1>5, <1>6, <1>7

\* The effects of the turn end in an ordinary cleanup.
LEMMA ExpireKeeps == ASSUME IInv, Expire PROVE IInv'
<1>1. ~lost /\ cleanup.phase = "expiration" /\ cleanup # NoOwner /\ CleanupValid /\ ~legend
  BY DrivenStages DEF Expire, IInv, PhaseInv, NoOwner
<1>2. timeStop = NoOwner /\ step = "Cleanup" /\ discard = 0 /\ stack = <<>> /\ WithinLimit
  BY <1>1 DEF CleanupValid, IInv, PhaseInv
<1>3. PICK h \in Happenings \cup {"sba"} :
         ExpireEffects(h) /\ cleanup' = InPhase(cleanup, AfterExpiry(h)) /\ UNCHANGED timeStop
  BY <1>1 DEF Expire
<1> DEFINE after == AfterExpiry(h)
<1>4. /\ WindowType' /\ CheckpointType' /\ effects' = {}
      /\ UNCHANGED <<owned, turn, active, extra, started, step, stack, hand, discard, exempt, combat, halted>>
      /\ after \in {"none", "gameover", "priority"}
      /\ after = "gameover" => lost'
      /\ after = "none" => triggers' = <<>> /\ ~legend'
  BY <1>1, <1>3, ExpireFacts
<1> HIDE DEF after
<1>5. ClockType' /\ TurnKey' = TurnKey /\ WithinLimit'
  BY <1>2, <1>4, ClockStays DEF WithinLimit
<1>6. /\ after = "none" => cleanup' = NoOwner
      /\ after # "none" =>
            /\ cleanup' # NoOwner /\ cleanup'.phase = after /\ cleanup'.key = TurnKey
            /\ cleanup'.active = active
            /\ cleanup' \in Owned({"discard", "expiration", "priority", "gameover"})
  <2>1. after = "none" => cleanup' = NoOwner
    BY <1>3 DEF InPhase, after
  <2>2. ASSUME after # "none"
        PROVE  cleanup' = [phase |-> after, key |-> TurnKey, active |-> active]
    BY <1>1, <1>3, <2>2, CurrentRecords DEF InPhase, after
  <2> QED BY <1>4, <2>1, <2>2, RecordFacts
<1>7. cleanup'.phase \in {"none", "gameover", "priority"}
  BY <1>4, <1>6 DEF NoOwner
<1>8. TableType'
  BY <1>4, CombatFacts, TableTypes DEF IInv, TableType
<1>9. OwnerType'
  BY <1>3, <1>6 DEF IInv, OwnerType
<1>10. CleanupValid' /\ TimeStopValid'
  BY <1>2, <1>3, <1>4, <1>5, <1>6 DEF CleanupValid, TimeStopValid, Current
<1>11. DutyInv'
  BY <1>2, <1>4 DEF IInv, DutyInv
<1>12. PhaseInv'
  BY <1>2, <1>3, <1>7 DEF PhaseInv, NoOwner
<1>13. DoneInv'
  BY <1>2, <1>4, <1>5, <1>6 DEF DoneInv
<1> QED
  BY <1>4, <1>5, <1>8, <1>9, <1>10, <1>11, <1>12, <1>13 DEF IInv, WindowType

-----------------------------------------------------------------------------
(* Ending the turn early.                                                  *)

\* While the turn is being ended there is no ordinary cleanup.
LEMMA StopExcludesCleanup ==
  ASSUME IInv, timeStop # NoOwner
  PROVE  cleanup = NoOwner /\ (timeStop.phase \notin {"before", "gameover"} => step = "Cleanup")
  BY DEF IInv, CleanupValid, TimeStopValid

\* The invariant of a state in which the turn is being ended.
LEMMA StopKeep ==
  ASSUME IInv, NEW x \in {"before", "discard", "expiration", "priority", "gameover"},
         timeStop' = [phase |-> x, key |-> TurnKey, active |-> active], cleanup' = NoOwner,
         UNCHANGED <<owned, turn, active, extra, started, halted>>,
         WindowType', CheckpointType', step' \in Steps, stack' \in Seq(Items),
         hand' \in [Players -> Nat], discard' \in Nat, effects' \in SUBSET Effects,
         combat' \in Combats,
         combat'.damage \in {"first_pending", "normal_pending"} => step' = "CombatDamage",
         x \notin {"before", "gameover"} => step' = "Cleanup",
         discard' > 0 => hand'[active] = MaxHand + discard' /\ step' = "Cleanup" /\ stack' = <<>>,
         x = "before" => stack' = <<>> /\ BothPassed' /\ discard' = 0,
         x = "discard" => discard' > 0 /\ discard' = Excess' /\ stack' = <<>> /\ ~legend',
         x = "expiration" => discard' = 0 /\ stack' = <<>> /\ ~legend' /\ WithinLimit',
         x = "gameover" => lost'
  PROVE  IInv'
<1>1. /\ timeStop' # NoOwner /\ timeStop'.phase = x /\ timeStop'.key = TurnKey
      /\ timeStop'.active = active
      /\ timeStop' \in Owned({"before", "discard", "expiration", "priority", "gameover"})
  BY RecordFacts
<1>2. ClockType' /\ TurnKey' = TurnKey
  BY ClockStays
<1>3. TableType'
  BY TableTypes
<1>4. OwnerType' /\ ~halted'
  BY <1>1 DEF OwnerType, IInv
<1>5. TimeStopValid' /\ CleanupValid'
  BY <1>1, <1>2 DEF TimeStopValid, CleanupValid, Current
<1>6. DutyInv' /\ DoneInv'
  BY <1>1 DEF DutyInv, DoneInv
<1>7. PhaseInv'
  BY <1>1 DEF PhaseInv, NoOwner
<1> QED
  BY <1>2, <1>3, <1>4, <1>5, <1>6, <1>7 DEF IInv, WindowType

\* Time Stop resolves: dispose never refuses.
LEMMA DisposeKeeps == ASSUME IInv, Dispose PROVE IInv'
<1>1. Stage = "resolve"
  BY DEF Dispose
<1>2. Calm /\ BothPassed /\ triggers = <<>>
  BY <1>1, CalmStages, StageFacts
<1>3. DisposeAdmits /\ CleanupValid /\ TimeStopValid
  BY <1>2 DEF DisposeAdmits, Calm, IInv
<1>4. /\ stack' = <<>> /\ cleanup' = NoOwner /\ timeStop' = Owner("before")
      /\ UNCHANGED <<owned, turn, active, extra, started, step, priority, passes, owed, triggers,
                     legend, lost, budget, hand, discard, effects, combat, halted>>
      /\ UNCHANGED window /\ UNCHANGED checkpoint
  BY <1>3 DEF Dispose, clock, window, checkpoint
<1>5. timeStop' = [phase |-> "before", key |-> TurnKey, active |-> active]
  BY <1>4 DEF Owner
<1>6. WindowType' /\ CheckpointType'
  BY <1>4, Windows
<1>7. stack' \in Seq(Items) /\ step' \in Steps /\ discard' = 0 /\ BothPassed'
  BY <1>2, <1>4 DEF IInv, TableType, Calm, BothPassed
<1> QED
  BY <1>4, <1>5, <1>6, <1>7, CombatFacts, StopKeep

\* What staging the discard of an ended turn leaves.
Staged == /\ discard \in Nat /\ discard = Excess
          /\ discard > 0 => hand[active] = MaxHand + discard
          /\ discard = 0 => WithinLimit

\* The discard of an ended turn is staged.
LEMMA StopDiscardFacts ==
  ASSUME IInv, NEW free, free = unlimited', StopDiscard(free), timeStop # NoOwner,
         UNCHANGED <<hand, active>>
  PROVE  /\ Staged'
         /\ timeStop' = [phase |-> IF discard' > 0 THEN "discard" ELSE "expiration",
                         key |-> TurnKey, active |-> active]
<1>1. discard' = Surplus(free) /\ exempt' = (active \in free)
  BY DEF StopDiscard
<1>2. Excess' = Surplus(free)
  BY DEF Excess, Surplus
<1>3. timeStop' = [timeStop EXCEPT !.phase = IF Surplus(free) > 0 THEN "discard" ELSE "expiration"]
  BY DEF StopDiscard
<1>4. Staged'
  BY <1>1, <1>2, SurplusFacts DEF Staged, WithinLimit
<1> QED
  BY <1>1, <1>3, <1>4, CurrentRecords

\* The checkpoint before an ended turn's cleanup.
LEMMA BeforeCleanupKeeps == ASSUME IInv, BeforeCleanup PROVE IInv'
<1>1. ~lost /\ ~legend /\ timeStop.phase = "before" /\ timeStop # NoOwner /\ TimeStopValid
  BY DrivenStages DEF BeforeCleanup, IInv, NoOwner
<1>2. stack = <<>> /\ BothPassed /\ discard = 0 /\ cleanup = NoOwner
  BY <1>1, StopExcludesCleanup DEF IInv, PhaseInv
<1>3. PICK h \in Happenings :
        /\ Collect(h, triggers, 0)
        /\ CASE h = "loss" ->
                  /\ timeStop' = [timeStop EXCEPT !.phase = "gameover"]
                  /\ UNCHANGED <<step, combat, discard, exempt>>
             [] h = "legend" -> UNCHANGED <<timeStop, step, combat, discard, exempt>>
             [] OTHER -> step' = "Cleanup" /\ combat' = NoCombat /\ StopDiscard(unlimited')
  BY <1>1 DEF BeforeCleanup
<1>4. /\ UNCHANGED <<owned, turn, active, extra, started, priority, passes, owed, stack, hand,
                     effects, cleanup, halted>>
      /\ UNCHANGED window
  BY <1>1 DEF BeforeCleanup, clock, window
<1>5. WindowType' /\ CheckpointType' /\ BothPassed'
  BY <1>2, <1>3, <1>4, Windows, Checkpoint DEF BothPassed
<1>6. stack' \in Seq(Items) /\ step \in Steps /\ stack' = <<>> /\ cleanup' = NoOwner
  BY <1>2, <1>4, CombatFacts DEF IInv, TableType
<1>7. CASE h = "loss"
  <2>1. lost' /\ timeStop' = [timeStop EXCEPT !.phase = "gameover"] /\ UNCHANGED <<step, combat, discard>>
    BY <1>3, <1>7 DEF Collect
  <2>2. timeStop' = [phase |-> "gameover", key |-> TurnKey, active |-> active]
    BY <1>1, <2>1, CurrentRecords
  <2>3. /\ step' \in Steps /\ discard' = 0 /\ discard' \in Nat /\ combat' \in Combats
        /\ hand' \in [Players -> Nat] /\ effects' \in SUBSET Effects
        /\ combat'.damage \in {"first_pending", "normal_pending"} => step' = "CombatDamage"
    BY <1>2, <1>4, <1>6, <2>1, CombatFacts
  <2>4. PICK x \in {"before", "discard", "expiration", "priority", "gameover"} : x = "gameover"
    OBVIOUS
  <2>5. timeStop' = [phase |-> x, key |-> TurnKey, active |-> active]
    BY <2>2, <2>4
  <2>6. lost'
    BY <2>1
  <2> QED BY <1>4, <1>5, <1>6, <2>3, <2>4, <2>5, <2>6, StopKeep
<1>8. CASE h = "legend"
  <2>1. UNCHANGED <<timeStop, step, combat, discard>>
    BY <1>3, <1>8
  <2>2. timeStop' = [phase |-> "before", key |-> TurnKey, active |-> active]
    <3>1. timeStop \in Owned({"before", "discard", "expiration", "priority", "gameover"})
      BY <1>1, OwnerFacts DEF IInv
    <3>2. timeStop.key = TurnKey /\ timeStop.active = active
      BY <1>1 DEF TimeStopValid, Current
    <3> QED BY <1>1, <2>1, <3>1, <3>2 DEF Owned
  <2> QED BY <1>2, <1>4, <1>5, <1>6, <2>1, <2>2, CombatFacts, StopKeep
<1>9. CASE h \notin {"loss", "legend"}
  <2>0. PICK free : free = unlimited'
    OBVIOUS
  <2>1. step' = "Cleanup" /\ combat' = NoCombat /\ StopDiscard(free)
    BY <1>3, <1>9, <2>0
  <2>2. ~legend'
    BY <1>3, <1>9 DEF Collect
  <2>3. NoCombat \in Combats /\ NoCombat.damage = "before"
    BY DEF NoCombat, Combats
  <2>4. /\ Staged'
        /\ timeStop' = [phase |-> IF discard' > 0 THEN "discard" ELSE "expiration",
                        key |-> TurnKey, active |-> active]
    BY <1>1, <1>4, <2>0, <2>1, StopDiscardFacts
  <2>5. PICK x \in {"discard", "expiration"} : x = IF discard' > 0 THEN "discard" ELSE "expiration"
    OBVIOUS
  <2>6. /\ discard' \in Nat /\ discard' = Excess'
        /\ discard' > 0 => hand'[active] = MaxHand + discard'
        /\ x = "discard" => discard' > 0
        /\ x = "expiration" => discard' = 0 /\ WithinLimit'
    BY <1>4, <2>4, <2>5 DEF Staged
  <2>7. "Cleanup" \in Steps
    BY DEF Steps
  <2>8. timeStop' = [phase |-> x, key |-> TurnKey, active |-> active]
    BY <2>4, <2>5
  <2>9. hand' \in [Players -> Nat] /\ effects' \in SUBSET Effects
    BY <1>4, CombatFacts
  <2> HIDE DEF StopDiscard
  <2>10. CASE x = "discard"
    BY <1>4, <1>5, <1>6, <2>1, <2>2, <2>3, <2>6, <2>7, <2>8, <2>9, <2>10, StopKeep
  <2>11. CASE x = "expiration"
    BY <1>4, <1>5, <1>6, <2>1, <2>2, <2>3, <2>6, <2>7, <2>8, <2>9, <2>11, StopKeep
  <2> QED BY <2>5, <2>10, <2>11
<1> QED
  BY <1>7, <1>8, <1>9

\* The cleanup of an ended turn starts over after its window.
LEMMA StopRepeatKeeps == ASSUME IInv, StopRepeat PROVE IInv'
<1>1. Stage = "advance" /\ timeStop.phase = "priority" /\ InCleanupWindow
  BY DEF StopRepeat, InCleanupWindow
<1>2. timeStop # NoOwner /\ TimeStopValid
  BY <1>1 DEF IInv, NoOwner
<1>3. /\ stack = <<>> /\ triggers = <<>> /\ BothPassed /\ ~legend
      /\ combat.damage \notin {"first_pending", "normal_pending"}
  BY <1>1, Boundary DEF Calm
<1>4. cleanup = NoOwner /\ step = "Cleanup"
  BY <1>1, <1>2, StopExcludesCleanup
<1>5. /\ StopDiscard(unlimited)
      /\ UNCHANGED <<owned, turn, active, extra, started, step, stack, legend, unlimited, hand,
                     effects, cleanup, combat, halted>>
      /\ UNCHANGED window /\ UNCHANGED checkpoint
  BY <1>2, <1>3 DEF StopRepeat, clock, window, checkpoint
<1>6. WindowType' /\ CheckpointType'
  BY <1>5, Windows
<1>7. /\ Staged'
      /\ timeStop' = [phase |-> IF discard' > 0 THEN "discard" ELSE "expiration",
                      key |-> TurnKey, active |-> active]
  BY <1>2, <1>5, StopDiscardFacts
<1>8. PICK x \in {"discard", "expiration"} : x = IF discard' > 0 THEN "discard" ELSE "expiration"
  OBVIOUS
<1>9. /\ discard' \in Nat /\ discard' = Excess'
      /\ discard' > 0 => hand'[active] = MaxHand + discard'
      /\ x = "discard" => discard' > 0
      /\ x = "expiration" => discard' = 0 /\ WithinLimit'
  BY <1>5, <1>7, <1>8 DEF Staged
<1>10. timeStop' = [phase |-> x, key |-> TurnKey, active |-> active]
  BY <1>7, <1>8
<1>11. /\ hand' \in [Players -> Nat] /\ effects' \in SUBSET Effects /\ combat' \in Combats
       /\ stack' \in Seq(Items) /\ step' = "Cleanup" /\ stack' = <<>> /\ ~legend' /\ cleanup' = NoOwner
       /\ combat'.damage \notin {"first_pending", "normal_pending"} /\ step' \in Steps
  BY <1>3, <1>4, <1>5, CombatFacts DEF Steps
<1>12. CASE x = "discard"
  BY <1>5, <1>6, <1>9, <1>10, <1>11, <1>12, StopKeep
<1>13. CASE x = "expiration"
  BY <1>5, <1>6, <1>9, <1>10, <1>11, <1>13, StopKeep
<1> QED
  BY <1>8, <1>12, <1>13

\* The effects of an ended turn end.
LEMMA StopExpireKeeps == ASSUME IInv, StopExpire PROVE IInv'
<1>1. ~lost /\ timeStop.phase = "expiration" /\ timeStop # NoOwner /\ TimeStopValid
  BY DrivenStages DEF StopExpire, IInv, NoOwner
<1>2. /\ stack = <<>> /\ ~legend /\ WithinLimit /\ cleanup = NoOwner /\ step = "Cleanup" /\ discard = 0
  BY <1>1, StopExcludesCleanup DEF IInv, PhaseInv, TimeStopValid
<1>3. PICK h \in Happenings \cup {"sba"} :
         ExpireEffects(h) /\ timeStop' = InPhase(timeStop, AfterExpiry(h)) /\ UNCHANGED cleanup
  BY <1>1, <1>2 DEF StopExpire
<1>4. PICK after : after = AfterExpiry(h)
  OBVIOUS
<1>5. /\ WindowType' /\ CheckpointType' /\ effects' = {}
      /\ UNCHANGED <<owned, turn, active, extra, started, step, stack, hand, discard, exempt, combat, halted>>
      /\ after \in {"none", "gameover", "priority"}
      /\ after = "gameover" => lost'
      /\ after = "none" => triggers' = <<>> /\ ~legend'
  BY <1>2, <1>3, <1>4, ExpireFacts
<1>6. ClockType' /\ TurnKey' = TurnKey /\ WithinLimit'
  BY <1>2, <1>5, ClockStays DEF WithinLimit
<1>7. /\ hand' \in [Players -> Nat] /\ combat' \in Combats /\ stack' \in Seq(Items)
      /\ step' \in Steps /\ discard' \in Nat /\ discard' = 0 /\ cleanup' = NoOwner
      /\ combat'.damage \notin {"first_pending", "normal_pending"} /\ step' = "Cleanup"
  BY <1>2, <1>3, <1>5, CombatFacts DEF Steps
<1>8. CASE after # "none"
  <2>1. timeStop' = [phase |-> after, key |-> TurnKey, active |-> active]
    BY <1>1, <1>3, <1>4, <1>8, CurrentRecords DEF InPhase
  <2>2. effects' \in SUBSET Effects
    BY <1>5
  <2>3. CASE after = "gameover"
    BY <1>5, <1>7, <2>1, <2>2, <2>3, StopKeep
  <2>4. CASE after = "priority"
    BY <1>5, <1>7, <2>1, <2>2, <2>4, StopKeep
  <2> QED BY <1>5, <1>8, <2>3, <2>4
<1>9. CASE after = "none"
  <2>1. timeStop' = NoOwner
    BY <1>3, <1>4, <1>9 DEF InPhase
  <2>2. TableType'
    BY <1>5, <1>7, TableTypes
  <2>3. OwnerType' /\ CleanupValid' /\ TimeStopValid'
    BY <1>7, <2>1 DEF OwnerType, CleanupValid, TimeStopValid
  <2>4. DutyInv' /\ PhaseInv'
    BY <1>7, <2>1 DEF DutyInv, PhaseInv, NoOwner
  <2>5. DoneInv'
    BY <1>2, <1>5, <1>6, <1>7, <1>9 DEF DoneInv
  <2> QED BY <1>5, <1>6, <2>2, <2>3, <2>4, <2>5 DEF IInv, WindowType
<1> QED
  BY <1>8, <1>9

-----------------------------------------------------------------------------
(* Answers about duties.                                                   *)

\* The queue a discard leaves.
LEMMA MadnessQueue ==
  ASSUME NEW queue \in Seq(TriggerKinds), NEW n \in Nat
  PROVE  queue \o [i \in 1..n |-> "madness"] \in Seq(TriggerKinds)
<1>1. [i \in 1..n |-> "madness"] \in Seq(TriggerKinds)
  BY DEF TriggerKinds
<1> QED
  BY <1>1

\* The active player discards down to the hand size.
LEMMA DiscardKeeps == ASSUME IInv, Discard PROVE IInv'
<1>1. ~lost /\ ~legend /\ discard > 0
  BY DrivenStages DEF Discard
<1>2. discard \in Nat /\ hand[active] = MaxHand + discard /\ step = "Cleanup" /\ stack = <<>>
  BY <1>1 DEF IInv, DutyInv, TableType
<1>3. /\ hand' = [hand EXCEPT ![active] = @ - discard] /\ discard' = 0
      /\ UNCHANGED <<owned, turn, active, extra, started, step, priority, passes, owed, stack,
                     effects, combat, halted>>
      /\ UNCHANGED window
  BY DEF Discard, clock, window
<1>4. hand' \in [Players -> Nat] /\ hand'[active] = MaxHand
  BY <1>2, <1>3, CombatFacts, TurnLoopAssumption
<1>5. Excess' = 0 /\ WithinLimit'
  BY <1>3, <1>4, TurnLoopAssumption DEF Excess, Surplus, WithinLimit
<1>6. ClockType' /\ TurnKey' = TurnKey
  BY <1>3, ClockStays
<1>7. PICK madness \in 0..discard :
        CASE timeStop.phase = "discard" ->
               /\ timeStop' = [timeStop EXCEPT !.phase = "expiration"]
               /\ Collect("quiet", triggers \o [i \in 1..madness |-> "madness"], madness)
               /\ UNCHANGED cleanup
          [] cleanup.phase = "discard" ->
               /\ cleanup' = [cleanup EXCEPT !.phase = "expiration"]
               /\ Collect("quiet", triggers \o [i \in 1..madness |-> "madness"], madness)
               /\ UNCHANGED timeStop
          [] OTHER ->
               /\ \E h \in Happenings :
                    Collect(h, triggers \o [i \in 1..madness |-> "madness"], madness)
               /\ UNCHANGED <<cleanup, timeStop>>
  BY DEF Discard
<1>8. PICK queue \in Seq(TriggerKinds) : queue = triggers \o [i \in 1..madness |-> "madness"]
  <2>1. madness \in Nat /\ triggers \in Seq(TriggerKinds)
    BY <1>2, <1>7, CombatFacts
  <2>2. triggers \o [i \in 1..madness |-> "madness"] \in Seq(TriggerKinds)
    BY <2>1, MadnessQueue
  <2> QED BY <2>2
<1>9. ~(timeStop.phase = "discard" /\ cleanup.phase = "discard")
  BY DEF IInv, CleanupValid, NoOwner
<1>10. /\ combat' \in Combats /\ stack' \in Seq(Items) /\ step' \in Steps /\ stack' = <<>>
       /\ effects' \in SUBSET Effects /\ WindowType' /\ step' = "Cleanup"
       /\ combat'.damage \notin {"first_pending", "normal_pending"}
  BY <1>2, <1>3, CombatFacts, Windows DEF Steps
<1>11. madness \in Nat /\ TableType /\ discard' \in Nat
  BY <1>2, <1>3, <1>7 DEF IInv
<1>12. CASE timeStop.phase = "discard"
  <2>1. /\ timeStop' = [timeStop EXCEPT !.phase = "expiration"]
        /\ Collect("quiet", queue, madness) /\ UNCHANGED cleanup
    BY <1>7, <1>8, <1>9, <1>12
  <2>2. CheckpointType' /\ ~legend'
    BY <1>11, <2>1, CollectTypes DEF Happenings, CheckpointType, Collect
  <2>3. timeStop # NoOwner
    BY <1>12 DEF NoOwner
  <2>4. timeStop' = [phase |-> "expiration", key |-> TurnKey, active |-> active] /\ cleanup' = NoOwner
    BY <2>1, <2>3, CurrentRecords, StopExcludesCleanup
  <2> QED BY <1>3, <1>4, <1>5, <1>10, <1>11, <2>2, <2>4, StopKeep
<1>13. CASE cleanup.phase = "discard"
  <2>1. /\ cleanup' = [cleanup EXCEPT !.phase = "expiration"]
        /\ Collect("quiet", queue, madness) /\ UNCHANGED timeStop
    BY <1>7, <1>8, <1>9, <1>13
  <2>2. CheckpointType' /\ ~legend'
    BY <1>11, <2>1, CollectTypes DEF Happenings, CheckpointType, Collect
  <2>3. cleanup # NoOwner
    BY <1>13 DEF NoOwner
  <2>4. timeStop = NoOwner /\ passes = NobodyPassed
    BY <1>13, <2>3 DEF IInv, CleanupValid, PhaseInv
  <2>5. cleanup' = [phase |-> "expiration", key |-> TurnKey, active |-> active]
    BY <2>1, <2>3, CurrentRecords
  <2>6. /\ cleanup' # NoOwner /\ cleanup'.phase = "expiration" /\ cleanup'.key = TurnKey
        /\ cleanup'.active = active
        /\ cleanup' \in Owned({"discard", "expiration", "priority", "gameover"})
    BY <2>5, RecordFacts
  <2>7. TableType'
    BY <1>3, <1>4, <1>10, <1>11, <2>2, TableTypes
  <2>8. OwnerType' /\ TimeStopValid'
    BY <2>1, <2>4, <2>6 DEF OwnerType, TimeStopValid
  <2>9. CleanupValid'
    BY <1>3, <1>5, <1>6, <1>10, <2>1, <2>4, <2>6 DEF CleanupValid, Current
  <2>10. DutyInv' /\ DoneInv'
    BY <1>3, <1>10, <2>6 DEF DutyInv, DoneInv
  <2>11. PhaseInv'
    BY <1>3, <1>5, <2>1, <2>2, <2>4 DEF PhaseInv, NoOwner
  <2> QED BY <1>3, <1>6, <1>10, <2>7, <2>8, <2>9, <2>10, <2>11 DEF IInv, WindowType
<1>14. CASE timeStop.phase # "discard" /\ cleanup.phase # "discard"
  <2>1. PICK h \in Happenings : Collect(h, queue, madness)
    BY <1>7, <1>8, <1>14
  <2>2. UNCHANGED <<cleanup, timeStop>>
    BY <1>7, <1>14
  <2>3. CheckpointType'
    BY <1>11, <2>1, CollectTypes DEF CheckpointType
  <2>4. TableType'
    BY <1>3, <1>4, <1>10, <1>11, <2>3, TableTypes
  <2>5. /\ timeStop.phase \notin {"before", "expiration", "discard", "gameover"}
        /\ cleanup.phase \notin {"expiration", "discard", "gameover"}
    BY <1>1, <1>2, <1>14 DEF IInv, TimeStopValid, CleanupValid, PhaseInv, NoOwner
  <2>6. OwnerType'
    BY <2>2 DEF IInv, OwnerType
  <2>7. CleanupValid' /\ TimeStopValid'
    BY <1>3, <1>6, <2>2, <2>5 DEF IInv, CleanupValid, TimeStopValid, Current
  <2>8. DutyInv' /\ PhaseInv'
    BY <1>3, <1>10, <2>2, <2>5 DEF DutyInv, PhaseInv
  <2>9. DoneInv'
    BY <1>1, <1>2, <1>3, <2>2 DEF IInv, DoneInv
  <2> QED BY <1>3, <1>6, <1>10, <2>4, <2>6, <2>7, <2>8, <2>9 DEF IInv, WindowType
<1> QED
  BY <1>12, <1>13, <1>14

\* The legend rule's choice is answered.
LEMMA ChooseLegendKeeps == ASSUME IInv, ChooseLegend PROVE IInv'
<1>1. ~lost /\ legend
  BY DrivenStages DEF ChooseLegend
<1>2. /\ UNCHANGED <<owned, turn, active, extra, started, step, priority, passes, owed, stack,
                     hand, discard, effects, cleanup, timeStop, exempt, combat, halted>>
      /\ UNCHANGED window
  BY DEF ChooseLegend, clock, window, owners
<1>3. WindowType' /\ CheckpointType'
  BY <1>2, Windows, Checkpoint DEF ChooseLegend
<1>4. ClockType' /\ TurnKey' = TurnKey
  BY <1>2, ClockStays
<1>5. TableType' /\ OwnerType'
  BY <1>2, <1>3, TableTypes DEF IInv, TableType, OwnerType
<1>6. /\ timeStop.phase \notin {"expiration", "discard", "gameover"}
      /\ cleanup.phase \notin {"expiration", "discard", "gameover"}
  BY <1>1 DEF IInv, TimeStopValid, CleanupValid, PhaseInv, NoOwner
<1>7. CleanupValid' /\ TimeStopValid'
  BY <1>2, <1>4, <1>6 DEF IInv, CleanupValid, TimeStopValid, Current
<1>8. DutyInv' /\ PhaseInv'
  BY <1>2, <1>4, <1>6 DEF IInv, DutyInv, PhaseInv, BothPassed
<1>9. DoneInv'
  BY <1>1, <1>2 DEF IInv, DoneInv
<1> QED
  BY <1>2, <1>3, <1>4, <1>5, <1>7, <1>8, <1>9 DEF IInv, WindowType

-----------------------------------------------------------------------------
(* The invariant.                                                          *)

\* A game begins in it.
LEMMA InitIInv == Init => IInv
<1> SUFFICES ASSUME Init PROVE IInv
  OBVIOUS
<1>1. ClockType
  BY TurnLoopAssumption DEF Init, ClockType, Players
<1>2. NoCombat \in Combats /\ NoCombat.damage = "before"
  BY DEF NoCombat, Combats
<1>3. TableType
  <2>1. passes \in [Players -> BOOLEAN] /\ hand \in [Players -> Nat]
    BY TurnLoopAssumption DEF Init, NobodyPassed
  <2>2. stack \in Seq(Items) /\ triggers \in Seq(TriggerKinds)
    BY DEF Init
  <2>3. /\ step \in Steps /\ priority \in Players /\ owed \in SUBSET Players
        /\ discard \in Nat /\ effects \in SUBSET Effects /\ budget \in Nat
    BY TurnLoopAssumption DEF Init, Players, Steps
  <2>4. legend \in BOOLEAN /\ lost \in BOOLEAN /\ halted \in BOOLEAN /\ combat \in Combats
    BY <1>2 DEF Init
  <2> QED BY <2>1, <2>2, <2>3, <2>4 DEF TableType
<1>4. OwnerType /\ CleanupValid /\ TimeStopValid
  BY DEF Init, OwnerType, CleanupValid, TimeStopValid
<1>5. PassInv
  BY DEF Init, PassInv, NobodyPassed
<1>6. DutyInv /\ PhaseInv /\ DoneInv
  BY <1>2 DEF Init, DutyInv, PhaseInv, DoneInv, NoOwner
<1> QED
  BY <1>1, <1>3, <1>4, <1>5, <1>6 DEF IInv, Init

\* Standing still keeps it.
LEMMA StillKeeps == ASSUME IInv, UNCHANGED vars PROVE IInv'
<1>1. ClockType' /\ TableType' /\ OwnerType' /\ ~halted' /\ PassInv'
  BY DEF vars, IInv, ClockType, TableType, OwnerType, PassInv
<1>2. TurnKey' = TurnKey /\ Excess' = Excess /\ WithinLimit' = WithinLimit
  BY DEF vars, TurnKey, Excess, Surplus, WithinLimit
<1>3. CleanupValid' /\ TimeStopValid'
  BY <1>2 DEF vars, IInv, CleanupValid, TimeStopValid, Current
<1>4. DutyInv' /\ PhaseInv' /\ DoneInv'
  BY <1>2 DEF vars, IInv, DutyInv, PhaseInv, DoneInv, BothPassed
<1> QED
  BY <1>1, <1>3, <1>4 DEF IInv

\* Every iteration of the loop and every answer keeps it.
LEMMA NextIInv == ASSUME IInv, [Next]_vars PROVE IInv'
<1>1. ASSUME Loop PROVE IInv'
  BY <1>1, AdvanceStepKeeps, NextTurnKeeps, RepeatCleanupKeeps, BeginCleanupKeeps,
     RepeatOwnedCleanupKeeps, ExpireKeeps, DisposeKeeps, BeforeCleanupKeeps, StopExpireKeeps,
     StopRepeatKeeps, NormalWaveKeeps, PlaceTriggerKeeps, DropTriggerKeeps, ResolveKeeps
  DEF Loop
<1>2. ASSUME Answer PROVE IInv'
  BY <1>2, PassKeeps, CastKeeps, SpecialActionKeeps, ActivateManaKeeps, DiscardKeeps,
     ChooseLegendKeeps, DealDamageKeeps, DeclareAttackersKeeps, DeclareBlockersKeeps,
     ChooseMadnessKeeps
  DEF Answer
<1>3. ASSUME Stop PROVE IInv'
  BY <1>3, StillKeeps DEF Stop
<1> QED
  BY <1>1, <1>2, <1>3, StillKeeps DEF Next, Step

\* The inductive invariant holds in every state of every game.
THEOREM Inductive == Spec => []IInv
  BY InitIInv, NextIInv, PTL DEF Spec

\* NeverRefused: begin, drive, repeat and dispose of the two cleanup records
\* refuse no state the engine produces, and a decision is only asked for while
\* both records belong to the turn in progress.
THEOREM RecordsNeverRefuse == Spec => []NeverRefused
<1>1. IInv => NeverRefused
  BY DEF IInv, NeverRefused
<1> QED
  BY <1>1, Inductive, PTL

-----------------------------------------------------------------------------
(* Windows.                                                                *)

\* Once both players have passed nobody is owed a chance to respond.
LEMMA NothingOwed == ASSUME IInv, BothPassed PROVE owed = {}
  BY DEF IInv, PassInv, BothPassed, TableType

\* At a step boundary a window only closes on two passes.
LEMMA BoundaryCloses ==
  ASSUME IInv, Stage = "advance", UNCHANGED stack, WindowCloses
  PROVE  owed = {}
<1>1. ~(Len(stack') < Len(stack))
  BY Boundary
<1>2. GrantsPriority(step) \/ InCleanupWindow
  BY <1>1 DEF WindowCloses, InCleanupWindow
<1> QED
  BY <1>2, Boundary, NothingOwed

\* What keeps the stack from shrinking and leaves the step and the records
\* alone closes no window.
LEMMA NothingCloses ==
  ASSUME IInv, UNCHANGED <<step, cleanup, timeStop>>,
         stack' = stack \/ \E item : stack' = Append(stack, item)
  PROVE  ~WindowCloses
<1>1. Len(stack) \in Nat /\ (Len(stack') = Len(stack) \/ Len(stack') = Len(stack) + 1)
  BY CombatFacts
<1> QED
  BY <1>1 DEF WindowCloses

\* One step of the loop closes a window only when nobody is owed anything.
LEMMA StepCloses == ASSUME IInv, Next, WindowCloses PROVE owed = {}
<1>1. CASE AdvanceStep \/ NextTurn \/ RepeatCleanup
  BY <1>1, BoundaryCloses DEF AdvanceStep, NextTurn, RepeatCleanup, OrdinaryAdvance, Enter
<1>2. CASE BeginCleanup \/ RepeatOwnedCleanup \/ StopRepeat \/ NormalWave
  BY <1>2, BoundaryCloses DEF BeginCleanup, RepeatOwnedCleanup, StopRepeat, NormalWave, Halt
<1>3. CASE Expire
  <2>1. cleanup.phase = "expiration" /\ cleanup # NoOwner
    BY <1>3, DrivenStages DEF Expire, NoOwner
  <2>2. step = "Cleanup" /\ timeStop = NoOwner
    BY <2>1 DEF IInv, CleanupValid
  <2>3. stack' = stack
    BY <1>3 DEF Expire, Halt, ExpireEffects
  <2>4. ~(Len(stack') < Len(stack))
    BY <2>3, CombatFacts
  <2> QED BY <2>1, <2>2, <2>4 DEF WindowCloses, GrantsPriority, NoOwner
<1>4. CASE StopExpire
  <2>1. timeStop.phase = "expiration" /\ timeStop # NoOwner
    BY <1>4, DrivenStages DEF StopExpire, NoOwner
  <2>2. step = "Cleanup" /\ cleanup = NoOwner
    BY <2>1, StopExcludesCleanup
  <2>3. stack' = stack
    BY <1>4 DEF StopExpire, Halt, ExpireEffects
  <2>4. ~(Len(stack') < Len(stack))
    BY <2>3, CombatFacts
  <2> QED BY <2>1, <2>2, <2>4 DEF WindowCloses, GrantsPriority, NoOwner
<1>5. CASE Dispose \/ Resolve \/ ChooseMadness
  BY <1>5, StageFacts, NothingOwed DEF Dispose, Resolve, ChooseMadness
<1>6. CASE BeforeCleanup
  <2>1. timeStop.phase = "before"
    BY <1>6, DrivenStages DEF BeforeCleanup
  <2> QED BY <2>1, NothingOwed DEF IInv, PhaseInv
<1>7. CASE PlaceTrigger \/ DropTrigger \/ Cast
  <2>1. stack' = stack \/ \E item : stack' = Append(stack, item)
    BY <1>7 DEF PlaceTrigger, DropTrigger, Cast
  <2>2. UNCHANGED <<step, cleanup, timeStop>>
    BY <1>7 DEF PlaceTrigger, DropTrigger, Cast, owners
  <2> QED BY <2>1, <2>2, NothingCloses
<1>8. CASE Pass \/ SpecialAction \/ ActivateMana \/ ChooseLegend
  BY <1>8, NothingCloses DEF Pass, SpecialAction, ActivateMana, ChooseLegend, owners
<1>9. CASE DealDamage \/ DeclareAttackers \/ DeclareBlockers
  BY <1>9, NothingCloses DEF DealDamage, DeclareAttackers, DeclareBlockers, owners
<1>10. CASE Discard
  <2>1. stack' = stack /\ step' = step
    BY <1>10 DEF Discard
  <2>2. timeStop' = timeStop \/ timeStop.phase = "discard"
    BY <1>10 DEF Discard
  <2>3. cleanup' = cleanup \/ cleanup.phase = "discard"
    BY <1>10 DEF Discard
  <2>4. ~(Len(stack') < Len(stack))
    BY <2>1, CombatFacts
  <2> QED BY <2>1, <2>2, <2>3, <2>4 DEF WindowCloses
<1>11. CASE Stop
  BY <1>11, NothingCloses DEF Stop, vars
<1> QED
  BY <1>1, <1>2, <1>3, <1>4, <1>5, <1>6, <1>7, <1>8, <1>9, <1>10, <1>11 DEF Next, Step, Loop, Answer

\* NoWindowSkipped: nothing resolves and no window closes before both players
\* have passed since the game last changed, whichever of the engine's loops
\* and answers set or cleared the pass flags on the way.
THEOREM WindowsAreKept == Spec => NoWindowSkipped
<1>1. IInv /\ [Next]_vars => [WindowCloses => owed = {}]_vars
  BY StepCloses
<1> QED
  BY <1>1, Inductive, PTL DEF Spec, NoWindowSkipped

-----------------------------------------------------------------------------
(* The end of a turn, and the order of turns.                              *)

\* Which steps touch the clock.
LEMMA ClockSteps ==
  ASSUME Next
  PROVE  NextTurn \/ (Resolve /\ UNCHANGED <<turn, active, started>>)
         \/ UNCHANGED <<turn, active, extra, started>>
<1>1. CASE AdvanceStep \/ RepeatCleanup \/ BeginCleanup \/ RepeatOwnedCleanup
  BY <1>1 DEF AdvanceStep, RepeatCleanup, BeginCleanup, RepeatOwnedCleanup, Halt, clock
<1>2. CASE Expire \/ StopExpire
  BY <1>2 DEF Expire, StopExpire, ExpireEffects, Halt, clock
<1>3. CASE Dispose \/ BeforeCleanup \/ StopRepeat \/ NormalWave
  BY <1>3 DEF Dispose, BeforeCleanup, StopRepeat, NormalWave, Halt, clock
<1>4. CASE PlaceTrigger \/ DropTrigger \/ Pass \/ Cast \/ SpecialAction \/ ActivateMana
  BY <1>4 DEF PlaceTrigger, DropTrigger, Pass, Cast, SpecialAction, ActivateMana, clock
<1>5. CASE Discard \/ ChooseLegend \/ DealDamage \/ DeclareAttackers \/ DeclareBlockers \/ ChooseMadness
  BY <1>5 DEF Discard, ChooseLegend, DealDamage, DeclareAttackers, DeclareBlockers, ChooseMadness, clock
<1>6. CASE Stop
  BY <1>6 DEF Stop, vars
<1>7. CASE Resolve
  BY <1>7 DEF Resolve
<1> QED
  BY <1>1, <1>2, <1>3, <1>4, <1>5, <1>6, <1>7 DEF Next, Step, Loop, Answer

\* What is left when the next turn begins.
LEMMA CleanEnd ==
  ASSUME IInv, NextTurn
  PROVE  /\ stack = <<>> /\ triggers = <<>> /\ ~legend /\ discard = 0
         /\ cleanup = NoOwner /\ timeStop = NoOwner
         /\ effects \cap Repeating = {}
         /\ owned => effects = {} /\ (hand[active] <= MaxHand \/ exempt)
<1>1. Stage = "advance" /\ ~InCleanupWindow /\ ~RepeatsCleanup /\ step = "Cleanup"
  BY DEF NextTurn, OrdinaryAdvance
<1>2. /\ stack = <<>> /\ triggers = <<>> /\ ~legend /\ discard = 0 /\ ~lost
      /\ cleanup = NoOwner /\ timeStop = NoOwner
  BY <1>1, Boundary DEF Calm
<1>3. effects \cap Repeating = {}
  BY <1>1 DEF RepeatsCleanup
<1>4. owned => effects = {} /\ (hand[active] <= MaxHand \/ exempt)
  BY <1>1, <1>2 DEF IInv, DoneInv, WithinLimit
<1> QED
  BY <1>2, <1>3, <1>4

\* TurnEndsClean: however a turn was cleaned up, the next one begins with
\* nothing of it left over.
THEOREM TurnsEndClean == Spec => TurnEndsClean
<1>1. ASSUME IInv, [Next]_vars, started' # started
      PROVE  /\ stack = <<>> /\ triggers = <<>> /\ ~legend /\ discard = 0
             /\ cleanup = NoOwner /\ timeStop = NoOwner
             /\ effects \cap Repeating = {}
             /\ owned => effects = {} /\ (hand[active] <= MaxHand \/ exempt)
  <2>1. NextTurn
    BY <1>1, ClockSteps DEF vars
  <2> QED BY <1>1, <2>1, CleanEnd
<1> QED
  BY <1>1, Inductive, PTL DEF Spec, TurnEndsClean

\* The first turn of the game is the first of the abstract order.
LEMMA OrderInit == ASSUME Init PROVE Order!Init
<1>1. extra = NoExtra /\ active = Starting /\ turn = 1
  BY DEF Init
<1>2. InitialOwnTurns = [p \in {0, 1} |-> IF p = Starting THEN 1 ELSE 0]
  BY <1>1 DEF InitialOwnTurns, Players
<1> QED
  BY <1>1, <1>2 DEF Order!Init, Order!Seats, Opponent

\* Before the first promotion the round counter stands for the turns begun.
LEMMA PlainTurn ==
  ASSUME IInv, extra = NoExtra, extra' = NoExtra, active' = Opponent(active),
         turn' = IF Opponent(active) = Starting THEN turn + 1 ELSE turn
  PROVE  InitialOwnTurns' = [InitialOwnTurns EXCEPT ![Opponent(active)] = @ + 1]
<1>1. active \in {0, 1} /\ turn \in Nat \ {0} /\ Starting \in {0, 1}
  BY TurnLoopAssumption DEF IInv, ClockType, Players
<1>2. CASE active = Starting
  <2>1. active' = 1 - active /\ active' # Starting /\ turn' = turn
    BY <1>1, <1>2 DEF Opponent
  <2>2. InitialOwnTurns' = [p \in {0, 1} |-> turn]
    BY <2>1 DEF InitialOwnTurns, Players
  <2>3. InitialOwnTurns = [p \in {0, 1} |-> IF p # active THEN turn - 1 ELSE turn]
    BY <1>2 DEF InitialOwnTurns, Players
  <2> QED BY <1>1, <1>2, <2>2, <2>3 DEF Opponent
<1>3. CASE active # Starting
  <2>1. active' = Starting /\ 1 - active = Starting /\ turn' = turn + 1
    BY <1>1, <1>3 DEF Opponent
  <2>2. InitialOwnTurns' = [p \in {0, 1} |-> IF p # Starting THEN turn ELSE turn + 1]
    BY <1>1, <2>1 DEF InitialOwnTurns, Players
  <2>3. InitialOwnTurns = [p \in {0, 1} |-> turn]
    BY <1>3 DEF InitialOwnTurns, Players
  <2> QED BY <1>1, <2>1, <2>2, <2>3 DEF Opponent
<1> QED
  BY <1>2, <1>3

\* A turn begun is a turn of the abstract order, extra or regular.
LEMMA NextTurnOrders == ASSUME IInv, NextTurn PROVE Order!Next
<1>1. BeginNextTurn
  BY DEF NextTurn
<1>2. CASE extra = NoExtra
  <2>1. /\ active' = Opponent(active) /\ extra' = NoExtra
        /\ turn' = IF Opponent(active) = Starting THEN turn + 1 ELSE turn
    BY <1>1, <1>2 DEF BeginNextTurn
  <2>2. InitialOwnTurns' = [InitialOwnTurns EXCEPT ![Opponent(active)] = @ + 1]
    BY <1>2, <2>1, PlainTurn
  <2>3. Opponent(active)' = 1 - Opponent(active)
    BY <2>1 DEF Opponent
  <2>4. Order!RegularTurn
    BY <1>2, <2>1, <2>2, <2>3 DEF Order!RegularTurn
  <2> QED BY <2>4 DEF Order!Next
<1>3. CASE extra # NoExtra
  <2>1. /\ active' = NextScheduled.taker /\ extra' = NextScheduled.extra
        /\ turn' = NextScheduled.round
    BY <1>1, <1>3 DEF BeginNextTurn
  <2>2. extra' # NoExtra /\ extra \in Schedulers
    BY <1>3, <2>1, NextScheduledFacts, ExtraFacts
  <2>3. extra'.own = [extra.own EXCEPT ![active'] = @ + 1]
    BY <1>3, <2>1, NextScheduledFacts
  <2>4. CASE extra.queued # <<>>
    <3>1. /\ active' = Last(extra.queued) /\ turn' = turn
          /\ extra'.queued = Front(extra.queued) /\ extra'.regular = extra.regular
      BY <1>3, <2>1, <2>4, NextScheduledFacts
    <3>2. Order!ExtraTurn
      BY <1>3, <2>2, <2>3, <2>4, <3>1 DEF Order!ExtraTurn, Last, Front
    <3> QED BY <3>2 DEF Order!Next
  <2>5. CASE extra.queued = <<>>
    <3>1. /\ active' = extra.regular
          /\ turn' = (IF extra.regular = Starting THEN turn + 1 ELSE turn)
          /\ extra'.queued = <<>> /\ extra'.regular = Opponent(extra.regular)
      BY <1>3, <2>1, <2>5, NextScheduledFacts
    <3>2. Order!RegularTurn
      BY <1>3, <2>2, <2>3, <2>5, <3>1 DEF Order!RegularTurn, Opponent
    <3> QED BY <3>2 DEF Order!Next
  <2> QED BY <2>4, <2>5
<1> QED
  BY <1>2, <1>3

\* A resolved extra-turn spell is a promise; any other resolution is none.
LEMMA ResolveOrders ==
  ASSUME IInv, Resolve, UNCHANGED <<turn, active, started>>
  PROVE  Order!Next \/ UNCHANGED Order!order
<1>1. stack # <<>> /\ stack \in Seq(Items)
  BY StageFacts, CombatFacts DEF Resolve
<1>2. Last(stack) \in Items
  BY <1>1 DEF Last
<1>3. Last(stack)[2] \in Players
  BY <1>2 DEF Items
<1>4. Schedule(Last(stack)[2]) \/ UNCHANGED extra
  BY DEF Resolve
<1>5. CASE UNCHANGED extra
  BY <1>5 DEF Order!order, InitialOwnTurns
<1>6. CASE Schedule(Last(stack)[2])
  <2>1. PICK p \in Players : p = Last(stack)[2]
    BY <1>3
  <2>2. /\ extra' \in Schedulers
        /\ extra'.queued = Append(IF extra = NoExtra THEN <<>> ELSE extra.queued, p)
        /\ extra'.regular = (IF extra = NoExtra THEN Opponent(active) ELSE extra.regular)
        /\ extra'.own = (IF extra = NoExtra THEN InitialOwnTurns ELSE extra.own)
    BY <1>6, <2>1, ScheduleFacts
  <2>3. extra' # NoExtra
    BY <2>2, ExtraFacts
  <2>4. Order!Promise(p)
    BY <2>2, <2>3 DEF Order!Promise
  <2> QED BY <2>1, <2>4 DEF Order!Next, Order!Seats, Players
<1> QED
  BY <1>4, <1>5, <1>6

\* ImplementsTurnOrder: turns are taken in the promised order, the latest
\* promise first, and the scheduler that comes into being in the middle of a
\* game loses and invents no turn.
THEOREM TurnOrderRefines == Spec => ImplementsTurnOrder
<1>1. Init => Order!Init
  BY OrderInit
<1>2. IInv /\ [Next]_vars => [Order!Next]_(Order!order)
  <2> SUFFICES ASSUME IInv, [Next]_vars
               PROVE  Order!Next \/ UNCHANGED Order!order
    OBVIOUS
  <2>1. CASE NextTurn
    BY <2>1, NextTurnOrders
  <2>2. CASE Resolve /\ UNCHANGED <<turn, active, started>>
    BY <2>2, ResolveOrders
  <2>3. CASE UNCHANGED <<turn, active, extra, started>>
    BY <2>3 DEF Order!order, InitialOwnTurns
  <2> QED BY <2>1, <2>2, <2>3, ClockSteps DEF vars
<1> QED
  BY <1>1, <1>2, Inductive, PTL DEF Spec, ImplementsTurnOrder, Order!Spec
=============================================================================
