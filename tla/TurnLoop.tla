------------------------------ MODULE TurnLoop ------------------------------
(***************************************************************************)
(* The rules engine's outer loop: how a turn moves through its steps, how  *)
(* priority passes over the stack, how a turn is cleaned up and who takes  *)
(* the next one.  One action is one iteration of the loop of               *)
(* advance_without_linked_aura_v1, or one answer given to the decision it  *)
(* returned.                                                               *)
(*                                                                         *)
(* Cards are abstract: a stack item has a kind, a hand has a size, and     *)
(* what a resolution or a checkpoint brings about is chosen from the       *)
(* outcomes the loop tells apart.  The choices made while one spell is     *)
(* cast, paid for or resolved are not interruptible (step refuses every    *)
(* other action), so they are part of one step here.                       *)
(***************************************************************************)
EXTENDS Integers, Sequences, SequencesExt

CONSTANTS Starting,          \* the player on the play
          MaxHand,           \* the hand size a turn ends with (7 in the code)
          Lifters,           \* players who may come to control a Niv-Mizzet
          MaxTurns,          \* bound: turns of a behaviour
          MaxEvents          \* bound: casts, triggers, losses, ... of a behaviour

ASSUME TurnLoopAssumption == /\ Starting \in {0, 1}
                             /\ MaxHand \in Nat
                             /\ Lifters \subseteq {0, 1}
                             /\ MaxTurns \in Nat \ {0}
                             /\ MaxEvents \in Nat

VARIABLES
  owned,       \* the build: Foundations (every cleanup owned), or historical
  emblem,      \* players with an emblem "no maximum hand size" (historical)
  turn,        \* the round number
  step, active,
  extra,       \* ExtraTurnStateV1, or NoExtra before its first promotion
  priority, passes,
  stack,       \* items <<kind, controller>>, top last
  triggers,    \* kinds of the triggered abilities not placed yet
  legend,      \* a legend-rule choice is pending
  hand,        \* hand sizes
  unlimited,   \* players whose permanents lift their hand limit (Niv-Mizzet)
  discard,     \* cards the active player must still discard for cleanup
  effects,     \* kinds of the until-end-of-turn effects in force
  cleanup,     \* ordinary_cleanup_v1's current record
  timeStop,    \* time_stop_v1's current record
  exempt,      \* the last owned cleanup counted for a player without limit
  combat,
  lost, halted,
  budget,      \* events the behaviour may still contain
  started,     \* turns begun so far
  owed         \* players who have not passed since the game last changed

vars == <<owned, emblem, turn, step, active, extra, priority, passes, stack, triggers,
          legend, hand, unlimited, discard, effects, cleanup, timeStop, exempt,
          combat, lost, halted, budget, started, owed>>

clock == <<turn, active, extra, started>>
window == <<priority, passes, owed>>
owners == <<cleanup, timeStop, exempt>>
checkpoint == <<triggers, legend, lost, budget, unlimited>>

Players == {0, 1}
Opponent(p) == 1 - p

StepOrder == <<"Untap", "Upkeep", "Draw", "Main1", "BeginCombat",
               "DeclareAttackers", "DeclareBlockers", "CombatDamage",
               "EndCombat", "Main2", "End", "Cleanup">>

GrantsPriority(s) == s \notin {"Untap", "Cleanup"}

Position(s) == CHOOSE i \in DOMAIN StepOrder : StepOrder[i] = s

\* exile: ExileIfDiesUntilEndOfTurnV1; record: control, block and other
\* records the historical cleanup repeats for; plain: everything else
Effects == {"exile", "record", "plain"}
Repeating == {"exile", "record"}

NoExtra == [occurrence |-> 0]
NoOwner == [phase |-> "none"]
NoCombat == [declared |-> FALSE, blocked |-> FALSE, alive |-> FALSE,
             damage |-> "before"]

\* spells and abilities, extra-turn spells, and Time Stop
Kinds == {"spell", "extra", "stop"}

NobodyPassed == [p \in Players |-> FALSE]
BothPassed == \A p \in Players : passes[p]

\* turn_key_v1: the round, until the first extra turn is scheduled
TurnKey == IF extra = NoExtra THEN turn ELSE extra.occurrence

Owner(phase) == [phase |-> phase, key |-> TurnKey, active |-> active]

Init ==
  /\ owned \in BOOLEAN /\ emblem = {} /\ unlimited = {}
  /\ turn = 1 /\ step = "Untap" /\ active = Starting
  /\ extra = NoExtra
  /\ priority = Starting /\ passes = NobodyPassed /\ owed = Players
  /\ stack = <<>> /\ triggers = <<>> /\ legend = FALSE
  /\ hand = [p \in Players |-> MaxHand]
  /\ discard = 0 /\ effects = {}
  /\ cleanup = NoOwner /\ timeStop = NoOwner /\ exempt = FALSE
  /\ combat = NoCombat
  /\ lost = FALSE /\ halted = FALSE
  /\ budget = MaxEvents /\ started = 1

-----------------------------------------------------------------------------
(* Priority, checkpoints and the record checks.                            *)

\* the game has changed: everybody is owed a chance to respond
Owe == owed' = Players

\* reset_priority, for the player p whose turn it is
ResetPriority(p) == /\ passes' = NobodyPassed
                    /\ priority' = p
                    /\ Owe

\* an action taken with priority: its player keeps it
KeepPriority(p) == /\ passes' = NobodyPassed
                   /\ priority' = p
                   /\ Owe

\* collect_and_queue_triggers: state-based actions and triggers, on top of
\* those already waiting in queue; "limit": a permanent that lifts a hand limit
\* comes, goes, changes hands or loses its abilities
Happenings == {"quiet", "trigger", "legend", "loss", "limit"}

Cost(happening) == IF happening = "quiet" THEN 0 ELSE 1

Collect(happening, queue, spent) ==
  /\ Cost(happening) + spent <= budget
  /\ budget' = budget - Cost(happening) - spent
  /\ triggers' = IF happening = "trigger" THEN Append(queue, "plain") ELSE queue
  /\ legend' = (happening = "legend")
  /\ lost' = (happening = "loss")
  /\ unlimited' \in IF happening = "limit" THEN (SUBSET Lifters) \ {unlimited}
                                          ELSE {unlimited}

Halt == /\ halted' = TRUE
        /\ UNCHANGED <<owned, emblem, clock, step, window, stack, checkpoint, hand,
                       discard, effects, owners, combat>>

\* Cards above the maximum, when the players in free have none.
Surplus(free) == IF active \in free \/ hand[active] <= MaxHand
                 THEN 0 ELSE hand[active] - MaxHand

\* ordinary_cleanup_v1::discard_count
Excess == Surplus(unlimited)

Current(owner) == owner.key = TurnKey /\ owner.active = active

\* ordinary_cleanup_v1::validate
CleanupValid ==
  cleanup # NoOwner =>
    /\ timeStop = NoOwner /\ Current(cleanup) /\ step = "Cleanup"
    /\ cleanup.phase = "discard" =>
         discard > 0 /\ discard = Excess /\ stack = <<>>
    /\ cleanup.phase = "expiration" =>
         discard = 0 /\ Excess = 0 /\ stack = <<>> /\ passes = NobodyPassed
    /\ cleanup.phase = "gameover" => lost

\* time_stop_v1::validate
TimeStopValid ==
  timeStop # NoOwner =>
    /\ Current(timeStop)
    /\ timeStop.phase \notin {"before", "gameover"} => step = "Cleanup"
    /\ timeStop.phase = "discard" => discard > 0 /\ discard = Excess
    /\ timeStop.phase = "expiration" => discard = 0
    /\ timeStop.phase = "gameover" => lost

\* The first thing the loop finds to do, in its order.
Stage ==
  IF lost THEN "over"
  ELSE IF halted THEN "halted"
  ELSE IF timeStop.phase = "before" /\ ~legend THEN "time_stop"
  ELSE IF timeStop.phase = "expiration" THEN "time_stop_expire"
  ELSE IF cleanup.phase = "expiration" THEN "expire"
  ELSE IF legend THEN "legend"
  ELSE IF combat.damage \in {"first_pending", "normal_pending"} THEN "damage"
  ELSE IF discard > 0 THEN "discard"
  ELSE IF triggers # <<>> THEN "place"
  ELSE IF step = "DeclareAttackers" /\ ~combat.declared THEN "attackers"
  ELSE IF step = "DeclareBlockers" /\ ~combat.blocked THEN "blockers"
  ELSE IF /\ ~GrantsPriority(step) /\ stack = <<>>
          /\ timeStop.phase # "priority" /\ cleanup.phase # "priority"
       THEN "advance"
  ELSE IF ~BothPassed THEN "priority"
  ELSE IF stack = <<>> THEN "advance"
  ELSE IF Last(stack)[1] = "madness" THEN "madness"
  ELSE "resolve"
-----------------------------------------------------------------------------
(* Extra turns and the step boundary.                                      *)

\* initial_own_turns: turns begun by each player before the first promotion
InitialOwnTurns ==
  [p \in Players |-> IF active = Starting /\ p # active THEN turn - 1 ELSE turn]

\* extra_turn_v1::schedule_owned
Schedule(p) ==
  LET initial == [occurrence |-> turn, own |-> InitialOwnTurns,
                  regular |-> Opponent(active), queued |-> <<>>,
                  original |-> turn = 1 /\ active = Starting]
      current == IF extra = NoExtra THEN initial ELSE extra
  IN  extra' = [current EXCEPT !.queued = Append(@, p)]

\* Mutant: an extra turn also uses up the regular turn of its taker.
NextScheduled_FlipsRegular ==
  LET taker == IF extra.queued # <<>> THEN Last(extra.queued) ELSE extra.regular
      after == [extra EXCEPT !.occurrence = @ + 1, !.original = FALSE,
                             !.own[taker] = @ + 1, !.regular = Opponent(taker)]
  IN  IF extra.queued # <<>>
      THEN [taker |-> taker, round |-> turn,
            extra |-> [after EXCEPT !.queued = Front(@)]]
      ELSE [taker |-> taker, extra |-> after,
            round |-> IF taker = Starting THEN turn + 1 ELSE turn]

\* extra_turn_v1::next
NextScheduled ==
  LET taker == IF extra.queued # <<>> THEN Last(extra.queued) ELSE extra.regular
      after == [extra EXCEPT !.occurrence = @ + 1, !.original = FALSE,
                             !.own[taker] = @ + 1]
  IN  IF extra.queued # <<>>
      THEN [taker |-> taker, round |-> turn,
            extra |-> [after EXCEPT !.queued = Front(@)]]
      ELSE [taker |-> taker,
            round |-> IF taker = Starting THEN turn + 1 ELSE turn,
            extra |-> [after EXCEPT !.regular = Opponent(taker)]]

\* The turn flip of advance_step: extra_turn_v1::begin_next_turn once a
\* scheduler exists, the alternation of the rounds before.
BeginNextTurn ==
  LET plain == [taker |-> Opponent(active), extra |-> NoExtra,
                round |-> IF Opponent(active) = Starting THEN turn + 1 ELSE turn]
      next == IF extra = NoExtra THEN plain ELSE NextScheduled
  IN  /\ active' = next.taker
      /\ turn' = next.round
      /\ extra' = next.extra
      /\ started' = started + 1

\* run_step_entry_action for Draw
FirstTurnOfTheGame == /\ turn = 1 /\ active = Starting
                      /\ extra = NoExtra \/ extra.original

DrawStep(h) ==
  IF FirstTurnOfTheGame
  THEN h = "quiet" /\ UNCHANGED <<hand, checkpoint>>
  ELSE /\ hand' = [hand EXCEPT ![active] = @ + 1]
       /\ Collect(h, triggers, 0)

\* run_step_entry_action for the historical Cleanup: effects end first (which
\* may change a limit), then the discard is staged; Niv-Mizzet counts as it was
\* at entry, and so do emblems
CleanupStep(h) == /\ h \in {"quiet", "limit"}
                  /\ Collect(h, triggers, 0)
                  /\ effects' = {}
                  /\ discard' = Surplus(unlimited \cup emblem)

\* the rest of run_step_entry_action: what entering step s does to combat
CombatEntry(s, strikers) ==
  combat' = CASE s \in {"BeginCombat", "Main2"} -> NoCombat
              [] s = "CombatDamage" /\ owned ->
                   [combat EXCEPT !.damage = IF strikers THEN "first_pending"
                                                         ELSE "normal_pending"]
              [] OTHER -> combat

\* steps whose entry ends with a trigger checkpoint
Checks(s) == \/ s \in {"Upkeep", "Main1", "End"}
             \/ s = "BeginCombat" /\ owned
             \/ s = "CombatDamage" /\ ~owned

\* advance_step from the step that ended to the step s
Enter(s, h, strikers) ==
  /\ step' = s
  /\ CombatEntry(s, strikers)
  /\ strikers => s = "CombatDamage" /\ owned
  /\ CASE s = "Draw" -> DrawStep(h) /\ UNCHANGED <<discard, effects>>
       [] s = "Cleanup" -> CleanupStep(h) /\ UNCHANGED hand
       [] Checks(s) -> Collect(h, triggers, 0) /\ UNCHANGED <<hand, discard, effects>>
       [] OTHER -> h = "quiet" /\ UNCHANGED <<hand, discard, effects, checkpoint>>
  /\ ResetPriority(active')
  /\ UNCHANGED <<owned, emblem, stack, owners, halted>>

\* blockers are skipped when no declared attacker is still in combat
Successor == IF step = "DeclareAttackers" /\ ~combat.alive
             THEN "EndCombat"
             ELSE StepOrder[Position(step) + 1]

\* Mutant: the cleanup is repeated whatever is left of the turn.
RepeatsCleanup_Always == step = "Cleanup"

RepeatsCleanup == step = "Cleanup" /\ effects \cap Repeating # {}

\* Mutant: only the exile replacement takes the cleanup over, as before.
OwnsCleanup_HistoricalOnly == step = "End" /\ "exile" \in effects

OwnsCleanup == step = "End" /\ (owned \/ "exile" \in effects)

InCleanupWindow == "priority" \in {cleanup.phase, timeStop.phase}

OrdinaryAdvance == /\ Stage = "advance"
                   /\ ~InCleanupWindow /\ ~OwnsCleanup /\ ~RepeatsCleanup

AdvanceStep ==
  /\ OrdinaryAdvance
  /\ step # "Cleanup"
  /\ ~(step = "CombatDamage" /\ combat.damage = "first")
  /\ UNCHANGED clock
  /\ \E h \in Happenings, strikers \in BOOLEAN : Enter(Successor, h, strikers)

NextTurn == /\ OrdinaryAdvance
            /\ step = "Cleanup" /\ started < MaxTurns
            /\ BeginNextTurn
            /\ Enter("Untap", "quiet", FALSE)

\* 514.3a: a fresh record makes the historical cleanup happen again
RepeatCleanup == /\ Stage = "advance" /\ ~InCleanupWindow /\ RepeatsCleanup
                 /\ UNCHANGED clock
                 /\ \E h \in Happenings : Enter("Cleanup", h, FALSE)

-----------------------------------------------------------------------------
(* Owned cleanup: ordinary_cleanup_v1.                                     *)

\* Mutant: the passes that closed the window stand through the cleanup.
StartDiscard_KeepsWindow(owner) ==
  /\ UNCHANGED window
  /\ discard' = Excess /\ exempt' = (active \in unlimited)
  /\ cleanup' = [owner EXCEPT !.phase = IF Excess > 0 THEN "discard" ELSE "expiration"]

\* start_discard: reset the window, then the discard or the expiration
StartDiscard(owner) ==
  /\ ResetPriority(active)
  /\ discard' = Excess /\ exempt' = (active \in unlimited)
  /\ cleanup' = [owner EXCEPT !.phase = IF Excess > 0 THEN "discard" ELSE "expiration"]

BeginAdmits == /\ cleanup = NoOwner /\ timeStop = NoOwner
               /\ stack = <<>> /\ BothPassed /\ discard = 0
               /\ triggers = <<>> /\ ~legend

BeginCleanup ==
  /\ Stage = "advance" /\ ~InCleanupWindow /\ OwnsCleanup
  /\ IF BeginAdmits
     THEN /\ step' = "Cleanup"
          /\ StartDiscard(Owner("expiration"))
          /\ UNCHANGED <<owned, emblem, clock, stack, checkpoint, hand, effects,
                         timeStop, combat, halted>>
     ELSE Halt

RepeatAdmits == /\ CleanupValid /\ stack = <<>> /\ BothPassed
                /\ triggers = <<>> /\ ~legend

RepeatOwnedCleanup ==
  /\ Stage = "advance" /\ cleanup.phase = "priority"
  /\ IF RepeatAdmits
     THEN /\ StartDiscard(cleanup)
          /\ UNCHANGED <<owned, emblem, clock, step, stack, checkpoint, hand, effects,
                         timeStop, combat, halted>>
     ELSE Halt

\* The phase after a cleanup in which h happened: another priority window if
\* anything did, else this cleanup is the last.
AfterExpiry(h) == CASE h = "loss" -> "gameover"
                    [] h \in {"quiet", "limit"} /\ triggers = <<>> -> "none"
                    [] OTHER -> "priority"

\* expire_cleanup_effects_v1 and the checkpoint after it
ExpireEffects(h) ==
  /\ effects' = {}
  /\ IF h = "sba" THEN /\ budget > 0
                       /\ budget' = budget - 1
                       /\ unlimited' \in SUBSET Lifters
                       /\ UNCHANGED <<triggers, legend, lost>>
                  ELSE Collect(h, triggers, 0)
  /\ IF AfterExpiry(h) = "priority" THEN ResetPriority(active) ELSE UNCHANGED window
  /\ UNCHANGED <<owned, emblem, clock, step, stack, hand, discard, exempt, combat, halted>>

InPhase(owner, phase) == IF phase = "none" THEN NoOwner
                                           ELSE [owner EXCEPT !.phase = phase]

\* ordinary_cleanup_v1::drive
Expire ==
  /\ Stage = "expire"
  /\ IF CleanupValid
     THEN \E h \in Happenings \cup {"sba"} :
            /\ ExpireEffects(h)
            /\ cleanup' = InPhase(cleanup, AfterExpiry(h))
            /\ UNCHANGED timeStop
     ELSE Halt

-----------------------------------------------------------------------------
(* Ending the turn: time_stop_v1.                                          *)

DisposeAdmits == /\ discard = 0 /\ triggers = <<>> /\ ~legend /\ BothPassed
                 /\ cleanup.phase \in {"none", "priority"}

\* dispose_stack: the whole stack is exiled; an ordinary cleanup window is
\* replaced; no priority, no checkpoint
Dispose ==
  /\ Stage = "resolve" /\ Last(stack)[1] = "stop"
  /\ IF DisposeAdmits /\ CleanupValid /\ TimeStopValid
     THEN /\ stack' = <<>>
          /\ cleanup' = NoOwner
          /\ timeStop' = Owner("before")
          /\ UNCHANGED <<owned, emblem, clock, step, window, checkpoint, hand, discard,
                         effects, exempt, combat, halted>>
     ELSE Halt

\* time_stop_v1::start_discard
StopDiscard(free) ==
  /\ discard' = Surplus(free) /\ exempt' = (active \in free)
  /\ timeStop' = [timeStop EXCEPT !.phase =
                    IF Surplus(free) > 0 THEN "discard" ELSE "expiration"]

\* before_cleanup: state-based actions, then straight to the cleanup step
BeforeCleanup ==
  /\ Stage = "time_stop"
  /\ IF TimeStopValid
     THEN /\ \E h \in Happenings :
               /\ Collect(h, triggers, 0)
               /\ CASE h = "loss" ->
                         /\ timeStop' = [timeStop EXCEPT !.phase = "gameover"]
                         /\ UNCHANGED <<step, combat, discard, exempt>>
                    [] h = "legend" -> UNCHANGED <<timeStop, step, combat, discard, exempt>>
                    [] OTHER -> /\ step' = "Cleanup" /\ combat' = NoCombat
                                /\ StopDiscard(unlimited')
          /\ UNCHANGED <<owned, emblem, clock, window, stack, hand, effects, cleanup, halted>>
     ELSE Halt

StopExpire ==
  /\ Stage = "time_stop_expire"
  /\ IF TimeStopValid /\ discard = 0
     THEN \E h \in Happenings \cup {"sba"} :
            /\ ExpireEffects(h)
            /\ timeStop' = InPhase(timeStop, AfterExpiry(h))
            /\ UNCHANGED cleanup
     ELSE Halt

\* leave_cleanup: the window of an ended turn's cleanup closes
StopRepeat ==
  /\ Stage = "advance" /\ timeStop.phase = "priority"
  /\ IF TimeStopValid /\ stack = <<>> /\ BothPassed /\ triggers = <<>>
     THEN /\ StopDiscard(unlimited)
          /\ UNCHANGED <<owned, emblem, clock, step, window, stack, checkpoint, hand,
                         effects, cleanup, combat, halted>>
     ELSE Halt

-----------------------------------------------------------------------------
(* Decisions and their answers.                                            *)

\* The active player discards down to the hand size; a discarded card with
\* madness is exiled and its offer waits to be placed.
Discard ==
  /\ Stage = "discard"
  /\ hand' = [hand EXCEPT ![active] = @ - discard]
  /\ discard' = 0
  /\ \E madness \in 0..discard :
       LET queue == triggers \o [i \in 1..madness |-> "madness"]
       IN  CASE timeStop.phase = "discard" ->
                  /\ timeStop' = [timeStop EXCEPT !.phase = "expiration"]
                  /\ Collect("quiet", queue, madness) /\ UNCHANGED cleanup
             [] cleanup.phase = "discard" ->
                  /\ cleanup' = [cleanup EXCEPT !.phase = "expiration"]
                  /\ Collect("quiet", queue, madness) /\ UNCHANGED timeStop
             [] OTHER -> /\ \E h \in Happenings : Collect(h, queue, madness)
                         /\ UNCHANGED <<cleanup, timeStop>>
  /\ UNCHANGED <<owned, emblem, clock, step, window, stack, effects, exempt, combat, halted>>

\* legend_rule_v1: the choice is answered, the others go, and the checkpoint
\* is repeated
ChooseLegend ==
  /\ Stage = "legend"
  /\ \E h \in Happenings : Collect(h, triggers, 0)
  /\ UNCHANGED <<owned, emblem, clock, step, window, stack, hand, discard, effects,
                 owners, combat, halted>>

\* combat_damage_v1: the assigned wave is dealt
DealDamage ==
  /\ Stage = "damage"
  /\ combat' = [combat EXCEPT !.damage =
                  IF @ = "first_pending" THEN "first" ELSE "normal"]
  /\ \E h \in Happenings : Collect(h, triggers, 0)
  /\ UNCHANGED <<owned, emblem, clock, step, window, stack, hand, discard, effects,
                 owners, halted>>

\* the second wave of a combat with first strike
NormalWave ==
  /\ Stage = "advance" /\ step = "CombatDamage" /\ combat.damage = "first"
  /\ combat' = [combat EXCEPT !.damage = "normal_pending"]
  /\ ResetPriority(active)
  /\ UNCHANGED <<owned, emblem, clock, step, stack, checkpoint, hand, discard, effects,
                 owners, halted>>

\* drain_pending_triggers_or_decide: one ability, in the order its controller
\* chose, goes on the stack, or is dropped for want of a legal target
PlaceTrigger ==
  /\ Stage = "place"
  /\ \E i \in DOMAIN triggers : /\ stack' = Append(stack, <<triggers[i], active>>)
                                /\ triggers' = RemoveAt(triggers, i)
  /\ passes' = NobodyPassed /\ Owe
  /\ UNCHANGED <<owned, emblem, clock, step, priority, legend, lost, budget, unlimited,
                 hand, discard, effects, owners, combat, halted>>

DropTrigger ==
  /\ Stage = "place"
  /\ \E i \in DOMAIN triggers : triggers[i] # "madness" /\ triggers' = RemoveAt(triggers, i)
  /\ UNCHANGED <<owned, emblem, clock, step, window, stack, legend, lost, budget,
                 unlimited, hand, discard, effects, owners, combat, halted>>

DeclareAttackers ==
  /\ Stage = "attackers"
  /\ \E any \in BOOLEAN :
       combat' = [combat EXCEPT !.declared = TRUE, !.alive = any]
  /\ \E h \in Happenings : Collect(h, triggers, 0)
  /\ ResetPriority(active)
  /\ UNCHANGED <<owned, emblem, clock, step, stack, hand, discard, effects, owners, halted>>

DeclareBlockers ==
  /\ Stage = "blockers"
  /\ combat' = [combat EXCEPT !.blocked = TRUE]
  /\ \E h \in Happenings : Collect(h, triggers, 0)
  /\ ResetPriority(active)
  /\ UNCHANGED <<owned, emblem, clock, step, stack, hand, discard, effects, owners, halted>>

Pass == /\ Stage = "priority"
        /\ passes' = [passes EXCEPT ![priority] = TRUE]
        /\ priority' = Opponent(priority)
        /\ owed' = owed \ {priority}
        /\ UNCHANGED <<owned, emblem, clock, step, stack, checkpoint, hand, discard,
                       effects, owners, combat, halted>>

\* A spell from the hand or an activated ability goes on the stack.
Cast ==
  /\ Stage = "priority"
  /\ \E kind \in Kinds, cards \in 0..1 :
       /\ cards <= hand[priority]
       /\ kind = "stop" => owned
       /\ hand' = [hand EXCEPT ![priority] = @ - cards]
       /\ stack' = Append(stack, <<kind, priority>>)
  /\ \E h \in Happenings : Collect(h, triggers, 1)
  /\ KeepPriority(priority)
  /\ UNCHANGED <<owned, emblem, clock, step, discard, effects, owners, combat, halted>>

\* play_land, plot_spell and the other special actions: no stack item
SpecialAction ==
  /\ Stage = "priority"
  /\ hand[priority] > 0 /\ priority = active
  /\ step \in {"Main1", "Main2"} /\ stack = <<>>
  /\ hand' = [hand EXCEPT ![priority] = @ - 1]
  /\ \E h \in Happenings : Collect(h, triggers, 1)
  /\ KeepPriority(priority)
  /\ UNCHANGED <<owned, emblem, clock, step, stack, discard, effects, owners, combat, halted>>

\* Mutant: a mana ability leaves the passes made before it standing.
ActivateMana_KeepsPasses ==
  /\ Stage = "priority"
  /\ \E h \in Happenings : Collect(h, triggers, 1)
  /\ Owe
  /\ UNCHANGED <<owned, emblem, clock, step, priority, passes, stack, hand, discard,
                 effects, owners, combat, halted>>

\* activate_mana_ability_for: no stack item, the same player has priority
ActivateMana ==
  /\ Stage = "priority"
  /\ \E h \in Happenings : Collect(h, triggers, 1)
  /\ passes' = NobodyPassed /\ Owe
  /\ UNCHANGED <<owned, emblem, clock, step, priority, stack, hand, discard, effects,
                 owners, combat, halted>>

-----------------------------------------------------------------------------
(* The top of the stack resolves once both players have passed.            *)

\* What the resolution of an ordinary item may leave behind.
Results == {"nothing", "draw", "kill", "emblem"} \cup Effects

Resolve ==
  /\ Stage = "resolve" /\ Last(stack)[1] # "stop"
  /\ stack' = Front(stack)
  /\ \E result \in Results :
       LET kind == Last(stack)[1]
           by == Last(stack)[2]
       IN  /\ kind = "extra" => result = "nothing"
           /\ result = "kill" => combat.alive
           /\ IF kind = "extra" THEN Schedule(by) ELSE UNCHANGED extra
           /\ result = "emblem" => ~owned
           /\ emblem' = IF result = "emblem" THEN emblem \cup {by} ELSE emblem
           /\ hand' = IF result \in {"draw", "emblem"} THEN [hand EXCEPT ![by] = @ + 1]
                                                      ELSE hand
           /\ effects' = effects \cup (Effects \cap {result})
           /\ combat' = [combat EXCEPT !.alive = @ /\ result # "kill"]
  /\ \E h \in Happenings : Collect(h, triggers, 0)
  /\ ResetPriority(active)
  /\ UNCHANGED <<owned, turn, active, started, step, discard, owners, halted>>

\* apply_choose_madness_cast: the offer leaves the stack and either the card
\* is cast in its place, or it goes to the graveyard (declined or unpayable)
ChooseMadness ==
  /\ Stage = "madness"
  /\ \/ stack' = Append(Front(stack), <<"spell", Last(stack)[2]>>)
     \/ stack' = Front(stack)
  /\ \E h \in Happenings : Collect(h, triggers, 0)
  /\ ResetPriority(active)
  /\ UNCHANGED <<owned, emblem, clock, step, hand, discard, effects, owners, combat, halted>>

Stop == /\ \/ lost
           \/ Stage = "advance" /\ OrdinaryAdvance /\ step = "Cleanup" /\ started = MaxTurns
        /\ UNCHANGED vars

Loop == \/ AdvanceStep \/ NextTurn \/ RepeatCleanup \/ BeginCleanup
        \/ RepeatOwnedCleanup \/ Expire \/ Dispose \/ BeforeCleanup
        \/ StopExpire \/ StopRepeat \/ NormalWave \/ PlaceTrigger
        \/ DropTrigger \/ Resolve

Answer == \/ Pass \/ Cast \/ SpecialAction \/ ActivateMana \/ Discard
          \/ ChooseLegend \/ DealDamage \/ DeclareAttackers
          \/ DeclareBlockers \/ ChooseMadness

Step == Loop \/ Answer

Next == Step \/ Stop

Spec == Init /\ [][Next]_vars

\* The driver answers every decision and calls the engine again.
FairSpec == Spec /\ WF_vars(Step)
-----------------------------------------------------------------------------
(* Properties.                                                             *)

Deciding == Stage \in {"legend", "damage", "discard", "attackers", "blockers",
                       "priority", "madness"}

\* The cleanup records' own checks never refuse a state the engine itself
\* produced: no begin, drive, repeat or dispose fails, and whenever a player
\* is asked for a decision both records belong to the turn in progress.
NeverRefused == ~halted /\ (Deciding => CleanupValid /\ TimeStopValid)

WindowCloses ==
  \/ Len(stack') < Len(stack)
  \/ GrantsPriority(step) /\ step' # step
  \/ cleanup.phase = "priority" /\ cleanup' # cleanup
  \/ timeStop.phase = "priority" /\ timeStop' # timeStop

\* Nothing resolves, and no step or cleanup window that grants priority ends,
\* before both players have passed since the game last changed; the pass
\* flags are set, cleared and left standing in some twenty places.
NoWindowSkipped == [][WindowCloses => owed = {}]_vars

\* A turn ends with nothing left over: no stack item, trigger, choice or
\* cleanup record, no effect the historical cleanup repeats for, and with
\* owned cleanup no until-end-of-turn effect and no hand above the maximum
\* (unless its last cleanup found the limit lifted), whatever was cast or
\* triggered in the cleanup's own priority windows.
TurnEndsClean ==
  [][started' # started =>
       /\ stack = <<>> /\ triggers = <<>> /\ ~legend /\ discard = 0
       /\ cleanup = NoOwner /\ timeStop = NoOwner
       /\ effects \cap Repeating = {}
       /\ owned => effects = {} /\ (hand[active] <= MaxHand \/ exempt)]_vars

\* The scheduler's record, or what the round counter stands for without it.
Order == INSTANCE TurnOrder WITH
  regular <- IF extra = NoExtra THEN Opponent(active) ELSE extra.regular,
  waiting <- IF extra = NoExtra THEN <<>> ELSE extra.queued,
  taken   <- IF extra = NoExtra THEN InitialOwnTurns ELSE extra.own,
  round   <- turn

\* Turns are taken in the promised order, and promoting the scheduler in the
\* middle of a game loses and invents no turn.
ImplementsTurnOrder == Order!Spec

\* Every turn ends: neither repeated cleanups nor passing back and forth keep
\* a game in one turn once players stop acting.
TurnsEnd == <>(started = MaxTurns \/ lost)
=============================================================================
