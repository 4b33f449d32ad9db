----------------------------- MODULE BestOfThree -----------------------------
(***************************************************************************)
(* A best-of-three match between two registered decks: the match state     *)
(* (`BestOfThreeMatchStateV1`) inside the session that prepares each game  *)
(* (`BestOfThreeDeckMatchV1`).                                             *)
(*                                                                         *)
(* A session call takes `&mut self`, so calls do not interleave; but one   *)
(* of them hands control to live sideboard policies, once per seat, in the *)
(* middle of preparing a game.  That call is one action per callback.  A   *)
(* call that is refused leaves the session as it was, so it is a step that *)
(* changes nothing; the ones that are refused after having done work       *)
(* (`ConsultFails`, `CommitLive`) are spelled out.                         *)
(*                                                                         *)
(* A configuration is a pair of bags of cards.  Deck ids are abstracted to *)
(* the seat: a plan's key (own deck, opposing deck, game) is (seat, game). *)
(***************************************************************************)
EXTENDS Naturals, Sequences, FiniteSets, FiniteSetsExt

CONSTANTS
    Cards,         \* card ids
    MainSize,      \* REGISTERED_MAINBOARD_SIZE_V1, 60 in the code
    SideSize,      \* REGISTERED_SIDEBOARD_SIZE_V1, 15 in the code
    Registered,    \* seat -> registered configuration
    Plans,         \* the policy's plans: <<seat, game>> -> [in, out]
    MaxGameIndex   \* u8::MAX in the code

Seats == {0, 1}
Opponent(p) == 1 - p
WinsRequired == 2

Total(bag) == MapThenSumSet(LAMBDA c : bag[c], Cards)
BagsOfSize(n) == {bag \in [Cards -> 0..n] : Total(bag) = n}
Configurations == [main: BagsOfSize(MainSize), side: BagsOfSize(SideSize)]
CombinedCounts(configuration) ==
    [c \in Cards |-> configuration.main[c] + configuration.side[c]]

ASSUME SizeAssumption == MainSize \in Nat /\ SideSize \in Nat /\ IsFiniteSet(Cards)
ASSUME RegisteredAssumption == Registered \in [Seats -> Configurations]
ASSUME IndexAssumption == MaxGameIndex \in Nat \ {0}

\* What SideboardPlanV1::new_v1 admits: an exchange of as many cards in as
\* out, at most a sideboard of them, and none both in and out.
ValidPlan(plan) ==
    /\ plan \in [in: [Cards -> Nat], out: [Cards -> Nat]]
    /\ Total(plan.in) = Total(plan.out)
    /\ Total(plan.in) <= SideSize
    /\ \A c \in Cards : plan.in[c] = 0 \/ plan.out[c] = 0

\* DeterministicSideboardPolicyV1::new_v1: one plan for a key, and
\* only for postboard games.
ValidPolicy(plans) ==
    /\ DOMAIN plans \subseteq Seats \X (2..MaxGameIndex)
    /\ \A k \in DOMAIN plans : ValidPlan(plans[k])

ASSUME PlanAssumption == ValidPolicy(Plans)

Outcomes == {"win0", "win1", "draw"}
Winner(outcome) == IF outcome = "win0" THEN 0 ELSE 1

VARIABLES
    wins,      \* seat -> games won
    games,     \* completed games: [start, outcome]
    phase,     \* "choice", "result" or "complete"
    gameIndex, \* of the game being chosen for or played
    chooser,   \* who makes, or made, its play/draw choice
    starter,   \* who starts it, once chosen
    policy,    \* new_v1 installs the static policy, new_live_v1 none
    champion,  \* the winner of a complete match
    prepared,  \* configurations of the game last prepared, with its index
    call       \* prepare_game_with_live_policies_v1 in progress

matchState == <<wins, games, phase, gameIndex, chooser, starter, champion>>
vars == <<wins, games, phase, gameIndex, chooser, starter, champion, policy, prepared, call>>

None == 2      \* no seat
NoCall == [pc |-> "idle", start |-> None, live |-> {}, chosen |-> <<>>]
NotPrepared == [game_index |-> 0, configurations |-> Registered]

\* BestOfThreeMatchStateV1::new_v1
NewMatch ==
    /\ wins = [p \in Seats |-> 0]
    /\ games = <<>>
    /\ phase = "choice" /\ gameIndex = 1 /\ chooser \in Seats
    /\ starter = None /\ champion = None

\* BestOfThreeDeckMatchV1::new_v1 or new_live_v1 around it.
Init ==
    /\ NewMatch
    /\ policy \in BOOLEAN
    /\ prepared = NotPrepared
    /\ call = NoCall

-----------------------------------------------------------------------------
(* The match state.                                                        *)

\* choose_play_draw_v1: only the expected chooser is heard, so its choice is
\* the choice of the starting player.
ChoosePlayDraw(start) ==
    /\ phase = "choice"
    /\ phase' = "result" /\ starter' = start
    /\ UNCHANGED <<wins, games, gameIndex, chooser, champion>>

Decides(outcome) == outcome # "draw" /\ wins[Winner(outcome)] + 1 >= WinsRequired

\* Mutant: the winner chooses.
NextChooser_WinnerAgain(outcome) ==
    IF outcome = "draw" THEN chooser ELSE Winner(outcome)

\* The loser of a decided game chooses; after a draw, whoever chose.
NextChooser(outcome) ==
    IF outcome = "draw" THEN chooser ELSE Opponent(Winner(outcome))

\* What a recorded result changes.
Record(outcome) ==
    /\ wins' = [p \in Seats |->
                   IF outcome # "draw" /\ p = Winner(outcome) THEN wins[p] + 1 ELSE wins[p]]
    /\ games' = Append(games, [game_index |-> gameIndex, chooser |-> chooser,
                               starter |-> starter, outcome |-> outcome])
    /\ starter' = None
    /\ \/ /\ Decides(outcome)
          /\ phase' = "complete" /\ champion' = Winner(outcome)
          /\ UNCHANGED <<gameIndex, chooser>>
       \/ /\ ~Decides(outcome)
          /\ phase' = "choice" /\ gameIndex' = gameIndex + 1
          /\ chooser' = NextChooser(outcome)
          /\ UNCHANGED champion

\* Mutant: the win is counted before the next index is known to exist.
RecordGameResult_CountsFirst(outcome) ==
    /\ call.pc = "idle" /\ phase = "result"
    /\ \/ (Decides(outcome) \/ gameIndex < MaxGameIndex) /\ Record(outcome)
       \/ /\ gameIndex = MaxGameIndex /\ outcome # "draw"
          /\ wins' = [wins EXCEPT ![Winner(outcome)] = @ + 1]
          /\ UNCHANGED <<games, phase, gameIndex, chooser, starter, champion>>
    /\ UNCHANGED <<policy, prepared, call>>

\* record_game_result_v1.  A match that the result does not decide needs a
\* next index; when there is none the call is refused before anything moves.
RecordGameResult(outcome) ==
    /\ call.pc = "idle" /\ phase = "result"
    /\ Decides(outcome) \/ gameIndex < MaxGameIndex
    /\ Record(outcome)
    /\ UNCHANGED <<policy, prepared, call>>

-----------------------------------------------------------------------------
(* Sideboarding.                                                           *)

Empty == [c \in Cards |-> 0]

\* plan_for_v1: an ordered matchup without a plan keeps the registered decks.
PlanFor(seat, game) ==
    IF <<seat, game>> \in DOMAIN Plans THEN Plans[<<seat, game>>]
    ELSE [in |-> Empty, out |-> Empty]

\* apply_plan_v1: cards out leave the mainboard, then cards in leave the
\* sideboard, always of the registered 75.
PlanFits(seat, plan) ==
    \A c \in Cards : /\ plan.out[c] <= Registered[seat].main[c]
                     /\ plan.in[c] <= Registered[seat].side[c] + plan.out[c]

ApplyPlan(seat, plan) ==
    [main |-> [c \in Cards |-> Registered[seat].main[c] - plan.out[c] + plan.in[c]],
     side |-> [c \in Cards |-> Registered[seat].side[c] + plan.out[c] - plan.in[c]]]

-----------------------------------------------------------------------------
(* Preparing a game.                                                       *)

Prepare(start, configurations) ==
    /\ ChoosePlayDraw(start)
    /\ prepared' = [game_index |-> gameIndex, configurations |-> configurations]

\* prepare_game_v1, with the installed static policy.
PrepareGame(start) ==
    /\ call.pc = "idle" /\ policy /\ phase = "choice"
    /\ \/ gameIndex = 1 /\ Prepare(start, Registered)
       \/ /\ gameIndex > 1
          /\ \A s \in Seats : PlanFits(s, PlanFor(s, gameIndex))
          /\ Prepare(start, [s \in Seats |-> ApplyPlan(s, PlanFor(s, gameIndex))])
    /\ UNCHANGED <<policy, call>>

\* Mutant: only the first seat's deck is compared with its registration.
Admissible_SeatZeroOnly(configurations) ==
    /\ CombinedCounts(configurations[0]) = CombinedCounts(Registered[0])
    /\ gameIndex = 1 => configurations = Registered

\* Both seats conserve the registered 75, and game one is not sideboarded.
Admissible(configurations) ==
    \A s \in Seats :
        /\ CombinedCounts(configurations[s]) = CombinedCounts(Registered[s])
        /\ gameIndex = 1 => configurations[s] = Registered[s]

\* prepare_game_with_configurations_v1, called by the owner of the session.
PrepareWithConfigurations(start, configurations) ==
    /\ call.pc = "idle" /\ phase = "choice"
    /\ Admissible(configurations)
    /\ Prepare(start, configurations)
    /\ UNCHANGED <<policy, call>>

\* prepare_game_with_live_policies_v1 with some seat live, or with no static
\* policy: game one goes straight to the registered decks.
LiveGameOne(start, live) ==
    /\ call.pc = "idle" /\ phase = "choice" /\ gameIndex = 1
    /\ live # {} \/ ~policy
    /\ Prepare(start, Registered)
    /\ UNCHANGED <<policy, call>>

\* Mutant: the probe advances the match itself and not a clone.
ProbeLive_Commits(start, live) ==
    /\ call.pc = "idle" /\ phase = "choice" /\ gameIndex > 1
    /\ live # {} \/ ~policy
    /\ call' = [pc |-> "consult", start |-> start, live |-> live, chosen |-> <<>>]
    /\ ChoosePlayDraw(start)
    /\ UNCHANGED <<policy, prepared>>

\* Later games: the choice is probed on a clone of the match, which is dropped.
ProbeLive(start, live) ==
    /\ call.pc = "idle" /\ phase = "choice" /\ gameIndex > 1
    /\ live # {} \/ ~policy
    /\ call' = [pc |-> "consult", start |-> start, live |-> live, chosen |-> <<>>]
    /\ UNCHANGED <<matchState, policy, prepared>>

NextSeat == Len(call.chosen)

\* Seat 0 and then seat 1: a live policy answers with any complete
\* configuration, a static seat gets the plan's.
ConsultSeat(configuration) ==
    /\ call.pc = "consult" /\ NextSeat \in Seats
    /\ \/ NextSeat \in call.live
       \/ /\ NextSeat \notin call.live /\ policy
          /\ PlanFits(NextSeat, PlanFor(NextSeat, gameIndex))
          /\ configuration = ApplyPlan(NextSeat, PlanFor(NextSeat, gameIndex))
    /\ call' = [pc |-> "consult", start |-> call.start, live |-> call.live,
                chosen |-> Append(call.chosen, configuration)]
    /\ UNCHANGED <<matchState, policy, prepared>>

\* A live policy errs, or a static seat has no policy or a plan that does not fit.
ConsultFails ==
    /\ call.pc = "consult" /\ NextSeat \in Seats
    /\ \/ NextSeat \in call.live
       \/ ~policy
       \/ ~PlanFits(NextSeat, PlanFor(NextSeat, gameIndex))
    /\ call' = NoCall
    /\ UNCHANGED <<matchState, policy, prepared>>

\* The real advance, through prepare_game_with_configurations_v1.
CommitLive ==
    /\ call.pc = "consult" /\ NextSeat \notin Seats
    /\ call' = NoCall /\ UNCHANGED policy
    /\ LET configurations == [s \in Seats |-> call.chosen[s + 1]]
       IN \/ Admissible(configurations) /\ Prepare(call.start, configurations)
          \/ ~Admissible(configurations) /\ UNCHANGED <<matchState, prepared>>

Next ==
    \/ \E start \in Seats : PrepareGame(start)
    \/ \E start \in Seats, configurations \in [Seats -> Configurations] :
          PrepareWithConfigurations(start, configurations)
    \/ \E start \in Seats, live \in SUBSET Seats : LiveGameOne(start, live)
    \/ \E start \in Seats, live \in SUBSET Seats : ProbeLive(start, live)
    \/ \E configuration \in Configurations : ConsultSeat(configuration)
    \/ ConsultFails
    \/ CommitLive
    \/ \E outcome \in Outcomes : RecordGameResult(outcome)

Spec == Init /\ [][Next]_vars

-----------------------------------------------------------------------------
(* What a match promises.                                                  *)

WonBy(p, n) == {k \in 1..n : games[k].outcome # "draw" /\ Winner(games[k].outcome) = p}

\* The match ends with the second win and not before: the score is the score
\* of the games on record, whatever was refused in between; the match is
\* complete exactly when somebody has two wins, and that is the champion.
ScoreMatchesRecord ==
    /\ \A p \in Seats : wins[p] = Cardinality(WonBy(p, Len(games)))
    /\ \A p \in Seats : wins[p] < WinsRequired \/ (phase = "complete" /\ champion = p)
    /\ phase = "complete" => wins[champion] = WinsRequired

\* Play/draw order: the choice for a game belongs to whoever lost the last
\* decided game before it, however many draws came in between; until a game
\* is decided, to the chooser of game one.
LoserChooses ==
    \A n \in 1..Len(games) :
        LET decided == {k \in 1..n - 1 : games[k].outcome # "draw"}
        IN games[n].chooser =
               IF decided = {} THEN games[1].chooser
               ELSE Opponent(Winner(games[Max(decided)].outcome))

\* A game waits for its result only with decks prepared for that very game:
\* both seats hold their registered 75 cards, 60 of them in the mainboard, and
\* game one is played with the registered mainboards.
PlayedDecksRegistered ==
    phase = "result" =>
        /\ prepared.game_index = gameIndex
        /\ \A s \in Seats :
              LET played == prepared.configurations[s]
              IN /\ CombinedCounts(played) = CombinedCounts(Registered[s])
                 /\ Total(played.main) = MainSize
                 /\ gameIndex = 1 => played = Registered[s]
=============================================================================
