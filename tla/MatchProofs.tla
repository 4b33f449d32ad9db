----------------------------- MODULE MatchProofs -----------------------------
(***************************************************************************)
(* Proofs about the match and the pregame of its games: BestOfThree, for   *)
(* every deck size, card set, policy and bound on the game index, and      *)
(* LondonMulligan, for every hand size, pair of decks and number of Serum  *)
(* Powders.  No step of one involves the other.                            *)
(***************************************************************************)
EXTENDS BestOfThree, LondonMulligan, FiniteSetTheorems, WellFoundedInduction, TLAPS

-----------------------------------------------------------------------------
(* Sums over a finite set of cards.  `Total` is a fold, a function defined *)
(* by recursion on the subsets of Cards; that such a function exists, and  *)
(* what it computes, is shown with smallest counterexamples.               *)

\* A nonempty set of natural numbers has a least one.
LEMMA LeastNumber ==
    ASSUME NEW T, T \subseteq Nat, T # {}
    PROVE  \E n \in T : \A m \in T : n <= m
<1>1. \E n \in T : \A m \in T : ~(<<m, n>> \in OpToRel(<, Nat))
    BY NatLessThanWellFounded, WFMin
<1>2. \A m, n \in Nat : m < n => <<m, n>> \in OpToRel(<, Nat)
    BY DEF OpToRel
<1>3. \A m, n \in Nat : ~(m < n) => n <= m
    OBVIOUS
<1> QED
    BY <1>1, <1>2, <1>3

\* A nonempty family of sets of cards has one with no smaller one in it.
LEMMA LeastSet ==
    ASSUME NEW T, T \subseteq SUBSET Cards, T # {}
    PROVE  \E s \in T : \A r \in T : r \subseteq s => r = s
<1>1. FiniteSubsetsOf(Cards) = SUBSET Cards
    BY SizeAssumption, FS_FiniteSubsetsOfFinite
<1>2. \E s \in T : \A r \in T : ~(<<r, s>> \in StrictSubsetOrdering(Cards))
    BY <1>1, FS_StrictSubsetOrderingWellFounded, WFMin
<1> QED
    BY <1>2 DEF StrictSubsetOrdering

Pick(s) == CHOOSE x \in s : TRUE

Unfold(bag, h) ==
    [s \in SUBSET Cards |-> IF s = {} THEN 0 ELSE bag[Pick(s)] + h[s \ {Pick(s)}]]

SumOver(bag) == CHOOSE h : h = Unfold(bag, h)

\* The fold of the library is the sum function at the whole set.
LEMMA TotalIsSum ==
    ASSUME NEW bag PROVE Total(bag) = SumOver(bag)[Cards]
    BY DEF Total, MapThenSumSet, MapThenFoldSet, SumOver, Unfold, Pick

\* The chosen element of a nonempty set of cards, and what is left.
LEMMA Picked ==
    ASSUME NEW s \in SUBSET Cards, s # {}
    PROVE  /\ Pick(s) \in s /\ Pick(s) \in Cards
           /\ s \ {Pick(s)} \in SUBSET Cards
           /\ IsFiniteSet(s) /\ Cardinality(s) \in Nat
           /\ Cardinality(s \ {Pick(s)}) = Cardinality(s) - 1
<1>1. Pick(s) \in s
    BY DEF Pick
<1>2. IsFiniteSet(s) /\ Cardinality(s) \in Nat
    BY SizeAssumption, FS_Subset, FS_CardinalityType
<1> QED
    BY <1>1, <1>2, FS_RemoveElement

\* One unfolding more is right for sets one card larger, so some function
\* obeys the recursion on all of them.
LEMMA SumExists ==
    ASSUME NEW bag
    PROVE  \E h : h = Unfold(bag, h)
<1> DEFINE Right(h, n) == \A s \in SUBSET Cards : Cardinality(s) <= n => h[s] = Unfold(bag, h)[s]
           Wrong == {n \in Nat : ~\E h : Right(h, n)}
<1>1. ASSUME NEW n \in Nat, NEW h, Right(h, n) PROVE Right(Unfold(bag, h), n + 1)
    <2> DEFINE g == Unfold(bag, h)
    <2> SUFFICES ASSUME NEW s \in SUBSET Cards, Cardinality(s) <= n + 1
                 PROVE  g[s] = Unfold(bag, g)[s]
        OBVIOUS
    <2>1. CASE s = {}
        BY <2>1 DEF Unfold
    <2>2. CASE s # {}
        <3> DEFINE r == s \ {Pick(s)}
        <3>1. r \in SUBSET Cards /\ Cardinality(r) <= n
            BY <2>2, Picked
        <3>2. h[r] = g[r]
            BY <1>1, <3>1
        <3>3. g[s] = bag[Pick(s)] + h[r] /\ Unfold(bag, g)[s] = bag[Pick(s)] + g[r]
            BY <2>2 DEF Unfold
        <3> QED
            BY <3>2, <3>3
    <2> QED BY <2>1, <2>2
<1>2. \E h : Right(h, 0)
    <2>1. Right(Unfold(bag, [s \in SUBSET Cards |-> 0]), 0)
        <3> SUFFICES ASSUME NEW s \in SUBSET Cards, Cardinality(s) <= 0
                     PROVE  s = {}
            BY DEF Unfold
        <3>1. IsFiniteSet(s) /\ Cardinality(s) \in Nat
            BY SizeAssumption, FS_Subset, FS_CardinalityType
        <3> QED
            BY <3>1, FS_EmptySet
    <2> QED BY <2>1
<1>3. Wrong = {}
    <2> SUFFICES ASSUME Wrong # {} PROVE FALSE
        OBVIOUS
    <2>1. PICK n \in Wrong : \A m \in Wrong : n <= m
        <3>1. Wrong \in SUBSET Nat
            OBVIOUS
        <3> HIDE DEF Wrong
        <3> QED BY <3>1, LeastNumber
    <2>2. n # 0 /\ n \in Nat
        BY <1>2
    <2>3. n - 1 \in Nat /\ n - 1 \notin Wrong
        BY <2>1, <2>2
    <2>4. PICK h : Right(h, n - 1)
        BY <2>3
    <2>5. Right(Unfold(bag, h), (n - 1) + 1)
        BY <1>1, <2>3, <2>4
    <2>6. (n - 1) + 1 = n
        BY <2>2
    <2> QED
        BY <2>1, <2>5, <2>6
<1>4. Cardinality(Cards) \in Nat
    BY SizeAssumption, FS_CardinalityType
<1>5. PICK h : Right(h, Cardinality(Cards))
    BY <1>3, <1>4
<1>6. Unfold(bag, h) = Unfold(bag, Unfold(bag, h))
    <2>1. \A s \in SUBSET Cards : Cardinality(s) <= Cardinality(Cards)
        BY SizeAssumption, FS_Subset
    <2>2. \A s \in SUBSET Cards : h[s] = Unfold(bag, h)[s]
        BY <1>5, <2>1
    <2> QED
        BY <2>2, Picked DEF Unfold
<1> QED
    BY <1>6

\* So the sum function obeys its recursion.
LEMMA SumRecursion ==
    ASSUME NEW bag
    PROVE  /\ SumOver(bag)[{}] = 0
           /\ \A s \in SUBSET Cards :
                 s # {} => SumOver(bag)[s] = bag[Pick(s)] + SumOver(bag)[s \ {Pick(s)}]
<1>1. SumOver(bag) = Unfold(bag, SumOver(bag))
    BY SumExists DEF SumOver
<1> QED
    BY <1>1 DEF Unfold

\* The sum of integers is an integer.
LEMMA SumInt ==
    ASSUME NEW bag \in [Cards -> Int], NEW s \in SUBSET Cards
    PROVE  SumOver(bag)[s] \in Int
<1> DEFINE Wrong == {r \in SUBSET Cards : SumOver(bag)[r] \notin Int}
<1> SUFFICES ASSUME Wrong # {} PROVE FALSE
    OBVIOUS
<1>1. PICK r \in Wrong : \A q \in Wrong : q \subseteq r => q = r
    <2>1. Wrong \subseteq SUBSET Cards
        OBVIOUS
    <2> HIDE DEF Wrong
    <2> QED BY <2>1, LeastSet
<1>2. r # {} /\ r \in SUBSET Cards
    <2>1. SumOver(bag)[{}] = 0
        BY SumRecursion
    <2> QED
        BY <2>1
<1>3. Pick(r) \in r /\ Pick(r) \in Cards /\ r \ {Pick(r)} \in SUBSET Cards
    BY <1>2, Picked
<1>4. SumOver(bag)[r \ {Pick(r)}] \in Int
    BY <1>1, <1>3
<1>5. SumOver(bag)[r] = bag[Pick(r)] + SumOver(bag)[r \ {Pick(r)}]
    BY <1>2, SumRecursion
<1> QED
    BY <1>3, <1>4, <1>5

\* An exchange of cards changes the sum by the cards in minus the cards out.
LEMMA SumExchange ==
    ASSUME NEW a \in [Cards -> Int], NEW out \in [Cards -> Int], NEW in \in [Cards -> Int],
           NEW d \in [Cards -> Int], \A c \in Cards : d[c] = a[c] - out[c] + in[c],
           NEW s \in SUBSET Cards
    PROVE  SumOver(d)[s] = SumOver(a)[s] - SumOver(out)[s] + SumOver(in)[s]
<1> DEFINE Wrong == {r \in SUBSET Cards :
                        SumOver(d)[r] # SumOver(a)[r] - SumOver(out)[r] + SumOver(in)[r]}
<1> SUFFICES ASSUME Wrong # {} PROVE FALSE
    OBVIOUS
<1>1. PICK r \in Wrong : \A q \in Wrong : q \subseteq r => q = r
    <2>1. Wrong \subseteq SUBSET Cards
        OBVIOUS
    <2> HIDE DEF Wrong
    <2> QED BY <2>1, LeastSet
<1>2. r # {} /\ r \in SUBSET Cards
    <2>1. SumOver(d)[{}] = 0 /\ SumOver(a)[{}] = 0 /\ SumOver(out)[{}] = 0 /\ SumOver(in)[{}] = 0
        BY SumRecursion
    <2>2. SumOver(d)[r] # SumOver(a)[r] - SumOver(out)[r] + SumOver(in)[r]
        OBVIOUS
    <2>3. 0 = 0 - 0 + 0
        OBVIOUS
    <2> HIDE DEF Wrong
    <2>4. r # {}
        BY <2>1, <2>2, <2>3
    <2> QED
        BY <2>4 DEF Wrong
<1> DEFINE p == Pick(r)
           q == r \ {p}
<1>3. p \in r /\ p \in Cards /\ q \in SUBSET Cards
    BY <1>2, Picked
<1>4. SumOver(d)[q] = SumOver(a)[q] - SumOver(out)[q] + SumOver(in)[q]
    BY <1>1, <1>3
<1>5. /\ SumOver(d)[r] = d[p] + SumOver(d)[q] /\ SumOver(a)[r] = a[p] + SumOver(a)[q]
      /\ SumOver(out)[r] = out[p] + SumOver(out)[q] /\ SumOver(in)[r] = in[p] + SumOver(in)[q]
    BY <1>2, SumRecursion
<1>6. /\ SumOver(d)[q] \in Int /\ SumOver(a)[q] \in Int
      /\ SumOver(out)[q] \in Int /\ SumOver(in)[q] \in Int
    BY <1>3, SumInt
<1>7. d[p] = a[p] - out[p] + in[p] /\ a[p] \in Int /\ out[p] \in Int /\ in[p] \in Int
    BY <1>3
<1> HIDE DEF p, q
<1>8. SumOver(d)[r] = SumOver(a)[r] - SumOver(out)[r] + SumOver(in)[r]
    BY <1>4, <1>5, <1>6, <1>7
<1> QED
    BY <1>1, <1>8

\* apply_plan_v1: a plan that fits leaves a deck of the registered sizes that
\* holds the registered cards.
LEMMA PlanKeepsDeck ==
    ASSUME NEW seat \in Seats, NEW plan, ValidPlan(plan), PlanFits(seat, plan)
    PROVE  /\ Total(ApplyPlan(seat, plan).main) = MainSize
           /\ CombinedCounts(ApplyPlan(seat, plan)) = CombinedCounts(Registered[seat])
<1> DEFINE main == Registered[seat].main
           d == ApplyPlan(seat, plan)
<1>1. /\ Registered[seat] \in Configurations
      /\ main \in [Cards -> Nat] /\ Registered[seat].side \in [Cards -> Nat] /\ Total(main) = MainSize
    BY RegisteredAssumption, SizeAssumption DEF Configurations, BagsOfSize
<1>2. plan.in \in [Cards -> Nat] /\ plan.out \in [Cards -> Nat] /\ Total(plan.in) = Total(plan.out)
    BY DEF ValidPlan
<1>3. d.main \in [Cards -> Int] /\ \A c \in Cards : d.main[c] = main[c] - plan.out[c] + plan.in[c]
    BY <1>1, <1>2 DEF ApplyPlan
<1>4. Total(d.main) = Total(main) - Total(plan.out) + Total(plan.in)
    <2>1. main \in [Cards -> Int] /\ plan.in \in [Cards -> Int] /\ plan.out \in [Cards -> Int]
        BY <1>1, <1>2
    <2>2. ASSUME NEW a \in [Cards -> Int], NEW out \in [Cards -> Int], NEW in \in [Cards -> Int],
                 NEW e \in [Cards -> Int], \A c \in Cards : e[c] = a[c] - out[c] + in[c]
          PROVE  Total(e) = Total(a) - Total(out) + Total(in)
        <3>1. Cards \in SUBSET Cards
            OBVIOUS
        <3>2. SumOver(e)[Cards] = SumOver(a)[Cards] - SumOver(out)[Cards] + SumOver(in)[Cards]
            BY <2>2, <3>1, SumExchange
        <3> QED
            BY <3>2, TotalIsSum
    <2> HIDE DEF d, main
    <2> QED
        BY <1>3, <2>1, <2>2
<1>5. Total(plan.out) \in Int /\ Total(main) \in Int
    BY <1>1, <1>2, TotalIsSum, SumInt, SizeAssumption
<1>6. Total(d.main) = MainSize
    BY <1>1, <1>2, <1>4, <1>5
<1>7. CombinedCounts(d) = CombinedCounts(Registered[seat])
    BY <1>1, <1>2 DEF CombinedCounts, ApplyPlan
<1> QED
    BY <1>6, <1>7

-----------------------------------------------------------------------------
(* The inductive invariant.                                                *)

GameRecords == [game_index : Nat, chooser : Seats, starter : Seats, outcome : Outcomes]

\* The decided games before game n, and who chooses for game n.
Decided(n) == {k \in 1..n - 1 : games[k].outcome # "draw"}
ChooserFor(n) ==
    IF Decided(n) = {} THEN (IF n = 1 THEN chooser ELSE games[1].chooser)
    ELSE Opponent(Winner(games[Max(Decided(n))].outcome))

MatchType ==
    /\ wins \in [Seats -> Nat] /\ games \in Seq(GameRecords)
    /\ phase \in {"choice", "result", "complete"} /\ gameIndex \in Nat \ {0}
    /\ chooser \in Seats /\ starter \in Seats \cup {None} /\ champion \in Seats \cup {None}
    /\ phase = "result" => starter \in Seats

\* The chooser of the game at hand continues the rule the record obeys.
ChooserInv == phase # "complete" => chooser = ChooserFor(Len(games) + 1)

\* A call in progress found the match waiting for a choice, and it still does.
CallInv ==
    call.pc = "consult" =>
        /\ phase = "choice" /\ gameIndex > 1 /\ call.start \in Seats
        /\ call.chosen \in Seq(Configurations) /\ Len(call.chosen) <= 2

IInv == /\ MatchType /\ ScoreMatchesRecord /\ LoserChooses /\ ChooserInv
        /\ PlayedDecksRegistered /\ CallInv

\* Seats and winners.
LEMMA SeatFacts ==
    /\ None \notin Seats
    /\ \A p \in Seats : Opponent(p) \in Seats
    /\ \A o \in Outcomes : Winner(o) \in Seats
    BY DEF None, Seats, Opponent, Outcomes, Winner

\* A valid plan is found for every seat and game.
LEMMA PlanForValid ==
    ASSUME NEW seat \in Seats, NEW game \in Nat
    PROVE  ValidPlan(PlanFor(seat, game))
<1>1. CASE <<seat, game>> \in DOMAIN Plans
    BY <1>1, PlanAssumption DEF PlanFor, ValidPolicy
<1>2. CASE <<seat, game>> \notin DOMAIN Plans
    <2> DEFINE plan == [in |-> Empty, out |-> Empty]
    <2>1. Empty \in [Cards -> Nat] /\ Empty \in [Cards -> Int]
        BY DEF Empty
    <2>2. SumOver(Empty)[Cards] = 0
        <3> DEFINE Wrong == {r \in SUBSET Cards : SumOver(Empty)[r] # 0}
        <3> SUFFICES ASSUME Wrong # {} PROVE FALSE
            OBVIOUS
        <3>1. PICK r \in Wrong : \A q \in Wrong : q \subseteq r => q = r
            <4>1. Wrong \subseteq SUBSET Cards
                OBVIOUS
            <4> HIDE DEF Wrong
            <4> QED BY <4>1, LeastSet
        <3>2. r # {} /\ r \in SUBSET Cards
            <4>1. SumOver(Empty)[{}] = 0
                BY SumRecursion
            <4> QED
                BY <4>1
        <3>3. Pick(r) \in r /\ Pick(r) \in Cards /\ r \ {Pick(r)} \in SUBSET Cards
            BY <3>2, Picked
        <3>4. SumOver(Empty)[r \ {Pick(r)}] = 0
            BY <3>1, <3>3
        <3>5. SumOver(Empty)[r] = Empty[Pick(r)] + SumOver(Empty)[r \ {Pick(r)}]
            BY <3>2, SumRecursion
        <3>6. Empty[Pick(r)] = 0
            BY <3>3 DEF Empty
        <3> QED
            BY <3>4, <3>5, <3>6
    <2>3. Total(Empty) <= SideSize
        BY <2>2, TotalIsSum, SizeAssumption
    <2>4. \A c \in Cards : Empty[c] = 0
        BY DEF Empty
    <2>5. ValidPlan(plan)
        BY <2>1, <2>3, <2>4 DEF ValidPlan
    <2> QED
        BY <1>2, <2>5 DEF PlanFor
<1> QED
    BY <1>1, <1>2

-----------------------------------------------------------------------------
(* The steps.                                                              *)

\* Choosing play or draw with admitted decks, whichever call does it.
LEMMA PrepareKeeps ==
    ASSUME IInv, NEW start \in Seats, NEW configurations, Prepare(start, configurations),
           \A s \in Seats :
               /\ CombinedCounts(configurations[s]) = CombinedCounts(Registered[s])
               /\ Total(configurations[s].main) = MainSize
               /\ gameIndex = 1 => configurations[s] = Registered[s],
           call'.pc # "consult"
    PROVE  IInv'
<1>1. /\ phase = "choice" /\ phase' = "result" /\ starter' = start
      /\ UNCHANGED <<wins, games, gameIndex, chooser, champion>>
      /\ prepared' = [game_index |-> gameIndex, configurations |-> configurations]
    BY DEF Prepare, ChoosePlayDraw
<1>2. MatchType'
    BY <1>1 DEF IInv, MatchType
<1>3. ScoreMatchesRecord'
    BY <1>1 DEF IInv, ScoreMatchesRecord, WonBy
<1>4. LoserChooses'
    BY <1>1 DEF IInv, LoserChooses
<1>5. ChooserInv'
    BY <1>1 DEF IInv, ChooserInv, ChooserFor, Decided
<1>6. PlayedDecksRegistered'
    BY <1>1 DEF PlayedDecksRegistered
<1>7. CallInv'
    BY DEF CallInv
<1> QED
    BY <1>2, <1>3, <1>4, <1>5, <1>6, <1>7 DEF IInv

\* A registered deck, and any complete configuration, has its sizes.
LEMMA DeckSizes ==
    /\ \A s \in Seats : Registered[s] \in Configurations
    /\ \A c \in Configurations : Total(c.main) = MainSize
    BY RegisteredAssumption DEF Configurations, BagsOfSize

\* prepare_game_v1.
LEMMA PrepareGameKeeps ==
    ASSUME IInv, NEW start \in Seats, PrepareGame(start)
    PROVE  IInv'
<1>1. call' = call /\ call'.pc # "consult" /\ gameIndex \in Nat
    BY DEF PrepareGame, IInv, MatchType
<1>2. CASE gameIndex = 1 /\ Prepare(start, Registered)
    BY <1>1, <1>2, DeckSizes, PrepareKeeps
<1>3. CASE /\ gameIndex > 1
           /\ \A s \in Seats : PlanFits(s, PlanFor(s, gameIndex))
           /\ Prepare(start, [s \in Seats |-> ApplyPlan(s, PlanFor(s, gameIndex))])
    <2> DEFINE configurations == [s \in Seats |-> ApplyPlan(s, PlanFor(s, gameIndex))]
    <2>1. ASSUME NEW s \in Seats
          PROVE  /\ CombinedCounts(configurations[s]) = CombinedCounts(Registered[s])
                 /\ Total(configurations[s].main) = MainSize
        <3>1. configurations[s] = ApplyPlan(s, PlanFor(s, gameIndex))
            OBVIOUS
        <3>2. ValidPlan(PlanFor(s, gameIndex)) /\ PlanFits(s, PlanFor(s, gameIndex))
            BY <1>1, <1>3, PlanForValid
        <3> HIDE DEF configurations
        <3> QED
            BY <3>1, <3>2, PlanKeepsDeck
    <2>2. Prepare(start, configurations) /\ gameIndex # 1
        BY <1>1, <1>3
    <2> HIDE DEF configurations
    <2> QED
        BY <1>1, <2>1, <2>2, PrepareKeeps
<1> QED
    BY <1>2, <1>3 DEF PrepareGame

\* prepare_game_with_configurations_v1.
LEMMA PrepareWithConfigurationsKeeps ==
    ASSUME IInv, NEW start \in Seats, NEW configurations \in [Seats -> Configurations],
           PrepareWithConfigurations(start, configurations)
    PROVE  IInv'
<1>1. call'.pc # "consult" /\ Prepare(start, configurations)
    BY DEF PrepareWithConfigurations
<1> QED
    BY <1>1, DeckSizes, PrepareKeeps DEF PrepareWithConfigurations, Admissible

\* prepare_game_with_live_policies_v1, game one.
LEMMA LiveGameOneKeeps ==
    ASSUME IInv, NEW start \in Seats, NEW live, LiveGameOne(start, live)
    PROVE  IInv'
    BY DeckSizes, PrepareKeeps DEF LiveGameOne

\* A step of the call that leaves the match and the prepared decks alone.
LEMMA CallKeeps ==
    ASSUME IInv, UNCHANGED <<matchState, prepared>>, CallInv'
    PROVE  IInv'
<1>1. UNCHANGED <<wins, games, phase, gameIndex, chooser, starter, champion, prepared>>
    BY DEF matchState
<1>2. MatchType'
    BY <1>1 DEF IInv, MatchType
<1>3. ScoreMatchesRecord'
    BY <1>1 DEF IInv, ScoreMatchesRecord, WonBy
<1>4. LoserChooses'
    BY <1>1 DEF IInv, LoserChooses
<1>5. ChooserInv'
    BY <1>1 DEF IInv, ChooserInv, ChooserFor, Decided
<1>6. PlayedDecksRegistered'
    BY <1>1 DEF IInv, PlayedDecksRegistered
<1> QED
    BY <1>2, <1>3, <1>4, <1>5, <1>6 DEF IInv

\* The choice is probed on a clone.
LEMMA ProbeLiveKeeps ==
    ASSUME IInv, NEW start \in Seats, NEW live, ProbeLive(start, live)
    PROVE  IInv'
<1>1. CallInv'
    BY DEF ProbeLive, CallInv, matchState
<1> QED
    BY <1>1, CallKeeps DEF ProbeLive

\* A seat is consulted.
LEMMA ConsultSeatKeeps ==
    ASSUME IInv, NEW configuration \in Configurations, ConsultSeat(configuration)
    PROVE  IInv'
<1>1. CallInv /\ call.pc = "consult" /\ Len(call.chosen) \in Seats
    BY DEF IInv, ConsultSeat, NextSeat
<1>2. /\ call.chosen \in Seq(Configurations)
      /\ call'.start = call.start /\ call'.chosen = Append(call.chosen, configuration)
    BY <1>1 DEF CallInv, ConsultSeat
<1>3. call'.chosen \in Seq(Configurations) /\ Len(call'.chosen) <= 2
    BY <1>1, <1>2 DEF Seats
<1>4. CallInv'
    BY <1>1, <1>2, <1>3 DEF CallInv, ConsultSeat, matchState
<1> QED
    BY <1>4, CallKeeps DEF ConsultSeat

\* The call fails.
LEMMA ConsultFailsKeeps ==
    ASSUME IInv, ConsultFails
    PROVE  IInv'
    BY CallKeeps DEF ConsultFails, CallInv, NoCall

\* The real advance at the end of the call.
LEMMA CommitLiveKeeps ==
    ASSUME IInv, CommitLive
    PROVE  IInv'
<1> DEFINE configurations == [s \in Seats |-> call.chosen[s + 1]]
<1>1. /\ call.start \in Seats /\ call.chosen \in Seq(Configurations)
      /\ Len(call.chosen) <= 2 /\ Len(call.chosen) \notin Seats
    BY DEF CommitLive, IInv, CallInv, NextSeat
<1>2. Len(call.chosen) = 2
    <2>1. Len(call.chosen) \in Nat /\ Len(call.chosen) <= 2
        BY <1>1
    <2>2. Len(call.chosen) # 0 /\ Len(call.chosen) # 1
        BY <1>1 DEF Seats
    <2>3. \A x \in Nat : x <= 2 /\ x # 0 /\ x # 1 => x = 2
        OBVIOUS
    <2> QED
        BY <2>1, <2>2, <2>3, Zenon
<1>3. configurations \in [Seats -> Configurations]
    BY <1>1, <1>2 DEF Seats
<1>4. call'.pc # "consult"
    BY DEF CommitLive, NoCall
<1>5. CASE Admissible(configurations) /\ Prepare(call.start, configurations)
    <2> HIDE DEF configurations
    <2> QED
        BY <1>1, <1>3, <1>4, <1>5, DeckSizes, PrepareKeeps DEF Admissible
<1>6. CASE UNCHANGED <<matchState, prepared>>
    BY <1>4, <1>6, CallKeeps DEF CallInv
<1> QED
    BY <1>5, <1>6 DEF CommitLive

\* The largest of a set that is bounded by one of its members.
LEMMA MaxIs ==
    ASSUME NEW S, S \subseteq Nat, NEW m \in S, \A y \in S : y <= m
    PROVE  Max(S) = m
<1>1. \A y \in S : m >= y
    OBVIOUS
<1>2. Max(S) \in S /\ \A y \in S : Max(S) >= y
    BY <1>1 DEF Max
<1>3. Max(S) \in Nat /\ m \in Nat /\ Max(S) >= m /\ Max(S) <= m
    BY <1>2
<1> QED
    BY <1>3

\* record_game_result_v1: the score.
LEMMA RecordScore ==
    ASSUME IInv, NEW outcome \in Outcomes, RecordGameResult(outcome)
    PROVE  ScoreMatchesRecord'
<1> DEFINE n == Len(games)
           g == [game_index |-> gameIndex, chooser |-> chooser, starter |-> starter, outcome |-> outcome]
           Won(p) == outcome # "draw" /\ p = Winner(outcome)
<1>1. /\ phase = "result" /\ games' = Append(games, g) /\ games \in Seq(GameRecords) /\ g \in GameRecords
      /\ wins' = [p \in Seats |-> IF Won(p) THEN wins[p] + 1 ELSE wins[p]]
      /\ wins \in [Seats -> Nat] /\ n \in Nat /\ champion \in Seats \cup {None}
    BY DEF RecordGameResult, Record, IInv, MatchType, GameRecords
<1>2. Len(games') = n + 1 /\ games'[n + 1] = g /\ \A k \in 1..n : games'[k] = games[k]
    BY <1>1
<1>3. \A p \in Seats : wins[p] = Cardinality(WonBy(p, n)) /\ wins[p] < 2
    BY <1>1 DEF IInv, ScoreMatchesRecord, WinsRequired
<1>4. ASSUME NEW p \in Seats PROVE wins'[p] = Cardinality(WonBy(p, Len(games)))'
    <2>1. WonBy(p, Len(games))' = IF Won(p) THEN WonBy(p, n) \cup {n + 1} ELSE WonBy(p, n)
        <3>1. \A k : k \in 1..n + 1 <=> k \in 1..n \/ k = n + 1
            BY <1>1
        <3>2. g.outcome = outcome
            OBVIOUS
        <3> QED
            BY <1>1, <1>2, <3>1, <3>2 DEF WonBy
    <2>2. IsFiniteSet(WonBy(p, n)) /\ n + 1 \notin WonBy(p, n)
        <3>1. IsFiniteSet(1..n)
            BY <1>1, FS_Interval
        <3>2. WonBy(p, n) \in SUBSET (1..n)
            BY DEF WonBy
        <3>3. n + 1 \notin 1..n
            BY <1>1
        <3> QED
            BY <3>1, <3>2, <3>3, FS_Subset
    <2>3. Cardinality(WonBy(p, n) \cup {n + 1}) = Cardinality(WonBy(p, n)) + 1
        BY <2>2, FS_AddElement
    <2> QED
        BY <1>1, <1>3, <2>1, <2>3
<1>5. \A p \in Seats : wins'[p] = (IF Won(p) THEN wins[p] + 1 ELSE wins[p]) /\ wins[p] \in Nat
    BY <1>1
<1>6. CASE Decides(outcome) /\ phase' = "complete" /\ champion' = Winner(outcome)
    <2>1. outcome # "draw" /\ wins[Winner(outcome)] + 1 >= 2 /\ Winner(outcome) \in Seats
        BY <1>6, SeatFacts DEF Decides, WinsRequired
    <2>2. wins'[Winner(outcome)] = 2 /\ \A p \in Seats : p # Winner(outcome) => wins'[p] < 2
        BY <1>3, <1>5, <2>1
    <2> QED
        BY <1>4, <1>6, <2>1, <2>2 DEF ScoreMatchesRecord, WinsRequired
<1>7. CASE ~Decides(outcome) /\ phase' = "choice"
    <2>1. \A p \in Seats : wins'[p] < 2
        BY <1>3, <1>5, <1>7 DEF Decides, WinsRequired
    <2> QED
        BY <1>4, <1>7, <2>1 DEF ScoreMatchesRecord, WinsRequired
<1> QED
    BY <1>6, <1>7 DEF RecordGameResult, Record

\* record_game_result_v1: who chooses, on the record and next.
LEMMA RecordChooser ==
    ASSUME IInv, NEW outcome \in Outcomes, RecordGameResult(outcome)
    PROVE  LoserChooses' /\ ChooserInv'
<1>0. PICK n : n = Len(games)
    OBVIOUS
<1> DEFINE g == [game_index |-> gameIndex, chooser |-> chooser, starter |-> starter, outcome |-> outcome]
<1>1. /\ phase = "result" /\ games' = Append(games, g) /\ games \in Seq(GameRecords) /\ g \in GameRecords
      /\ n \in Nat
    BY <1>0 DEF RecordGameResult, Record, IInv, MatchType, GameRecords
<1>2. /\ Len(games') = n + 1 /\ games'[n + 1] = g /\ \A k \in 1..n : games'[k] = games[k]
      /\ g.chooser = chooser /\ g.outcome = outcome
    BY <1>0, <1>1
<1>3. \A m \in 1..n + 1 : Decided(m)' = Decided(m)
    BY <1>1, <1>2 DEF Decided
<1>4. Decided(n + 2)' = IF outcome = "draw" THEN Decided(n + 1) ELSE Decided(n + 1) \cup {n + 1}
    <2>1. \A k : k \in 1..n + 1 <=> k \in 1..n \/ k = n + 1
        BY <1>1
    <2>2. (n + 2) - 1 = n + 1 /\ (n + 1) - 1 = n
        BY <1>1
    <2> QED
        BY <1>1, <1>2, <2>1, <2>2 DEF Decided
<1>5. ASSUME NEW m \in 1..n + 1, Decided(m) # {}
      PROVE  Max(Decided(m)) \in 1..n
    <2>1. Max(Decided(m)) \in Decided(m)
        <3>1. \E x \in Decided(m) : \A y \in Decided(m) : x >= y
            <4> DEFINE T == {b \in Nat : \A y \in Decided(m) : b >= y}
            <4>1. n \in T /\ T \subseteq Nat
                BY <1>1 DEF Decided
            <4> HIDE DEF T
            <4>2. PICK b \in T : \A d \in T : b <= d
                BY <4>1, LeastNumber
            <4> USE DEF T
            <4>3. b \in Decided(m)
                <5> SUFFICES ASSUME b \notin Decided(m) PROVE FALSE
                    OBVIOUS
                <5>1. \A y \in Decided(m) : y \in Nat \ {0} /\ y <= b /\ y # b
                    BY <1>1, <4>2 DEF Decided
                <5>2. b \in Nat /\ b # 0
                    BY <1>5, <4>2, <5>1
                <5>3. b - 1 \in T
                    BY <5>1, <5>2
                <5> QED
                    BY <4>2, <5>2, <5>3
            <4> QED
                BY <4>2, <4>3
        <3> QED
            BY <3>1 DEF Max
    <2> QED
        BY <1>1, <2>1 DEF Decided
<1>6. ASSUME NEW m \in 1..n
      PROVE  games[m].chooser = IF Decided(m) = {} THEN games[1].chooser
                                ELSE Opponent(Winner(games[Max(Decided(m))].outcome))
    BY <1>0, <1>1 DEF IInv, LoserChooses, Decided
<1>7. chooser = ChooserFor(n + 1)
    BY <1>0, <1>1 DEF IInv, ChooserInv
<1>8. ASSUME NEW m \in 1..n + 1
      PROVE  games'[m].chooser = IF Decided(m) = {} THEN games'[1].chooser
                                 ELSE Opponent(Winner(games'[Max(Decided(m))].outcome))
    <2>1. Decided(m) # {} => games'[Max(Decided(m))] = games[Max(Decided(m))]
        BY <1>2, <1>5
    <2>2. CASE m \in 1..n
        <3>1. games'[1] = games[1] /\ games'[m] = games[m]
            BY <1>1, <1>2, <2>2
        <3> QED
            BY <1>6, <2>1, <2>2, <3>1
    <2>3. CASE m = n + 1
        <3>1. CASE n = 0
            <4>1. Decided(m) = {}
                BY <2>3, <3>1 DEF Decided
            <4> QED
                BY <2>3, <3>1, <4>1
        <3>2. CASE n # 0
            <4>1. games'[1] = games[1] /\ n + 1 # 1
                BY <1>1, <1>2, <3>2
            <4> QED
                BY <1>2, <1>7, <2>1, <2>3, <4>1 DEF ChooserFor
        <3> QED BY <3>1, <3>2
    <2>4. m \in 1..n \/ m = n + 1
        BY <1>1, <1>8
    <2> QED
        BY <2>2, <2>3, <2>4
<1>9. LoserChooses'
    <2> SUFFICES ASSUME NEW m \in 1..Len(games')
                 PROVE  games'[m].chooser =
                            LET decided == {k \in 1..m - 1 : games'[k].outcome # "draw"}
                            IN IF decided = {} THEN games'[1].chooser
                               ELSE Opponent(Winner(games'[Max(decided)].outcome))
        BY DEF LoserChooses
    <2>1. m \in 1..n + 1
        BY <1>2
    <2>2. {k \in 1..m - 1 : games'[k].outcome # "draw"} = Decided(m)
        BY <1>3, <2>1 DEF Decided
    <2> QED
        BY <1>8, <2>1, <2>2
<1>10. ChooserInv'
    <2> SUFFICES ASSUME phase' # "complete"
                 PROVE  chooser' = ChooserFor(n + 2)'
        <3>1. Len(games') + 1 = n + 2
            BY <1>1, <1>2
        <3>2. ChooserFor(Len(games) + 1)' = ChooserFor(n + 2)'
            BY <3>1 DEF ChooserFor, Decided
        <3> QED
            BY <3>2 DEF ChooserInv
    <2>1. chooser' = NextChooser(outcome)
        BY DEF RecordGameResult, Record
    <2>2. n + 2 # 1
        BY <1>1
    <2>3. CASE outcome = "draw"
        <3>1. chooser' = chooser /\ Decided(n + 2)' = Decided(n + 1)
            BY <1>4, <2>1, <2>3 DEF NextChooser
        <3>2. ChooserFor(n + 2)' = IF Decided(n + 1) = {} THEN games'[1].chooser
                                   ELSE Opponent(Winner(games'[Max(Decided(n + 1))].outcome))
            BY <2>2, <3>1 DEF ChooserFor
        <3>3. n + 1 \in 1..n + 1 /\ games'[n + 1].chooser = chooser
            BY <1>1, <1>2
        <3> QED
            BY <1>8, <3>1, <3>2, <3>3
    <2>4. CASE outcome # "draw"
        <3>1. chooser' = Opponent(Winner(outcome))
            BY <2>1, <2>4 DEF NextChooser
        <3>2. Decided(n + 2)' = Decided(n + 1) \cup {n + 1}
            BY <1>4, <2>4
        <3>3. Max(Decided(n + 1) \cup {n + 1}) = n + 1
            <4>1. \A y \in Decided(n + 1) : y \in Nat /\ y <= n + 1
                BY <1>1 DEF Decided
            <4>2. n + 1 \in Nat /\ n + 1 <= n + 1
                BY <1>1
            <4> DEFINE S == Decided(n + 1) \cup {n + 1}
            <4>3. S \subseteq Nat /\ n + 1 \in S /\ \A y \in S : y <= n + 1
                BY <4>1, <4>2
            <4> HIDE DEF S
            <4>4. Max(S) = n + 1
                BY <4>3, MaxIs
            <4> QED BY <4>4 DEF S
        <3>4. ChooserFor(n + 2)' = Opponent(Winner(games'[Max(Decided(n + 1) \cup {n + 1})].outcome))
            BY <3>2 DEF ChooserFor
        <3> QED
            BY <1>2, <3>1, <3>3, <3>4
    <2> QED BY <2>3, <2>4
<1> QED
    BY <1>9, <1>10

\* record_game_result_v1, the whole step.
LEMMA RecordKeeps ==
    ASSUME IInv, NEW outcome \in Outcomes, RecordGameResult(outcome)
    PROVE  IInv'
<1>1. MatchType /\ phase = "result" /\ call' = call /\ call.pc = "idle" /\ phase' # "result"
    BY DEF IInv, RecordGameResult, Record
<1>2. MatchType'
    <2>1. wins' \in [Seats -> Nat] /\ starter' = None
        BY <1>1 DEF MatchType, RecordGameResult, Record
    <2>2. games' \in Seq(GameRecords)
        BY <1>1 DEF MatchType, RecordGameResult, Record, GameRecords
    <2>3. /\ phase' \in {"choice", "complete"} /\ gameIndex' \in Nat \ {0}
          /\ chooser' \in Seats /\ champion' \in Seats \cup {None}
        BY <1>1, SeatFacts DEF MatchType, RecordGameResult, Record, NextChooser
    <2> QED
        BY <2>1, <2>2, <2>3 DEF MatchType
<1>3. PlayedDecksRegistered' /\ CallInv'
    BY <1>1 DEF PlayedDecksRegistered, CallInv
<1> QED
    BY <1>2, <1>3, RecordScore, RecordChooser DEF IInv

-----------------------------------------------------------------------------
(* Induction, and what follows.                                            *)

\* The initial state satisfies the invariant.
LEMMA InitIInv == Init => IInv
<1> SUFFICES ASSUME Init PROVE IInv
    OBVIOUS
<1>1. games = <<>> /\ wins = [p \in Seats |-> 0] /\ phase = "choice" /\ gameIndex = 1 /\ chooser \in Seats
      /\ starter = None /\ champion = None /\ call = NoCall /\ Len(games) = 0
    BY DEF Init, NewMatch
<1>2. MatchType
    BY <1>1 DEF MatchType
<1>3. ScoreMatchesRecord
    <2>1. \A p \in Seats : WonBy(p, Len(games)) = {}
        BY <1>1 DEF WonBy
    <2>2. \A p \in Seats : wins[p] = 0 /\ Cardinality(WonBy(p, Len(games))) = 0
        BY <1>1, <2>1, FS_EmptySet
    <2> QED
        BY <1>1, <2>2 DEF ScoreMatchesRecord, WinsRequired
<1>4. LoserChooses
    BY <1>1 DEF LoserChooses
<1>5. ChooserInv
    <2>1. Decided(1) = {}
        BY DEF Decided
    <2> QED
        BY <1>1, <2>1 DEF ChooserInv, ChooserFor
<1>6. PlayedDecksRegistered /\ CallInv
    BY <1>1 DEF PlayedDecksRegistered, CallInv, NoCall
<1> QED
    BY <1>2, <1>3, <1>4, <1>5, <1>6 DEF IInv

\* Every step keeps the invariant.
LEMMA NextIInv == IInv /\ [Next]_vars => IInv'
<1> SUFFICES ASSUME IInv, [Next]_vars PROVE IInv'
    OBVIOUS
<1>1. CASE UNCHANGED vars
    <2>1. UNCHANGED <<matchState, prepared>> /\ CallInv'
        BY <1>1 DEF vars, matchState, IInv, CallInv
    <2> QED
        BY <2>1, CallKeeps
<1>2. CASE Next
    BY <1>2, PrepareGameKeeps, PrepareWithConfigurationsKeeps, LiveGameOneKeeps, ProbeLiveKeeps,
       ConsultSeatKeeps, ConsultFailsKeeps, CommitLiveKeeps, RecordKeeps DEF Next
<1> QED
    BY <1>1, <1>2

\* The invariant holds always.
THEOREM Inductive == Spec => []IInv
    BY InitIInv, NextIInv, PTL DEF Spec

\* The score is the score of the games on record and the match ends exactly
\* with the second win, for any number of draws and refused calls.
THEOREM ScoreIsTheRecord == Spec => []ScoreMatchesRecord
<1>1. IInv => ScoreMatchesRecord
    BY DEF IInv
<1> QED
    BY <1>1, Inductive, PTL

\* The loser of the last decided game chooses play or draw, however many draws
\* came in between.
THEOREM LastLoserChooses == Spec => []LoserChooses
<1>1. IInv => LoserChooses
    BY DEF IInv
<1> QED
    BY <1>1, Inductive, PTL

\* Whatever plan, policy or explicit configuration prepared a game, both seats
\* play their registered cards with a mainboard of the registered size.
THEOREM DecksStayRegistered == Spec => []PlayedDecksRegistered
<1>1. IInv => PlayedDecksRegistered
    BY DEF IInv
<1> QED
    BY <1>1, Inductive, PTL

-----------------------------------------------------------------------------
(* London mulligans: the inductive invariant.                              *)

\* No card is in the sequence twice.
Distinct(l) == \A i, j \in 1 .. Len(l) : l[i] = l[j] => i = j

\* The cards of a deck are in the hand, in the library or in exile, each in
\* one place.
ZonesOf(d, h, l, e) ==
    /\ h \subseteq d /\ l \in Seq(d) /\ e \subseteq d
    /\ d = h \cup ToSet(l) \cup e
    /\ h \cap ToSet(l) = {} /\ h \cap e = {} /\ ToSet(l) \cap e = {}
    /\ Distinct(l)

\* Every Serum Powder in exile took at most one full hand there.
PowdersPay(e) == Cardinality(e) <= HandSize * Cardinality(e \cap Powders)

\* Which turn a player has in each stage.
Turn(p) == IF p = starting THEN 0 ELSE 1

TypeOk ==
    /\ starting \in Players /\ counts \in [Players -> Nat]
    /\ kept \in [Players -> BOOLEAN] /\ mulliganThisRound \in [Players -> BOOLEAN]
    /\ stage \in {"announce", "bottom", "complete"} /\ next \in 0 .. 2 /\ remaining \in Nat
    /\ DOMAIN hands = Players /\ DOMAIN declined = Players
    /\ hand \in [Players -> SUBSET DeckCards] /\ library \in [Players -> Seq(DeckCards)]
    /\ exile \in [Players -> SUBSET DeckCards] /\ zcc \in [DeckCards -> Nat]

\* How many cards a player holds: the hand that was paid for, except after a
\* redraw until the last card is bottomed.
HandLength(p) ==
    IF stage # "bottom" \/ ~mulliganThisRound[p] \/ Turn(p) < next THEN HandSize - counts[p]
    ELSE IF Turn(p) = next /\ remaining > 0 THEN HandSize - counts[p] + remaining
    ELSE HandSize

\* What is known of a player's announcement in this round.
AnnouncedOnce(p) ==
    /\ kept[p] => ~mulliganThisRound[p]
    /\ stage = "announce" /\ next <= Turn(p) => ~mulliganThisRound[p]
    /\ stage = "announce" /\ mulliganThisRound[p] => counts[p] < HandSize

\* What holds of each player.
OfPlayer(p) ==
    /\ counts[p] <= HandSize
    /\ hands[p] = Bindings(hand[p], zcc)
    /\ ZonesOf(Deck[p], hand[p], library[p], exile[p])
    /\ PowdersPay(exile[p])
    /\ Cardinality(hand[p]) = HandLength(p)
    /\ AnnouncedOnce(p)

\* Only a player who has redrawn is asked to bottom, one card per mulligan.
Asked ==
    remaining > 0 =>
        /\ stage = "bottom" /\ next < 2
        /\ mulliganThisRound[Player(next)] /\ remaining <= counts[Player(next)]

\* The inductive invariant of the pregame.
MulliganInv == TypeOk /\ Asked /\ \A p \in Players : OfPlayer(p)

-----------------------------------------------------------------------------
(* The zones.                                                              *)

\* A library without repetition has as many cards as places.
LEMMA DistinctCount ==
    ASSUME NEW d, NEW l \in Seq(d), Distinct(l)
    PROVE  IsFiniteSet(ToSet(l)) /\ Cardinality(ToSet(l)) = Len(l)
<1> DEFINE n == Len(l)
<1>1. n \in Nat /\ DOMAIN l = 1 .. n
    OBVIOUS
<1>2. IsFiniteSet(1 .. n) /\ Cardinality(1 .. n) = n
  <2> HIDE DEF n
  <2>1. IsFiniteSet(1 .. n) /\ Cardinality(1 .. n) = IF 1 > n THEN 0 ELSE n - 1 + 1
      BY <1>1, FS_Interval
  <2> QED
      BY <1>1, <2>1
<1>3. l \in [1 .. n -> ToSet(l)]
    BY <1>1 DEF ToSet
<1>4. l \in Surjection(1 .. n, ToSet(l))
    BY <1>1, <1>3 DEF ToSet, Surjection
<1>5. l \in Injection(1 .. n, ToSet(l))
    BY <1>1, <1>3 DEF Distinct, Injection, IsInjective
<1> QED
    BY <1>2, <1>4, <1>5, FS_Surjection

\* Taking cards off the top: both parts of a library without repetition.
LEMMA SplitLibrary ==
    ASSUME NEW d, NEW l \in Seq(d), Distinct(l), NEW n \in Nat, n <= Len(l)
    PROVE  /\ SubSeq(l, 1, n) \in Seq(d) /\ Len(SubSeq(l, 1, n)) = n
           /\ SubSeq(l, n + 1, Len(l)) \in Seq(d)
           /\ Distinct(SubSeq(l, 1, n)) /\ Distinct(SubSeq(l, n + 1, Len(l)))
           /\ ToSet(l) = ToSet(SubSeq(l, 1, n)) \cup ToSet(SubSeq(l, n + 1, Len(l)))
           /\ ToSet(SubSeq(l, 1, n)) \cap ToSet(SubSeq(l, n + 1, Len(l))) = {}
<1> DEFINE top == SubSeq(l, 1, n)
           under == SubSeq(l, n + 1, Len(l))
<1>1. /\ top \in Seq(d) /\ Len(top) = n
      /\ \A i \in 1 .. n : top[i] = l[i]
    OBVIOUS
<1>2. /\ under \in Seq(d) /\ Len(under) = Len(l) - n
      /\ \A i \in 1 .. Len(l) - n : under[i] = l[n + i]
    OBVIOUS
<1> HIDE DEF top, under
<1>3. Distinct(top)
    BY <1>1 DEF Distinct
<1>4. Distinct(under)
    BY <1>2 DEF Distinct
<1>5. ToSet(l) = {l[i] : i \in 1 .. Len(l)}
    BY DEF ToSet
<1>6. ToSet(top) = {l[i] : i \in 1 .. n}
    BY <1>1 DEF ToSet
<1>7. ToSet(under) = {l[i] : i \in n + 1 .. Len(l)}
  <2>0. DOMAIN under = 1 .. Len(l) - n
      BY <1>2
  <2>1. ToSet(under) = {l[n + i] : i \in 1 .. Len(l) - n}
      BY ONLY <1>2, <2>0 DEF ToSet
  <2>2. \A i \in n + 1 .. Len(l) : i - n \in 1 .. Len(l) - n /\ n + (i - n) = i
      OBVIOUS
  <2>3. \A i \in 1 .. Len(l) - n : n + i \in n + 1 .. Len(l)
      OBVIOUS
  <2> QED
      BY <2>1, <2>2, <2>3
<1>8. ToSet(l) = ToSet(top) \cup ToSet(under)
    BY <1>5, <1>6, <1>7
<1>9. ToSet(top) \cap ToSet(under) = {}
    BY <1>6, <1>7 DEF Distinct
<1> QED
    BY <1>1, <1>2, <1>3, <1>4, <1>8, <1>9 DEF top, under

\* A card put on the bottom of a library that does not hold it.
LEMMA BottomLibrary ==
    ASSUME NEW d, NEW l \in Seq(d), Distinct(l), NEW c \in d, c \notin ToSet(l)
    PROVE  /\ Append(l, c) \in Seq(d) /\ Distinct(Append(l, c))
           /\ ToSet(Append(l, c)) = ToSet(l) \cup {c}
<1> DEFINE m == Append(l, c)
<1>1. /\ m \in Seq(d) /\ Len(m) = Len(l) + 1 /\ m[Len(l) + 1] = c
      /\ \A i \in 1 .. Len(l) : m[i] = l[i]
    OBVIOUS
<1>2. \A i \in 1 .. Len(l) : l[i] # c
    BY DEF ToSet
<1> HIDE DEF m
<1>3. Distinct(m)
    BY <1>1, <1>2 DEF Distinct
<1>4. ToSet(m) = {m[i] : i \in 1 .. Len(l)} \cup {m[Len(l) + 1]}
    BY <1>1 DEF ToSet
<1>5. {m[i] : i \in 1 .. Len(l)} = ToSet(l)
    BY <1>1 DEF ToSet
<1> QED
    BY <1>1, <1>3, <1>4, <1>5 DEF m

\* Disjoint finite sets are counted one after the other.
LEMMA DisjointUnion ==
    ASSUME NEW S, IsFiniteSet(S), NEW T, IsFiniteSet(T), S \cap T = {}
    PROVE  /\ IsFiniteSet(S \cup T)
           /\ Cardinality(S \cup T) = Cardinality(S) + Cardinality(T)
<1>1. Cardinality(S) \in Nat /\ Cardinality(T) \in Nat
    BY FS_CardinalityType
<1>2. Cardinality(S \cap T) = 0
    BY FS_EmptySet
<1>3. /\ IsFiniteSet(S \cup T)
      /\ Cardinality(S \cup T) = Cardinality(S) + Cardinality(T) - Cardinality(S \cap T)
    BY FS_Union
<1> QED
    BY <1>1, <1>2, <1>3

\* The decks are finite, and their cards are counted zone by zone.
LEMMA ZoneCount ==
    ASSUME NEW d, IsFiniteSet(d), NEW h, NEW l, NEW e, ZonesOf(d, h, l, e)
    PROVE  /\ IsFiniteSet(h) /\ Cardinality(h) \in Nat
           /\ IsFiniteSet(e) /\ Cardinality(e) \in Nat
           /\ Len(l) \in Nat
           /\ Cardinality(h) + Len(l) + Cardinality(e) = Cardinality(d)
<1>1. IsFiniteSet(h) /\ IsFiniteSet(e)
    BY FS_Subset DEF ZonesOf
<1>2. Cardinality(h) \in Nat /\ Cardinality(e) \in Nat
    BY <1>1, FS_CardinalityType
<1>3. l \in Seq(d) /\ Len(l) \in Nat
    BY DEF ZonesOf
<1>4. IsFiniteSet(ToSet(l)) /\ Cardinality(ToSet(l)) = Len(l)
    BY <1>3, DistinctCount DEF ZonesOf
<1>5. h \cap ToSet(l) = {} /\ (h \cup ToSet(l)) \cap e = {} /\ d = (h \cup ToSet(l)) \cup e
    BY DEF ZonesOf
<1>6. /\ IsFiniteSet(h \cup ToSet(l))
      /\ Cardinality(h \cup ToSet(l)) = Cardinality(h) + Len(l)
    BY <1>1, <1>4, <1>5, DisjointUnion
<1>7. Cardinality((h \cup ToSet(l)) \cup e) = Cardinality(h) + Len(l) + Cardinality(e)
    BY <1>1, <1>5, <1>6, DisjointUnion
<1> QED
    BY <1>1, <1>2, <1>3, <1>5, <1>7

\* A shuffle of a finite pool is a sequence of all its cards, each once.
LEMMA ShuffleOf ==
    ASSUME NEW s, IsFiniteSet(s), NEW l \in SetToSeqs(s)
    PROVE  l \in Seq(s) /\ ToSet(l) = s /\ Distinct(l)
<1> DEFINE n == Cardinality(s)
<1>1. n \in Nat
    BY FS_CardinalityType
<1>2. /\ l \in [1 .. n -> s]
      /\ \A i, j \in 1 .. n : i # j => l[i] # l[j]
    BY DEF SetToSeqs
<1> HIDE DEF n
<1>3. l \in Seq(s) /\ Len(l) = n
    BY <1>1, <1>2
<1>4. Distinct(l)
    BY <1>2, <1>3 DEF Distinct
<1>5. l \in Injection(1 .. n, s)
    BY <1>2 DEF Injection, IsInjective
<1>6. Cardinality(1 .. n) = Cardinality(s)
    BY <1>1, FS_Interval DEF n
<1>7. l \in Surjection(1 .. n, s)
    BY <1>5, <1>6, FS_Injection
<1>8. ToSet(l) = {l[i] : i \in 1 .. n}
    BY <1>2 DEF ToSet
<1>9. ToSet(l) = s
    BY <1>2, <1>7, <1>8 DEF Surjection
<1> QED
    BY <1>3, <1>4, <1>9

\* A deal of a player's pool: a full hand, the rest in the library.
LEMMA DealtZones ==
    ASSUME NEW d, IsFiniteSet(d), NEW h, NEW l, NEW e, ZonesOf(d, h, l, e),
           NEW deal \in Deals(h \cup ToSet(l))
    PROVE  ZonesOf(d, deal.hand, deal.library, e) /\ Cardinality(deal.hand) = HandSize
<1> DEFINE pool == h \cup ToSet(l)
<1>1. pool \subseteq d /\ pool \cap e = {} /\ d = pool \cup e /\ e \subseteq d
    BY DEF ZonesOf
<1>2. PICK x \in SUBSET pool :
          Cardinality(x) = HandSize /\ \E m \in SetToSeqs(pool \ x) : deal = [hand |-> x, library |-> m]
    BY DEF Deals
<1>3. PICK m \in SetToSeqs(pool \ x) : deal = [hand |-> x, library |-> m]
    BY <1>2
<1> HIDE DEF pool
<1>4. IsFiniteSet(pool \ x)
  <2>1. pool \ x \in SUBSET d
      BY <1>1
  <2> QED
      BY <2>1, FS_Subset
<1>5. m \in Seq(pool \ x) /\ ToSet(m) = pool \ x /\ Distinct(m)
    BY <1>3, <1>4, ShuffleOf
<1>6. m \in Seq(d)
    BY <1>1, <1>5
<1>7. deal.hand = x /\ deal.library = m
    BY <1>3
<1>8. ZonesOf(d, x, m, e)
    BY <1>1, <1>5, <1>6 DEF ZonesOf
<1> QED
    BY <1>2, <1>7, <1>8

\* Bottoming a card of the hand.
LEMMA BottomedZones ==
    ASSUME NEW d, IsFiniteSet(d), NEW h, NEW l, NEW e, ZonesOf(d, h, l, e), NEW c \in h
    PROVE  /\ ZonesOf(d, h \ {c}, Append(l, c), e)
           /\ Cardinality(h \ {c}) = Cardinality(h) - 1
<1>1. c \in d /\ c \notin ToSet(l) /\ l \in Seq(d) /\ Distinct(l)
    BY DEF ZonesOf
<1>2. /\ Append(l, c) \in Seq(d) /\ Distinct(Append(l, c))
      /\ ToSet(Append(l, c)) = ToSet(l) \cup {c}
    BY <1>1, BottomLibrary
<1>3. ZonesOf(d, h \ {c}, Append(l, c), e)
    BY <1>2 DEF ZonesOf
<1>4. IsFiniteSet(h)
    BY ZoneCount
<1> QED
    BY <1>3, <1>4, FS_RemoveElement

\* Products with a fixed factor.
LEMMA Monotone ==
    ASSUME NEW x \in Nat, NEW a \in Nat, NEW b \in Nat
    PROVE  /\ a <= b => x * a <= x * b
           /\ b # 0 => x * a + x <= x * (a + b)
<1>1. ASSUME a <= b PROVE x * a <= x * b
  <2>1. x * b = x * a + x * (b - a) /\ x * (b - a) \in Nat /\ x * a \in Nat
      BY <1>1
  <2> QED
      BY <2>1
<1>2. ASSUME b # 0 PROVE x * a + x <= x * (a + b)
  <2>1. x * (a + b) = x * a + x + x * (b - 1) /\ x * (b - 1) \in Nat /\ x * a \in Nat
      BY <1>2
  <2> QED
      BY <2>1
<1> QED
    BY <1>1, <1>2

\* A Serum Powder finds enough cards in the library: what is in exile came
\* there by other Powders, a hand each, and the deck has a hand for each.
LEMMA EnoughCards ==
    ASSUME NEW d, IsFiniteSet(d), NEW h, NEW l, NEW e, ZonesOf(d, h, l, e),
           Cardinality(d) >= HandSize * (1 + Cardinality(Powders \cap d)),
           PowdersPay(e), h \cap Powders # {}, Cardinality(h) <= HandSize
    PROVE  Cardinality(h) <= Len(l) /\ PowdersPay(e \cup h)
<1> DEFINE a == Cardinality(e \cap Powders)
           b == Cardinality(h \cap Powders)
           k == Cardinality(Powders \cap d)
<1>1. /\ IsFiniteSet(h) /\ Cardinality(h) \in Nat
      /\ IsFiniteSet(e) /\ Cardinality(e) \in Nat
      /\ Len(l) \in Nat
      /\ Cardinality(h) + Len(l) + Cardinality(e) = Cardinality(d)
    BY ZoneCount
<1>2. h \cap e = {} /\ h \subseteq d /\ e \subseteq d
    BY DEF ZonesOf
<1>3. /\ IsFiniteSet(e \cap Powders) /\ IsFiniteSet(h \cap Powders) /\ IsFiniteSet(Powders \cap d)
      /\ a \in Nat /\ b \in Nat /\ k \in Nat
    BY <1>1, FS_Intersection, FS_CardinalityType
<1>4. b # 0
    BY <1>3, FS_EmptySet
<1>5. (e \cap Powders) \cap (h \cap Powders) = {}
    BY <1>2
<1>6. /\ IsFiniteSet((e \cap Powders) \cup (h \cap Powders))
      /\ Cardinality((e \cap Powders) \cup (h \cap Powders)) = a + b
    BY <1>3, <1>5, DisjointUnion
<1>7. (e \cap Powders) \cup (h \cap Powders) \in SUBSET (Powders \cap d)
    BY <1>2
<1>8. a + b <= k
    BY <1>3, <1>6, <1>7, FS_Subset
<1>9. Cardinality(e \cup h) = Cardinality(e) + Cardinality(h)
    BY <1>1, <1>2, DisjointUnion
<1>10. Cardinality((e \cup h) \cap Powders) = a + b
  <2>1. (e \cup h) \cap Powders = (e \cap Powders) \cup (h \cap Powders)
      OBVIOUS
  <2> QED
      BY <1>6, <2>1
<1>11. HandSize \in Nat /\ Cardinality(e) <= HandSize * a
    BY DeckAssumption DEF PowdersPay
<1> HIDE DEF a, b, k
<1>12. HandSize * a + HandSize <= HandSize * (a + b)
    BY <1>3, <1>4, <1>11, Monotone
<1>13. HandSize * (a + b) <= HandSize * k
    BY <1>3, <1>8, <1>11, Monotone
<1>14. HandSize * (1 + k) = HandSize + HandSize * k
    BY <1>3, <1>11
<1>15. HandSize * a \in Nat /\ HandSize * (a + b) \in Nat /\ HandSize * k \in Nat
    BY <1>3, <1>11
<1>16. PICK u : u = HandSize * a
    OBVIOUS
<1>17. PICK v : v = HandSize * (a + b)
    OBVIOUS
<1>18. PICK w : w = HandSize * k
    OBVIOUS
<1>19. Cardinality(d) >= HandSize + w /\ Cardinality(d) \in Nat
    BY <1>14, <1>18, FS_CardinalityType DEF k
<1>20. /\ u \in Nat /\ v \in Nat /\ w \in Nat /\ u + HandSize <= v /\ v <= w
       /\ Cardinality(e) <= u
    BY <1>11, <1>12, <1>13, <1>15, <1>16, <1>17, <1>18
<1>21. Cardinality(h) <= Len(l)
    BY <1>1, <1>11, <1>19, <1>20
<1>22. Cardinality(e \cup h) <= v
    BY <1>1, <1>9, <1>11, <1>20
<1> QED
    BY <1>10, <1>17, <1>21, <1>22 DEF PowdersPay

\* The first n cards of a library, and the others.
Cut(l, n, top, under) == top = SubSeq(l, 1, n) /\ under = SubSeq(l, n + 1, Len(l))

\* Exiling the hand and drawing as many.
LEMMA PowderedZones ==
    ASSUME NEW d, IsFiniteSet(d), NEW h, NEW l, NEW e, ZonesOf(d, h, l, e),
           NEW n \in Nat, n <= Len(l),
           NEW top, NEW under, Cut(l, n, top, under)
    PROVE  ZonesOf(d, ToSet(top), under, e \cup h) /\ Cardinality(ToSet(top)) = n
<1>1. l \in Seq(d) /\ Distinct(l)
    BY DEF ZonesOf
<1>2. /\ top \in Seq(d) /\ Len(top) = n /\ under \in Seq(d)
      /\ Distinct(top) /\ Distinct(under)
      /\ ToSet(l) = ToSet(top) \cup ToSet(under) /\ ToSet(top) \cap ToSet(under) = {}
    BY <1>1, SplitLibrary DEF Cut
<1>3. ZonesOf(d, ToSet(top), under, e \cup h)
    BY <1>2 DEF ZonesOf
<1>4. Cardinality(ToSet(top)) = n
    BY <1>2, DistinctCount
<1> QED
    BY <1>3, <1>4

-----------------------------------------------------------------------------
(* Players and their turns.                                                *)

\* Each deck is a finite set of the cards, and has a hand for every Powder.
LEMMA Decks ==
    ASSUME NEW p \in Players
    PROVE  /\ IsFiniteSet(Deck[p]) /\ Deck[p] \subseteq DeckCards
           /\ Cardinality(Deck[p]) >= HandSize * (1 + Cardinality(Powders \cap Deck[p]))
           /\ \A q \in Players : q # p => Deck[p] \cap Deck[q] = {}
    BY DeckAssumption DEF Players, DeckCards

\* Two players, two turns.
LEMMA Turns ==
    ASSUME starting \in Players
    PROVE  /\ \A n \in {0, 1} : Player(n) \in Players /\ Turn(Player(n)) = n
           /\ \A p \in Players : Turn(p) \in {0, 1} /\ Player(Turn(p)) = p
           /\ \A p, q \in Players : p # q => Turn(p) # Turn(q)
    BY DEF Players, Player, Turn

\* A recorded hand is still right when none of its cards has changed zones.
LEMMA SameBindings ==
    ASSUME NEW h, NEW y, NEW z, \A c \in h : y[c] = z[c]
    PROVE  Bindings(h, y) = Bindings(h, z)
    BY DEF Bindings

\* Zone change counts stay counts, and change for the cards moved only.
LEMMA Bumped ==
    ASSUME NEW z \in [DeckCards -> Nat], NEW moved
    PROVE  /\ Bump(z, moved) \in [DeckCards -> Nat]
           /\ \A c \in DeckCards \ moved : Bump(z, moved)[c] = z[c]
    BY DEF Bump

\* The zones of a player are typed.
LEMMA ZonesTyped ==
    ASSUME NEW p \in Players, NEW h, NEW l, NEW e, ZonesOf(Deck[p], h, l, e)
    PROVE  h \in SUBSET DeckCards /\ l \in Seq(DeckCards) /\ e \in SUBSET DeckCards
<1>1. Deck[p] \subseteq DeckCards
    BY Decks
<1>2. h \subseteq Deck[p] /\ l \in Seq(Deck[p]) /\ e \subseteq Deck[p]
    BY DEF ZonesOf
<1> QED
    BY <1>1, <1>2

\* Steps of the stage, the announcements and the questions that move no card.
LEMMA QuietStep ==
    ASSUME MulliganInv, UNCHANGED <<starting, counts, hands, zones>>,
           kept' \in [Players -> BOOLEAN], mulliganThisRound' \in [Players -> BOOLEAN],
           stage' \in {"announce", "bottom", "complete"}, next' \in 0 .. 2, remaining' \in Nat,
           DOMAIN declined' = Players,
           Asked',
           \A p \in Players : HandLength(p)' = HandLength(p) /\ AnnouncedOnce(p)'
    PROVE  MulliganInv'
<1>1. TypeOk'
    BY DEF MulliganInv, TypeOk, zones
<1>2. ASSUME NEW p \in Players PROVE OfPlayer(p)'
  <2>1. OfPlayer(p)
      BY DEF MulliganInv
  <2>2. /\ counts' = counts /\ hands' = hands /\ hand' = hand /\ library' = library
        /\ exile' = exile /\ zcc' = zcc
      BY DEF zones
  <2>3. HandLength(p)' = HandLength(p) /\ AnnouncedOnce(p)'
      OBVIOUS
  <2> QED
      BY <2>1, <2>2, <2>3 DEF OfPlayer
<1> QED
    BY <1>1, <1>2 DEF MulliganInv

\* The first hands.
LEMMA DealInit == MulliganInit => MulliganInv
<1> SUFFICES ASSUME MulliganInit PROVE MulliganInv
    OBVIOUS
<1>0. HandSize \in Nat
    BY DeckAssumption
<1>1. PICK d0 \in Deals(Deck[0]) : \E d1 \in Deals(Deck[1]) :
          /\ hand = [p \in Players |-> IF p = 0 THEN d0.hand ELSE d1.hand]
          /\ library = [p \in Players |-> IF p = 0 THEN d0.library ELSE d1.library]
    BY DEF MulliganInit
<1>2. PICK d1 \in Deals(Deck[1]) :
          /\ hand = [p \in Players |-> IF p = 0 THEN d0.hand ELSE d1.hand]
          /\ library = [p \in Players |-> IF p = 0 THEN d0.library ELSE d1.library]
    BY <1>1
<1>3. ASSUME NEW p \in Players, NEW deal \in Deals(Deck[p])
      PROVE  ZonesOf(Deck[p], deal.hand, deal.library, {}) /\ Cardinality(deal.hand) = HandSize
  <2>1. IsFiniteSet(Deck[p])
      BY Decks
  <2>2. <<>> \in Seq(Deck[p]) /\ ToSet(<<>>) = {} /\ Distinct(<<>>)
      BY DEF ToSet, Distinct
  <2>3. ZonesOf(Deck[p], Deck[p], <<>>, {})
      BY <2>2 DEF ZonesOf
  <2>4. Deck[p] \cup ToSet(<<>>) = Deck[p]
      BY <2>2
  <2> QED
      BY <2>1, <2>3, <2>4, DealtZones
<1>4. ASSUME NEW p \in Players
      PROVE  ZonesOf(Deck[p], hand[p], library[p], exile[p]) /\ Cardinality(hand[p]) = HandSize
  <2>1. exile[p] = {}
      BY DEF MulliganInit
  <2>2. CASE p = 0
    <3>1. hand[p] = d0.hand /\ library[p] = d0.library
        BY <1>2, <2>2
    <3> QED
        BY <1>3, <2>1, <2>2, <3>1
  <2>3. CASE p = 1
    <3>1. hand[p] = d1.hand /\ library[p] = d1.library
        BY <1>2, <2>3
    <3> QED
        BY <1>3, <2>1, <2>3, <3>1
  <2> QED
      BY <2>2, <2>3 DEF Players
<1>5. zcc \in [DeckCards -> Nat]
  <2>1. [c \in DeckCards |-> 0] \in [DeckCards -> Nat]
      OBVIOUS
  <2> QED
      BY <2>1, Bumped DEF MulliganInit
<1>6. hand \in [Players -> SUBSET DeckCards] /\ library \in [Players -> Seq(DeckCards)]
  <2>1. \A p \in Players : hand[p] \in SUBSET DeckCards /\ library[p] \in Seq(DeckCards)
      BY <1>4, ZonesTyped
  <2>2. /\ hand = [p \in Players |-> hand[p]] /\ library = [p \in Players |-> library[p]]
      BY <1>2
  <2> QED
      BY <2>1, <2>2
<1>7. TypeOk
    BY <1>5, <1>6 DEF MulliganInit, TypeOk
<1>8. Asked
    BY DEF MulliganInit, Asked
<1>9. ASSUME NEW p \in Players PROVE OfPlayer(p)
  <2>1. counts[p] = 0 /\ ~kept[p] /\ ~mulliganThisRound[p] /\ stage = "announce" /\ exile[p] = {}
        /\ hands[p] = Bindings(hand[p], zcc)
      BY DEF MulliganInit
  <2>2. PowdersPay({})
    <3>1. {} \cap Powders = {}
        OBVIOUS
    <3> QED
        BY <1>0, <3>1, FS_EmptySet DEF PowdersPay
  <2>3. HandLength(p) = HandSize
      BY <1>0, <2>1 DEF HandLength
  <2> QED
      BY <1>0, <1>4, <2>1, <2>2, <2>3 DEF OfPlayer, AnnouncedOnce
<1> QED
    BY <1>7, <1>8, <1>9 DEF MulliganInv

-----------------------------------------------------------------------------
(* One lemma for each action.                                              *)

\* A player who has kept has announced no mulligan in this round.
LEMMA AutoKeepInv == ASSUME MulliganInv, AutoKeep PROVE MulliganInv'
<1> DEFINE a == Player(next)
<1>1. TypeOk /\ Asked /\ (\A p \in Players : OfPlayer(p))
    BY DEF MulliganInv
<1>2. a \in Players /\ Turn(a) = next
    BY <1>1, Turns DEF TypeOk, AutoKeep
<1>3. /\ stage = "announce" /\ stage' = stage /\ next \in 0 .. 1 /\ next' = next + 1
      /\ kept' = [kept EXCEPT ![a] = TRUE]
      /\ UNCHANGED <<starting, counts, mulliganThisRound, hands, remaining, zones, declined>>
    BY <1>1 DEF AutoKeep, TypeOk
<1> HIDE DEF a
<1>4. remaining = 0
    BY <1>1, <1>3 DEF Asked, TypeOk
<1>5. ASSUME NEW p \in Players PROVE HandLength(p)' = HandLength(p) /\ AnnouncedOnce(p)'
  <2>1. AnnouncedOnce(p)
      BY <1>1 DEF OfPlayer
  <2>2. HandLength(p)' = HandLength(p)
      BY <1>3 DEF HandLength
  <2>3. Turn(p)' = Turn(p) /\ Turn(p) \in {0, 1}
      BY <1>1, <1>3, Turns DEF Turn, TypeOk
  <2>4. p = a => ~mulliganThisRound[p]
      BY <1>2, <1>3, <2>1 DEF AnnouncedOnce
  <2>5. p # a => kept'[p] = kept[p]
      BY <1>1, <1>3 DEF TypeOk
  <2> QED
      BY <1>3, <2>1, <2>2, <2>3, <2>4, <2>5 DEF AnnouncedOnce
<1>6. Asked'
    BY <1>3, <1>4 DEF Asked
<1>7. kept' \in [Players -> BOOLEAN]
    BY <1>1, <1>3 DEF TypeOk
<1>8. next' \in 0 .. 2
    BY <1>3
<1> QED
    BY <1>1, <1>3, <1>5, <1>6, <1>7, <1>8, QuietStep DEF TypeOk

\* When both have kept nobody redraws any more.
LEMMA CompleteInv == ASSUME MulliganInv, Complete PROVE MulliganInv'
<1>1. TypeOk /\ Asked /\ (\A p \in Players : OfPlayer(p))
    BY DEF MulliganInv
<1>2. /\ stage = "announce" /\ stage' = "complete" /\ declined' = [p \in Players |-> NoHand]
      /\ UNCHANGED <<starting, counts, kept, mulliganThisRound, hands, next, remaining, zones>>
    BY DEF Complete, progress
<1>3. ASSUME NEW p \in Players PROVE HandLength(p)' = HandLength(p) /\ AnnouncedOnce(p)'
  <2>1. AnnouncedOnce(p)
      BY <1>1 DEF OfPlayer
  <2> QED
      BY <1>2, <2>1 DEF HandLength, AnnouncedOnce
<1>4. Asked'
    BY <1>1, <1>2 DEF Asked
<1> QED
    BY <1>1, <1>2, <1>3, <1>4, QuietStep DEF TypeOk

\* One who did not redraw has nothing to bottom.
LEMMA SkipBottomInv == ASSUME MulliganInv, SkipBottom PROVE MulliganInv'
<1>1. TypeOk /\ Asked /\ (\A p \in Players : OfPlayer(p))
    BY DEF MulliganInv
<1>2. /\ stage = "bottom" /\ stage' = stage /\ next \in 0 .. 1 /\ next' = next + 1 /\ remaining' = 0
      /\ ~mulliganThisRound[Player(next)]
      /\ UNCHANGED <<starting, counts, kept, mulliganThisRound, hands, zones, declined>>
    BY <1>1 DEF SkipBottom, progress, TypeOk
<1>3. ASSUME NEW p \in Players PROVE HandLength(p)' = HandLength(p) /\ AnnouncedOnce(p)'
  <2>1. AnnouncedOnce(p)
      BY <1>1 DEF OfPlayer
  <2>2. AnnouncedOnce(p)'
      BY <1>2, <2>1 DEF AnnouncedOnce
  <2>3. Turn(p)' = Turn(p) /\ Turn(p) \in {0, 1} /\ (Turn(p) = next => p = Player(next))
      BY <1>1, <1>2, Turns DEF Turn, TypeOk
  <2>4. Turn(p) = next => ~mulliganThisRound[p]
      BY <1>2, <2>3
  <2>5. Turn(p) # next => (Turn(p) < next <=> Turn(p) < next + 1)
      BY <1>2, <2>3
  <2>6. HandLength(p)' = HandLength(p)
      BY <1>2, <2>3, <2>4, <2>5 DEF HandLength
  <2> QED
      BY <2>2, <2>6
<1>4. Asked'
    BY <1>2 DEF Asked
<1> QED
    BY <1>1, <1>2, <1>3, <1>4, QuietStep DEF TypeOk

\* The number asked for is what makes the hand as small as it must be.
LEMMA AskBottomInv == ASSUME MulliganInv, AskBottom PROVE MulliganInv'
<1> DEFINE a == Player(next)
<1>0. HandSize \in Nat
    BY DeckAssumption
<1>1. TypeOk /\ Asked /\ (\A p \in Players : OfPlayer(p))
    BY DEF MulliganInv
<1>2. /\ stage = "bottom" /\ stage' = stage /\ next \in 0 .. 1 /\ next' = next
      /\ remaining = 0 /\ remaining' = counts[a] /\ mulliganThisRound[a]
      /\ UNCHANGED <<starting, counts, kept, mulliganThisRound, hands, zones, declined>>
    BY <1>1 DEF AskBottom, progress, TypeOk
<1>3. a \in Players /\ Turn(a) = next /\ counts[a] \in Nat /\ a' = a
    BY <1>1, <1>2, Turns DEF TypeOk, Player
<1>4. ASSUME NEW p \in Players PROVE HandLength(p)' = HandLength(p) /\ AnnouncedOnce(p)'
  <2>1. AnnouncedOnce(p)
      BY <1>1 DEF OfPlayer
  <2>2. AnnouncedOnce(p)'
      BY <1>2, <2>1 DEF AnnouncedOnce, Turn
  <2>3. Turn(p)' = Turn(p) /\ Turn(p) \in {0, 1} /\ (Turn(p) = next => p = a)
      BY <1>1, <1>2, Turns DEF Turn, TypeOk
  <2>4. counts[a] \in Nat /\ HandSize - counts[a] + counts[a] = HandSize
      BY <1>0, <1>3
  <2>5. HandLength(p)' = HandLength(p)
      BY <1>2, <2>3, <2>4 DEF HandLength
  <2> QED
      BY <2>2, <2>5
<1>5. Asked'
    BY <1>2, <1>3 DEF Asked
<1> QED
    BY <1>1, <1>2, <1>3, <1>4, <1>5, QuietStep DEF TypeOk

\* When all have bottomed, everybody holds the hand that was paid for.
LEMMA CloseRoundInv == ASSUME MulliganInv, CloseRound PROVE MulliganInv'
<1>1. TypeOk /\ Asked /\ (\A p \in Players : OfPlayer(p))
    BY DEF MulliganInv
<1>2. /\ stage = "bottom" /\ stage' = "announce" /\ next = 2 /\ next' = 0
      /\ mulliganThisRound' = [p \in Players |-> FALSE]
      /\ UNCHANGED <<starting, counts, kept, hands, remaining, zones, declined>>
    BY DEF CloseRound
<1>3. remaining = 0
    BY <1>1, <1>2 DEF Asked, TypeOk
<1>4. ASSUME NEW p \in Players PROVE HandLength(p)' = HandLength(p) /\ AnnouncedOnce(p)'
  <2>0. Turn(p) \in {0, 1}
      BY <1>1, Turns DEF TypeOk
  <2>1. Turn(p) < 2
      BY <2>0
  <2>2. HandLength(p)' = HandLength(p)
      BY <1>2, <2>1 DEF HandLength
  <2> QED
      BY <1>2, <2>2 DEF AnnouncedOnce
<1>5. Asked'
    BY <1>2, <1>3 DEF Asked
<1> QED
    BY <1>1, <1>2, <1>4, <1>5, QuietStep DEF TypeOk

\* An announcement; a mulligan can only be announced while one is left.
LEMMA ChooseMulliganInv ==
    ASSUME MulliganInv, NEW a \in Players, NEW mulligan \in BOOLEAN, ChooseMulligan(a, mulligan)
    PROVE  MulliganInv'
<1>1. TypeOk /\ Asked /\ (\A p \in Players : OfPlayer(p))
    BY DEF MulliganInv
<1>2. /\ stage = "announce" /\ stage' = stage /\ next \in 0 .. 1 /\ next' = next + 1
      /\ a = Player(next) /\ counts[a] < HandSize
      /\ kept' = [kept EXCEPT ![a] = ~mulligan]
      /\ mulliganThisRound' = [mulliganThisRound EXCEPT ![a] = mulligan]
      /\ UNCHANGED <<starting, counts, hands, remaining, zones, declined>>
    BY <1>1 DEF ChooseMulligan, Announcing, TypeOk
<1>3. remaining = 0
    BY <1>1, <1>2 DEF Asked, TypeOk
<1>4. Turn(a) = next
    BY <1>1, <1>2, Turns DEF TypeOk
<1>5. kept' \in [Players -> BOOLEAN] /\ mulliganThisRound' \in [Players -> BOOLEAN]
    BY <1>1, <1>2 DEF TypeOk
<1>6. ASSUME NEW p \in Players PROVE HandLength(p)' = HandLength(p) /\ AnnouncedOnce(p)'
  <2>1. AnnouncedOnce(p)
      BY <1>1 DEF OfPlayer
  <2>2. HandLength(p)' = HandLength(p)
      BY <1>2 DEF HandLength
  <2>3. Turn(p)' = Turn(p) /\ Turn(p) \in {0, 1}
      BY <1>1, <1>2, Turns DEF Turn, TypeOk
  <2>4. CASE p = a
    <3>1. (kept'[p] <=> ~mulligan) /\ (mulliganThisRound'[p] <=> mulligan)
        BY <1>1, <1>2, <2>4 DEF TypeOk
    <3> QED
        BY <1>2, <1>4, <2>2, <2>3, <2>4, <3>1 DEF AnnouncedOnce
  <2>5. CASE p # a
    <3>1. (kept'[p] <=> kept[p]) /\ (mulliganThisRound'[p] <=> mulliganThisRound[p])
        BY <1>1, <1>2, <2>5 DEF TypeOk
    <3> QED
        BY <1>2, <2>1, <2>2, <2>3, <3>1 DEF AnnouncedOnce
  <2> QED
      BY <2>4, <2>5
<1>7. Asked'
    BY <1>2, <1>3 DEF Asked
<1> QED
    BY <1>1, <1>2, <1>5, <1>6, <1>7, QuietStep DEF TypeOk

\* Declining Serum Powder leaves everything but the offer.
LEMMA DeclinePowderInv ==
    ASSUME MulliganInv, NEW a \in Players, DeclinePowder(a) PROVE MulliganInv'
<1>1. TypeOk /\ Asked /\ (\A p \in Players : OfPlayer(p))
    BY DEF MulliganInv
<1>2. /\ declined' = [declined EXCEPT ![a] = Bindings(hand[a], zcc)]
      /\ UNCHANGED <<starting, counts, kept, mulliganThisRound, hands, stage, next, remaining, zones>>
    BY DEF DeclinePowder, progress
<1>3. ASSUME NEW p \in Players PROVE HandLength(p)' = HandLength(p) /\ AnnouncedOnce(p)'
  <2>1. AnnouncedOnce(p)
      BY <1>1 DEF OfPlayer
  <2> QED
      BY <1>2, <2>1 DEF HandLength, AnnouncedOnce, Turn
<1>4. Asked'
    BY <1>1, <1>2 DEF Asked, Player
<1>5. DOMAIN declined' = Players
    BY <1>1, <1>2 DEF TypeOk
<1> QED
    BY <1>1, <1>2, <1>3, <1>4, <1>5, QuietStep DEF TypeOk

\* Steps that move cards of one player only.
LEMMA OneMoves ==
    ASSUME MulliganInv, NEW a \in Players, NEW h, NEW l, NEW e, NEW moved,
           hand' = [hand EXCEPT ![a] = h], library' = [library EXCEPT ![a] = l],
           exile' = [exile EXCEPT ![a] = e], zcc' = Bump(zcc, moved),
           hands' = [hands EXCEPT ![a] = Bindings(hand'[a], zcc')],
           UNCHANGED <<starting, counts, kept, mulliganThisRound, stage, declined>>,
           next' \in 0 .. 2, remaining' \in Nat,
           moved \subseteq Deck[a], ZonesOf(Deck[a], h, l, e), PowdersPay(e),
           Cardinality(h) = HandLength(a)',
           Asked',
           \A p \in Players : AnnouncedOnce(p)' /\ (p # a => HandLength(p)' = HandLength(p))
    PROVE  MulliganInv'
<1>1. TypeOk /\ (\A p \in Players : OfPlayer(p))
    BY DEF MulliganInv
<1>2. hand'[a] = h /\ library'[a] = l /\ exile'[a] = e /\ hands'[a] = Bindings(h, zcc')
    BY <1>1 DEF TypeOk
<1>3. /\ zcc' \in [DeckCards -> Nat]
      /\ \A c \in DeckCards \ moved : zcc'[c] = zcc[c]
    BY <1>1, Bumped DEF TypeOk
<1>4. h \in SUBSET DeckCards /\ l \in Seq(DeckCards) /\ e \in SUBSET DeckCards
    BY ZonesTyped
<1>5. /\ hand' \in [Players -> SUBSET DeckCards] /\ library' \in [Players -> Seq(DeckCards)]
      /\ exile' \in [Players -> SUBSET DeckCards] /\ DOMAIN hands' = Players
    BY <1>1, <1>4 DEF TypeOk
<1>6. TypeOk'
    BY <1>1, <1>3, <1>5 DEF TypeOk
<1>7. ASSUME NEW p \in Players PROVE OfPlayer(p)'
  <2>1. CASE p = a
    <3>1. OfPlayer(a)
        BY <1>1
    <3> QED
        BY <1>2, <2>1, <3>1 DEF OfPlayer
  <2>2. CASE p # a
    <3>1. OfPlayer(p)
        BY <1>1
    <3>2. hand'[p] = hand[p] /\ library'[p] = library[p] /\ exile'[p] = exile[p] /\ hands'[p] = hands[p]
        BY <1>1, <2>2 DEF TypeOk
    <3>3. hand[p] \subseteq Deck[p] /\ Deck[p] \cap Deck[a] = {} /\ Deck[p] \subseteq DeckCards
        BY <2>2, <3>1, Decks DEF OfPlayer, ZonesOf
    <3>4. \A c \in hand[p] : zcc[c] = zcc'[c]
        BY <1>3, <3>3
    <3>5. Bindings(hand[p], zcc) = Bindings(hand[p], zcc')
        BY <3>4, SameBindings
    <3> QED
        BY <2>2, <3>1, <3>2, <3>5 DEF OfPlayer
  <2> QED
      BY <2>1, <2>2
<1> QED
    BY <1>6, <1>7 DEF MulliganInv

\* Serum Powder: the library has the cards, and the new hand is recorded.
LEMMA UsePowderInv ==
    ASSUME MulliganInv, NEW a \in Players, UsePowder(a) PROVE MulliganInv'
<1>0. HandSize \in Nat
    BY DeckAssumption
<1>1. TypeOk /\ Asked /\ (\A p \in Players : OfPlayer(p))
    BY DEF MulliganInv
<1>2. /\ stage = "announce" /\ hand[a] \cap Powders # {} /\ ExileAndDraw(a)
      /\ hands' = [hands EXCEPT ![a] = Bindings(hand'[a], zcc')]
      /\ UNCHANGED <<starting, counts, kept, mulliganThisRound, stage, next, remaining, declined>>
    BY DEF UsePowder, Announcing, PowderOffered, progress
<1>3. PICK n : n = Cardinality(hand[a])
    OBVIOUS
<1>4. PICK h : h = ToSet(SubSeq(library[a], 1, n))
    OBVIOUS
<1>5. PICK l : l = SubSeq(library[a], n + 1, Len(library[a]))
    OBVIOUS
<1>6. PICK e : e = exile[a] \cup hand[a]
    OBVIOUS
<1>7. /\ hand' = [hand EXCEPT ![a] = h] /\ library' = [library EXCEPT ![a] = l]
      /\ exile' = [exile EXCEPT ![a] = e] /\ zcc' = Bump(zcc, hand[a] \cup hand'[a])
    BY <1>2, <1>3, <1>4, <1>5, <1>6 DEF ExileAndDraw
<1>8. hand'[a] = h
    BY <1>1, <1>7 DEF TypeOk
<1>9. /\ ZonesOf(Deck[a], hand[a], library[a], exile[a]) /\ PowdersPay(exile[a])
      /\ n = HandLength(a) /\ counts[a] <= HandSize /\ counts[a] \in Nat
    BY <1>1, <1>3 DEF OfPlayer, TypeOk
<1>10. n = HandSize - counts[a]
    BY <1>2, <1>9 DEF HandLength
<1>11. n \in Nat /\ n <= HandSize
    BY <1>0, <1>9, <1>10
<1>12. n <= Len(library[a]) /\ PowdersPay(e)
    BY <1>2, <1>3, <1>6, <1>9, <1>11, Decks, EnoughCards
<1>13. ZonesOf(Deck[a], h, l, e) /\ Cardinality(h) = n
  <2>1. IsFiniteSet(Deck[a])
      BY Decks
  <2>2. PICK top : top = SubSeq(library[a], 1, n)
      OBVIOUS
  <2>3. Cut(library[a], n, top, l)
      BY <1>5, <2>2 DEF Cut
  <2>4. ZonesOf(Deck[a], ToSet(top), l, exile[a] \cup hand[a]) /\ Cardinality(ToSet(top)) = n
    <3>1. ZonesOf(Deck[a], hand[a], library[a], exile[a])
        BY <1>9
    <3>2. n \in Nat /\ n <= Len(library[a])
        BY <1>11, <1>12
    <3> QED
        BY ONLY <2>1, <2>3, <3>1, <3>2, PowderedZones
  <2> QED
      BY <1>4, <1>6, <2>2, <2>4
<1>14. hand[a] \cup hand'[a] \subseteq Deck[a]
    BY <1>8, <1>9, <1>13 DEF ZonesOf
<1>15. ASSUME NEW p \in Players PROVE HandLength(p)' = HandLength(p) /\ AnnouncedOnce(p)'
  <2>1. AnnouncedOnce(p)
      BY <1>1 DEF OfPlayer
  <2> QED
      BY <1>2, <2>1 DEF HandLength, AnnouncedOnce, Turn
<1>16. Asked'
    BY <1>1, <1>2 DEF Asked, Player
<1>17. Cardinality(h) = HandLength(a)'
    BY <1>9, <1>13, <1>15
<1>18. next' \in 0 .. 2 /\ remaining' \in Nat
    BY <1>1, <1>2 DEF TypeOk
<1> QED
    BY <1>2, <1>7, <1>12, <1>13, <1>14, <1>15, <1>16, <1>17, <1>18, OneMoves

\* A bottom choice takes one card of the hand that is still too large.
LEMMA ChooseBottomInv ==
    ASSUME MulliganInv, NEW a \in Players, NEW card \in DeckCards, ChooseBottom(a, card)
    PROVE  MulliganInv'
<1>0. HandSize \in Nat
    BY DeckAssumption
<1>1. TypeOk /\ Asked /\ (\A p \in Players : OfPlayer(p))
    BY DEF MulliganInv
<1>2. /\ stage = "bottom" /\ next \in 0 .. 1 /\ remaining \in Nat /\ remaining > 0
      /\ a = Player(next) /\ card \in hand[a]
      /\ hand' = [hand EXCEPT ![a] = hand[a] \ {card}]
      /\ library' = [library EXCEPT ![a] = Append(library[a], card)]
      /\ zcc' = Bump(zcc, {card})
      /\ hands' = [hands EXCEPT ![a] = Bindings(hand'[a], zcc')]
      /\ UNCHANGED <<starting, counts, kept, mulliganThisRound, stage, exile, declined>>
    BY <1>1 DEF ChooseBottom, TypeOk, progress
<1>3. exile' = [exile EXCEPT ![a] = exile[a]]
    BY <1>1, <1>2 DEF TypeOk
<1>4. \/ remaining = 1 /\ next' = next + 1 /\ remaining' = 0
      \/ remaining # 1 /\ next' = next /\ remaining' = remaining - 1
    BY DEF ChooseBottom, AfterBottom
<1>5. next' \in 0 .. 2 /\ remaining' \in Nat
    BY <1>2, <1>4
<1>6. /\ ZonesOf(Deck[a], hand[a], library[a], exile[a]) /\ PowdersPay(exile[a])
      /\ Cardinality(hand[a]) = HandLength(a) /\ counts[a] <= HandSize /\ counts[a] \in Nat
    BY <1>1 DEF OfPlayer, TypeOk
<1>7. Turn(a) = next /\ Turn(a)' = Turn(a) /\ mulliganThisRound[a] /\ remaining <= counts[a]
    BY <1>1, <1>2, Turns DEF TypeOk, Turn, Asked
<1>8. HandLength(a) = HandSize - counts[a] + remaining
    BY <1>2, <1>7 DEF HandLength
<1>9. /\ ZonesOf(Deck[a], hand[a] \ {card}, Append(library[a], card), exile[a])
      /\ Cardinality(hand[a] \ {card}) = Cardinality(hand[a]) - 1
    BY <1>2, <1>6, Decks, BottomedZones
<1>10. HandLength(a)' = HandSize - counts[a] + remaining - 1
  <2>1. CASE remaining = 1
      BY <1>0, <1>2, <1>4, <1>6, <1>7, <2>1 DEF HandLength
  <2>2. CASE remaining # 1
      BY <1>0, <1>2, <1>4, <1>6, <1>7, <2>2 DEF HandLength
  <2> QED
      BY <2>1, <2>2
<1>11. Cardinality(hand[a] \ {card}) = HandLength(a)'
    BY <1>0, <1>2, <1>6, <1>8, <1>9, <1>10
<1>12. ASSUME NEW p \in Players
       PROVE  AnnouncedOnce(p)' /\ (p # a => HandLength(p)' = HandLength(p))
  <2>1. AnnouncedOnce(p)
      BY <1>1 DEF OfPlayer
  <2>2. AnnouncedOnce(p)'
      BY <1>2, <2>1 DEF AnnouncedOnce
  <2>3. ASSUME p # a PROVE HandLength(p)' = HandLength(p)
    <3>1. Turn(p) \in {0, 1} /\ Turn(p) # next /\ Turn(p)' = Turn(p)
        BY <1>1, <1>2, <1>7, <2>3, Turns DEF TypeOk, Turn
    <3>2. Turn(p) < next <=> Turn(p) < next'
        BY <1>2, <1>4, <3>1
    <3>3. Turn(p) = next' => remaining' = 0
        BY <1>4, <3>1
    <3>4. (stage' = stage) /\ mulliganThisRound' = mulliganThisRound /\ counts' = counts
        BY <1>2
    <3>5. ~(remaining' > 0 /\ Turn(p) = next') /\ ~(remaining > 0 /\ Turn(p) = next)
        BY <3>1, <3>3
    <3> QED
        BY <3>1, <3>2, <3>4, <3>5 DEF HandLength
  <2> QED
      BY <2>2, <2>3
<1>13. Asked'
  <2>1. CASE remaining = 1
      BY <1>4, <2>1 DEF Asked
  <2>2. CASE remaining # 1
    <3>1. Player(next)' = Player(next)
        BY <1>2, <1>4, <2>2 DEF Player
    <3> QED
        BY <1>2, <1>4, <1>6, <1>7, <2>2, <3>1 DEF Asked
  <2> QED
      BY <2>1, <2>2
<1>14. {card} \subseteq Deck[a]
    BY <1>2, <1>6 DEF ZonesOf
<1> QED
    BY <1>2, <1>3, <1>5, <1>6, <1>9, <1>11, <1>12, <1>13, <1>14, OneMoves

\* The redraw moves cards of both players, each within the own deck; the
\* recorded hand of one who does not redraw is not disturbed.
LEMMA RedrawInv == ASSUME MulliganInv, Redraw PROVE MulliganInv'
<1>0. HandSize \in Nat
    BY DeckAssumption
<1>1. TypeOk /\ Asked /\ (\A p \in Players : OfPlayer(p))
    BY DEF MulliganInv
<1>2. PICK redrawing : redrawing = {p \in Players : mulliganThisRound[p]}
    OBVIOUS
<1>3. /\ stage = "announce" /\ stage' = "bottom" /\ next' = 0 /\ remaining' = 0
      /\ zcc' = Bump(Bump(zcc, UNION {hand[p] : p \in redrawing}),
                     UNION {hand'[p] : p \in redrawing})
      /\ counts' = [p \in Players |-> IF p \in redrawing THEN counts[p] + 1 ELSE counts[p]]
      /\ hands' = [p \in Players |->
                      IF p \in redrawing THEN Bindings(hand'[p], zcc') ELSE hands[p]]
      /\ UNCHANGED <<starting, kept, mulliganThisRound, exile, declined>>
    BY <1>2 DEF Redraw
<1>4. PICK d0 \in RedrawOf(0) : \E d1 \in RedrawOf(1) :
          /\ hand' = [p \in Players |-> IF p = 0 THEN d0.hand ELSE d1.hand]
          /\ library' = [p \in Players |-> IF p = 0 THEN d0.library ELSE d1.library]
    BY DEF Redraw
<1>5. PICK d1 \in RedrawOf(1) :
          /\ hand' = [p \in Players |-> IF p = 0 THEN d0.hand ELSE d1.hand]
          /\ library' = [p \in Players |-> IF p = 0 THEN d0.library ELSE d1.library]
    BY <1>4
<1>6. ASSUME NEW p \in Players
      PROVE  \E deal \in RedrawOf(p) : hand'[p] = deal.hand /\ library'[p] = deal.library
  <2>1. CASE p = 0
      BY <1>5, <2>1
  <2>2. CASE p = 1
      BY <1>5, <2>2
  <2> QED
      BY <2>1, <2>2 DEF Players
<1>7. ASSUME NEW p \in Players, p \notin redrawing
      PROVE  hand'[p] = hand[p] /\ library'[p] = library[p]
  <2>1. ~mulliganThisRound[p]
      BY <1>2, <1>7
  <2>2. RedrawOf(p) = {[hand |-> hand[p], library |-> library[p]]}
      BY <2>1 DEF RedrawOf
  <2> QED
      BY <1>6, <2>2
<1>8. ASSUME NEW p \in Players, p \in redrawing
      PROVE  /\ ZonesOf(Deck[p], hand'[p], library'[p], exile[p])
             /\ Cardinality(hand'[p]) = HandSize
  <2>1. mulliganThisRound[p]
      BY <1>2, <1>8
  <2>2. RedrawOf(p) = Deals(hand[p] \cup ToSet(library[p]))
      BY <2>1 DEF RedrawOf
  <2>3. PICK deal \in Deals(hand[p] \cup ToSet(library[p])) :
            hand'[p] = deal.hand /\ library'[p] = deal.library
      BY <1>6, <2>2
  <2>4. IsFiniteSet(Deck[p]) /\ ZonesOf(Deck[p], hand[p], library[p], exile[p])
      BY <1>1, Decks DEF OfPlayer
  <2>5. ZonesOf(Deck[p], deal.hand, deal.library, exile[p]) /\ Cardinality(deal.hand) = HandSize
      BY <2>4, DealtZones
  <2> QED
      BY <2>3, <2>5
<1>9. ASSUME NEW p \in Players
      PROVE  ZonesOf(Deck[p], hand'[p], library'[p], exile'[p])
  <2>1. CASE p \in redrawing
      BY <1>3, <1>8, <2>1
  <2>2. CASE p \notin redrawing
      BY <1>1, <1>3, <1>7, <2>2 DEF OfPlayer
  <2> QED
      BY <2>1, <2>2
<1>10. zcc' \in [DeckCards -> Nat]
    BY <1>1, <1>3, Bumped DEF TypeOk
<1>11. ASSUME NEW p \in Players, p \notin redrawing PROVE \A c \in hand[p] : zcc[c] = zcc'[c]
  <2>1. PICK gone : gone = UNION {hand[q] : q \in redrawing}
      OBVIOUS
  <2>2. PICK drawn : drawn = UNION {hand'[q] : q \in redrawing}
      OBVIOUS
  <2>3. \A q \in redrawing : q \in Players /\ q # p
      BY <1>2, <1>11
  <2>4. \A q \in redrawing : hand[q] \subseteq Deck[q] /\ hand'[q] \subseteq Deck[q]
      BY <1>1, <1>9, <2>3 DEF OfPlayer, ZonesOf
  <2>5. \A q \in redrawing : Deck[p] \cap Deck[q] = {}
      BY <2>3, Decks
  <2>6. hand[p] \subseteq Deck[p] /\ Deck[p] \subseteq DeckCards
      BY <1>1, Decks DEF OfPlayer, ZonesOf
  <2>7. \A c \in hand[p] : c \in DeckCards \ gone /\ c \in DeckCards \ drawn
      BY <2>1, <2>2, <2>4, <2>5, <2>6
  <2>8. zcc \in [DeckCards -> Nat] /\ Bump(zcc, gone) \in [DeckCards -> Nat]
      BY <1>1, Bumped DEF TypeOk
  <2>9. zcc' = Bump(Bump(zcc, gone), drawn)
      BY <1>3, <2>1, <2>2
  <2> QED
      BY <2>7, <2>8, <2>9, Bumped
<1>12. hand' \in [Players -> SUBSET DeckCards] /\ library' \in [Players -> Seq(DeckCards)]
  <2>1. \A p \in Players : hand'[p] \in SUBSET DeckCards /\ library'[p] \in Seq(DeckCards)
      BY <1>9, ZonesTyped
  <2>2. /\ hand' = [p \in Players |-> hand'[p]] /\ library' = [p \in Players |-> library'[p]]
      BY <1>5
  <2> QED
      BY <2>1, <2>2
<1>13. counts' \in [Players -> Nat]
    BY <1>1, <1>3 DEF TypeOk
<1>14. TypeOk'
  <2>1. DOMAIN hands' = Players
      BY <1>3
  <2>2. /\ starting' \in Players /\ kept' \in [Players -> BOOLEAN]
        /\ mulliganThisRound' \in [Players -> BOOLEAN]
        /\ DOMAIN declined' = Players /\ exile' \in [Players -> SUBSET DeckCards]
      BY <1>1, <1>3 DEF TypeOk
  <2>3. stage' \in {"announce", "bottom", "complete"} /\ next' \in 0 .. 2 /\ remaining' \in Nat
      BY <1>3
  <2> QED
      BY <1>10, <1>12, <1>13, <2>1, <2>2, <2>3 DEF TypeOk
<1>15. Asked'
    BY <1>3 DEF Asked
<1>16. ASSUME NEW p \in Players PROVE OfPlayer(p)'
  <2>1. OfPlayer(p) /\ AnnouncedOnce(p)
      BY <1>1 DEF OfPlayer
  <2>2. AnnouncedOnce(p)'
      BY <1>3, <2>1 DEF AnnouncedOnce
  <2>3. Turn(p)' \in {0, 1}
    <3>1. Turn(p)' = Turn(p)
        BY <1>3 DEF Turn
    <3> QED
        BY <1>1, <3>1, Turns DEF TypeOk
  <2>4. ZonesOf(Deck[p], hand'[p], library'[p], exile'[p]) /\ PowdersPay(exile'[p])
      BY <1>3, <1>9, <2>1 DEF OfPlayer
  <2>5. CASE p \in redrawing
    <3>1. mulliganThisRound[p] /\ counts[p] < HandSize /\ counts[p] \in Nat
        BY <1>1, <1>2, <1>3, <2>1, <2>5 DEF AnnouncedOnce, TypeOk
    <3>2. counts'[p] <= HandSize
        BY <1>0, <1>3, <2>5, <3>1
    <3>3. hands'[p] = Bindings(hand'[p], zcc')
        BY <1>3, <2>5
    <3>4. HandLength(p)' = HandSize
        BY <1>3, <2>3, <3>1 DEF HandLength
    <3>5. Cardinality(hand'[p]) = HandSize
        BY <1>8, <2>5
    <3> QED
        BY <2>2, <2>4, <3>2, <3>3, <3>4, <3>5 DEF OfPlayer
  <2>6. CASE p \notin redrawing
    <3>1. ~mulliganThisRound[p] /\ counts'[p] = counts[p] /\ hands'[p] = hands[p] /\ hand'[p] = hand[p]
        BY <1>2, <1>3, <1>7, <2>6
    <3>2. Bindings(hand[p], zcc) = Bindings(hand[p], zcc')
        BY <1>11, <2>6, SameBindings
    <3>3. HandLength(p)' = HandLength(p)
        BY <1>3, <3>1 DEF HandLength
    <3> QED
        BY <2>1, <2>2, <2>4, <3>1, <3>2, <3>3 DEF OfPlayer
  <2> QED
      BY <2>5, <2>6
<1> QED
    BY <1>14, <1>15, <1>16 DEF MulliganInv

-----------------------------------------------------------------------------
(* The theorems.                                                           *)

\* Every step keeps the invariant.
LEMMA MulliganStep == MulliganInv /\ [MulliganNext]_mulliganVars => MulliganInv'
<1> SUFFICES ASSUME MulliganInv, [MulliganNext]_mulliganVars PROVE MulliganInv'
    OBVIOUS
<1>1. CASE Drain
    BY <1>1, AutoKeepInv, CompleteInv, RedrawInv, SkipBottomInv, AskBottomInv, CloseRoundInv
       DEF Drain
<1>2. CASE Answer
  <2>1. CASE \E p \in Players, mulligan \in BOOLEAN : ChooseMulligan(p, mulligan)
      BY <2>1, ChooseMulliganInv
  <2>2. CASE \E p \in Players : DeclinePowder(p)
      BY <2>2, DeclinePowderInv
  <2>3. CASE \E p \in Players : UsePowder(p)
      BY <2>3, UsePowderInv
  <2>4. CASE \E p \in Players, card \in DeckCards : ChooseBottom(p, card)
      BY <2>4, ChooseBottomInv
  <2> QED
      BY <1>2, <2>1, <2>2, <2>3, <2>4 DEF Answer
<1>3. CASE UNCHANGED mulliganVars
  <2>1. ASSUME NEW p \in Players PROVE HandLength(p)' = HandLength(p) /\ AnnouncedOnce(p)'
    <3>1. AnnouncedOnce(p)
        BY DEF MulliganInv, OfPlayer
    <3> QED
        BY <1>3, <3>1 DEF mulliganVars, HandLength, AnnouncedOnce, Turn
  <2>2. Asked'
      BY <1>3 DEF mulliganVars, MulliganInv, Asked, Player
  <2> QED
      BY <1>3, <2>1, <2>2, QuietStep DEF MulliganInv, TypeOk, mulliganVars, zones
<1> QED
    BY <1>1, <1>2, <1>3 DEF MulliganNext, Done

\* The invariant of the pregame holds for every hand size, every pair of
\* decks that are large enough, and any number of Serum Powders.
THEOREM MulliganInductive == MulliganSpec => []MulliganInv
    BY DealInit, MulliganStep, PTL DEF MulliganSpec

\* `validate` never halts a game: whatever mixture of redraws, bottom choices
\* and Serum Powders was answered, both recorded hands are the hands, object
\* by object and zone change by zone change.
THEOREM PregameNeverHalts == MulliganSpec => []NeverHalts
<1>1. MulliganInv => NeverHalts
    BY DEF MulliganInv, OfPlayer, NeverHalts, Valid
<1> QED
    BY <1>1, MulliganInductive, PTL

\* A player announces, and starts the game, with seven cards less one for
\* each mulligan, is never asked to bottom cards not held, and no card of
\* either deck is lost, doubled or given to the other player.
THEOREM MulligansArePaid == MulliganSpec => []HandPaysForMulligans
<1>1. ASSUME MulliganInv PROVE HandPaysForMulligans
  <2>0. HandSize \in Nat
      BY DeckAssumption
  <2>1. TypeOk /\ Asked /\ (\A p \in Players : OfPlayer(p))
      BY <1>1 DEF MulliganInv
  <2>2. CardsConserved
    <3>1. ASSUME NEW p \in Players
          PROVE  /\ hand[p] \cup ToSet(library[p]) \cup exile[p] = Deck[p]
                 /\ Cardinality(hand[p]) + Len(library[p]) + Cardinality(exile[p])
                        = Cardinality(Deck[p])
      <4>1. ZonesOf(Deck[p], hand[p], library[p], exile[p]) /\ IsFiniteSet(Deck[p])
          BY <2>1, Decks DEF OfPlayer
      <4>2. Cardinality(hand[p]) + Len(library[p]) + Cardinality(exile[p]) = Cardinality(Deck[p])
          BY <4>1, ZoneCount
      <4>3. hand[p] \cup ToSet(library[p]) \cup exile[p] = Deck[p]
          BY <4>1 DEF ZonesOf
      <4> QED
          BY <4>2, <4>3
    <3> QED
        BY <3>1 DEF CardsConserved
  <2>3. stage # "bottom" => \A p \in Players : Cardinality(hand[p]) = HandSize - counts[p]
      BY <2>1 DEF OfPlayer, HandLength
  <2>4. ASSUME stage = "bottom", remaining > 0
        PROVE  remaining <= Cardinality(hand[Player(next)])
    <3> DEFINE a == Player(next)
    <3>1. next \in {0, 1} /\ mulliganThisRound[a]
        BY <2>1, <2>4 DEF Asked, TypeOk
    <3>2. a \in Players /\ Turn(a) = next
        BY <2>1, <3>1, Turns DEF TypeOk
    <3> HIDE DEF a
    <3>3. /\ counts[a] \in Nat /\ counts[a] <= HandSize
          /\ Cardinality(hand[a]) = HandSize - counts[a] + remaining
        BY <2>1, <2>4, <3>1, <3>2 DEF TypeOk, OfPlayer, HandLength
    <3>4. remaining <= Cardinality(hand[a])
        BY <2>0, <2>1, <3>3 DEF TypeOk
    <3> QED
        BY <3>4 DEF a
  <2> QED
      BY <2>2, <2>3, <2>4 DEF HandPaysForMulligans
<1> QED
    BY <1>1, MulliganInductive, PTL

\* Keeping is final: no later step of either player touches a kept hand, the
\* library under it, or the decision.
THEOREM KeptHandsAreFinal == MulliganSpec => KeptHandStays
<1>1. ASSUME MulliganInv, [MulliganNext]_mulliganVars, NEW p \in Players, kept[p]
      PROVE  kept'[p] /\ hand'[p] = hand[p] /\ library'[p] = library[p]
  <2>1. TypeOk /\ Asked /\ ~mulliganThisRound[p]
      BY <1>1 DEF MulliganInv, OfPlayer, AnnouncedOnce
  <2>2. CASE UNCHANGED <<kept, hand, library>>
      BY <1>1, <2>2
  <2>3. CASE AutoKeep
    <3>1. kept' = [kept EXCEPT ![Player(next)] = TRUE] /\ hand' = hand /\ library' = library
        BY <2>3 DEF AutoKeep, zones
    <3>2. kept'[p]
        BY <1>1, <2>1, <3>1 DEF TypeOk
    <3> QED
        BY <3>1, <3>2
  <2>4. CASE Redraw
    <3>1. RedrawOf(p) = {[hand |-> hand[p], library |-> library[p]]}
        BY <2>1 DEF RedrawOf
    <3>2. \E deal \in RedrawOf(p) : hand'[p] = deal.hand /\ library'[p] = deal.library
      <4>1. CASE p = 0
          BY <2>4, <4>1 DEF Redraw, Players
      <4>2. CASE p = 1
          BY <2>4, <4>2 DEF Redraw, Players
      <4> QED
          BY <4>1, <4>2 DEF Players
    <3>3. kept' = kept
        BY <2>4 DEF Redraw
    <3> QED
        BY <1>1, <3>1, <3>2, <3>3
  <2>5. CASE \E a \in Players, mulligan \in BOOLEAN : ChooseMulligan(a, mulligan)
    <3>1. PICK a \in Players, mulligan \in BOOLEAN : ChooseMulligan(a, mulligan)
        BY <2>5
    <3>2. /\ ~kept[a] /\ kept' = [kept EXCEPT ![a] = ~mulligan]
          /\ hand' = hand /\ library' = library
        BY <3>1 DEF ChooseMulligan, Announcing, zones
    <3>3. a # p
        BY <1>1, <3>2
    <3>4. kept'[p]
        BY <1>1, <2>1, <3>2, <3>3 DEF TypeOk
    <3> QED
        BY <3>2, <3>4
  <2>6. CASE \E a \in Players : UsePowder(a)
    <3>1. PICK a \in Players : UsePowder(a)
        BY <2>6
    <3>2. a # p /\ kept' = kept
        BY <1>1, <3>1 DEF UsePowder, Announcing, progress
    <3>3. hand'[p] = hand[p] /\ library'[p] = library[p]
        BY <2>1, <3>1, <3>2 DEF UsePowder, ExileAndDraw, TypeOk
    <3> QED
        BY <1>1, <3>2, <3>3
  <2>7. CASE \E a \in Players, card \in DeckCards : ChooseBottom(a, card)
    <3>1. PICK a \in Players, card \in DeckCards : ChooseBottom(a, card)
        BY <2>7
    <3>2. remaining > 0 /\ a = Player(next) /\ kept' = kept
        BY <3>1 DEF ChooseBottom, progress
    <3>3. a # p
        BY <2>1, <3>2 DEF Asked
    <3>4. hand'[p] = hand[p] /\ library'[p] = library[p]
        BY <2>1, <3>1, <3>3 DEF ChooseBottom, TypeOk
    <3> QED
        BY <1>1, <3>2, <3>4
  <2>8. CASE Complete \/ SkipBottom \/ AskBottom \/ CloseRound \/ \E a \in Players : DeclinePowder(a)
      BY <2>2, <2>8 DEF Complete, SkipBottom, AskBottom, CloseRound, DeclinePowder, progress, zones
  <2>9. CASE UNCHANGED mulliganVars
      BY <2>2, <2>9 DEF mulliganVars
  <2> QED
      BY <1>1, <2>3, <2>4, <2>5, <2>6, <2>7, <2>8, <2>9 DEF MulliganNext, Drain, Answer, Done
<1>2. MulliganInv /\ [MulliganNext]_mulliganVars =>
          [\A p \in Players : kept[p] =>
              kept'[p] /\ hand'[p] = hand[p] /\ library'[p] = library[p]]_mulliganVars
    BY <1>1
<1> QED
    BY <1>2, MulliganInductive, PTL DEF MulliganSpec, KeptHandStays
=============================================================================
