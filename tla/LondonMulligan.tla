--------------------------- MODULE LondonMulligan ---------------------------
(***************************************************************************)
(* Two-player London mulligans (`london_mulligan_v1.rs`): rounds of        *)
(* announcements, redraws and bottoming, before the first turn.            *)
(*                                                                         *)
(* The engine's loop calls `drain_or_decide`, which advances the pregame   *)
(* until a player has to decide, and `answer` with that player's action.   *)
(* Each turn of the drain loop and each answer is an action here.  Both    *)
(* begin with `validate`, which halts the game when a hand is not exactly  *)
(* the one recorded, object by object and zone change by zone change.      *)
(*                                                                         *)
(* A hand is a set of cards and a library a sequence, top first; a shuffle *)
(* is any permutation.  Serum Powder (feature eternal-fixtures) is in: a   *)
(* build without it is the instance with Powders = {}.                     *)
(*                                                                         *)
(* Names that BestOfThree has too begin with Mulligan or Deck here, so     *)
(* that MatchProofs can extend both modules.                               *)
(***************************************************************************)
EXTENDS Naturals, Sequences, FiniteSets, SequencesExt

CONSTANTS
    HandSize,  \* HAND_SIZE, 7 in the code
    Deck,      \* player -> its cards
    Powders,   \* the cards that are Serum Powders
    NoHand     \* no declined hand

Players == {0, 1}
DeckCards == Deck[0] \cup Deck[1]

\* Decks are disjoint sets of objects, large enough that no draw of the
\* pregame meets an empty library.
ASSUME DeckAssumption ==
    /\ HandSize \in Nat \ {0}
    /\ \A p \in Players : IsFiniteSet(Deck[p])
    /\ Deck[0] \cap Deck[1] = {}
    /\ \A p \in Players :
          Cardinality(Deck[p]) >= HandSize * (1 + Cardinality(Powders \cap Deck[p]))

VARIABLES
    starting,  \* starting_player
    counts,    \* mulligans each player has taken
    kept,      \* players who have kept
    mulliganThisRound,
    hands,     \* the recorded hands: card -> zone change count
    stage,     \* "announce", "bottom" or "complete"
    next,      \* whose turn it is in the stage: 0, 1, or 2 when all have had it
    remaining, \* cards the next player still has to bottom, 0 before being asked
    hand, library, exile,   \* the zones of the game state
    zcc,       \* zone_change_count of each card
    declined   \* the hand each player last declined Serum Powder for

progress == <<counts, kept, mulliganThisRound>>
zones == <<hand, library, exile, zcc>>
mulliganVars == <<starting, counts, kept, mulliganThisRound, hands, stage, next, remaining,
          hand, library, exile, zcc, declined>>

\* The player whose turn is n: the starting player first.
Player(n) == IF n = 0 THEN starting ELSE 1 - starting

\* hand_bindings of a hand h when the zone change counts are z.
Bindings(h, z) == [c \in h |-> z[c]]

\* The hands and libraries that a shuffle of the cards in pool can deal.
Deals(pool) ==
    UNION {{[hand |-> h, library |-> l] : l \in SetToSeqs(pool \ h)} :
               h \in {x \in SUBSET pool : Cardinality(x) = HandSize}}

\* Every card of the set has changed zones once more.
Bump(z, cards) == [c \in DeckCards |-> IF c \in cards THEN z[c] + 1 ELSE z[c]]

\* enable_london_mulligans_v1, after the seven opening draws of each player.
MulliganInit ==
    /\ starting \in Players
    /\ counts = [p \in Players |-> 0]
    /\ kept = [p \in Players |-> FALSE]
    /\ mulliganThisRound = [p \in Players |-> FALSE]
    /\ \E d0 \in Deals(Deck[0]), d1 \in Deals(Deck[1]) :
          /\ hand = [p \in Players |-> IF p = 0 THEN d0.hand ELSE d1.hand]
          /\ library = [p \in Players |-> IF p = 0 THEN d0.library ELSE d1.library]
    /\ zcc = Bump([c \in DeckCards |-> 0], hand[0] \cup hand[1])
    /\ exile = [p \in Players |-> {}]
    /\ hands = [p \in Players |-> Bindings(hand[p], zcc)]
    /\ stage = "announce" /\ next = 0 /\ remaining = 0
    /\ declined = [p \in Players |-> NoHand]

\* validate: otherwise the engine halts the game.
Valid ==
    /\ \A p \in Players : counts[p] <= HandSize
    /\ \A p \in Players : hands[p] = Bindings(hand[p], zcc)

-----------------------------------------------------------------------------
(* drain_or_decide, one turn of its loop at a time.                        *)

\* Mutant: a player out of mulligans is not kept automatically.
AutoKeep_OnlyKept ==
    /\ stage = "announce" /\ next < 2 /\ Valid
    /\ kept[Player(next)]
    /\ next' = next + 1
    /\ UNCHANGED <<starting, progress, hands, stage, remaining, zones, declined>>

\* A player who has kept, or cannot mulligan any more, is not asked.
AutoKeep ==
    /\ stage = "announce" /\ next < 2 /\ Valid
    /\ kept[Player(next)] \/ counts[Player(next)] = HandSize
    /\ kept' = [kept EXCEPT ![Player(next)] = TRUE]
    /\ next' = next + 1
    /\ UNCHANGED <<starting, counts, mulliganThisRound, hands, stage, remaining,
                   zones, declined>>

Complete ==
    /\ stage = "announce" /\ next = 2 /\ Valid
    /\ \A p \in Players : kept[p]
    /\ stage' = "complete"
    /\ declined' = [p \in Players |-> NoHand]
    /\ UNCHANGED <<starting, progress, hands, next, remaining, zones>>

\* Mutant: one mulligan redraws both hands.
RedrawOf_Everyone(p) == Deals(hand[p] \cup ToSet(library[p]))

\* What a player may hold after the redraw: a mulliganing player returns the
\* hand, shuffles and draws seven.
RedrawOf(p) ==
    IF mulliganThisRound[p] THEN Deals(hand[p] \cup ToSet(library[p]))
    ELSE {[hand |-> hand[p], library |-> library[p]]}

\* All announcements are in before any hand changes.
Redraw ==
    /\ stage = "announce" /\ next = 2 /\ Valid
    /\ \E p \in Players : ~kept[p]
    /\ LET redrawing == {p \in Players : mulliganThisRound[p]}
       IN /\ \E d0 \in RedrawOf(0), d1 \in RedrawOf(1) :
                /\ hand' = [p \in Players |-> IF p = 0 THEN d0.hand ELSE d1.hand]
                /\ library' = [p \in Players |-> IF p = 0 THEN d0.library ELSE d1.library]
          /\ zcc' = Bump(Bump(zcc, UNION {hand[p] : p \in redrawing}),
                         UNION {hand'[p] : p \in redrawing})
          /\ counts' = [p \in Players |->
                           IF p \in redrawing THEN counts[p] + 1 ELSE counts[p]]
          /\ hands' = [p \in Players |->
                          IF p \in redrawing THEN Bindings(hand'[p], zcc') ELSE hands[p]]
    /\ stage' = "bottom" /\ next' = 0 /\ remaining' = 0
    /\ UNCHANGED <<starting, kept, mulliganThisRound, exile, declined>>

SkipBottom ==
    /\ stage = "bottom" /\ next < 2 /\ Valid
    /\ ~mulliganThisRound[Player(next)]
    /\ next' = next + 1 /\ remaining' = 0
    /\ UNCHANGED <<starting, progress, hands, stage, zones, declined>>

\* Mutant: one card to bottom each round, however many mulligans were taken.
AskBottom_One ==
    /\ stage = "bottom" /\ next < 2 /\ remaining = 0 /\ Valid
    /\ mulliganThisRound[Player(next)]
    /\ remaining' = 1
    /\ UNCHANGED <<starting, progress, hands, stage, next, zones, declined>>

AskBottom ==
    /\ stage = "bottom" /\ next < 2 /\ remaining = 0 /\ Valid
    /\ mulliganThisRound[Player(next)]
    /\ remaining' = counts[Player(next)]
    /\ UNCHANGED <<starting, progress, hands, stage, next, zones, declined>>

CloseRound ==
    /\ stage = "bottom" /\ next = 2 /\ Valid
    /\ mulliganThisRound' = [p \in Players |-> FALSE]
    /\ stage' = "announce" /\ next' = 0
    /\ UNCHANGED <<starting, counts, kept, hands, remaining, zones, declined>>

Drain == AutoKeep \/ Complete \/ Redraw \/ SkipBottom \/ AskBottom \/ CloseRound

-----------------------------------------------------------------------------
(* answer.                                                                 *)

\* The player still has a choice to make in this round's announcements.
Announcing(p) ==
    /\ stage = "announce" /\ next < 2 /\ p = Player(next)
    /\ ~kept[p] /\ counts[p] < HandSize
    /\ Valid

\* serum_powder_offer: a Powder in hand, not declined for this exact hand.
PowderOffered(p) ==
    /\ hand[p] \cap Powders # {}
    /\ declined[p] # Bindings(hand[p], zcc)

ChooseMulligan(p, mulligan) ==
    /\ Announcing(p) /\ ~PowderOffered(p)
    /\ kept' = [kept EXCEPT ![p] = ~mulligan]
    /\ mulliganThisRound' = [mulliganThisRound EXCEPT ![p] = mulligan]
    /\ next' = next + 1
    /\ UNCHANGED <<starting, counts, hands, stage, remaining, zones, declined>>

DeclinePowder(p) ==
    /\ Announcing(p) /\ PowderOffered(p)
    /\ declined' = [declined EXCEPT ![p] = Bindings(hand[p], zcc)]
    /\ UNCHANGED <<starting, progress, hands, stage, next, remaining, zones>>

\* What Serum Powder does to the zones: the hand is exiled as a batch, then
\* as many cards are drawn.
ExileAndDraw(p) ==
    LET n == Cardinality(hand[p])
    IN /\ hand' = [hand EXCEPT ![p] = ToSet(SubSeq(library[p], 1, n))]
       /\ library' = [library EXCEPT ![p] = SubSeq(library[p], n + 1, Len(library[p]))]
       /\ exile' = [exile EXCEPT ![p] = exile[p] \cup hand[p]]
       /\ zcc' = Bump(zcc, hand[p] \cup hand'[p])

\* Mutant: the new hand is not recorded.
UsePowder_KeepsBinding(p) ==
    /\ Announcing(p) /\ PowderOffered(p)
    /\ ExileAndDraw(p)
    /\ UNCHANGED <<starting, progress, hands, stage, next, remaining, declined>>

UsePowder(p) ==
    /\ Announcing(p) /\ PowderOffered(p)
    /\ ExileAndDraw(p)
    /\ hands' = [hands EXCEPT ![p] = Bindings(hand'[p], zcc')]
    /\ UNCHANGED <<starting, progress, stage, next, remaining, declined>>

\* Where the next bottom choice leaves the stage.
AfterBottom ==
    IF remaining = 1 THEN next' = next + 1 /\ remaining' = 0
    ELSE next' = next /\ remaining' = remaining - 1

ChooseBottom(p, card) ==
    /\ stage = "bottom" /\ next < 2 /\ remaining > 0 /\ p = Player(next) /\ Valid
    /\ card \in hand[p]
    /\ hand' = [hand EXCEPT ![p] = @ \ {card}]
    /\ library' = [library EXCEPT ![p] = Append(@, card)]
    /\ zcc' = Bump(zcc, {card})
    /\ hands' = [hands EXCEPT ![p] = Bindings(hand'[p], zcc')]
    /\ AfterBottom
    /\ UNCHANGED <<starting, progress, stage, exile, declined>>

Answer ==
    \/ \E p \in Players, mulligan \in BOOLEAN : ChooseMulligan(p, mulligan)
    \/ \E p \in Players : DeclinePowder(p)
    \/ \E p \in Players : UsePowder(p)
    \/ \E p \in Players, card \in DeckCards : ChooseBottom(p, card)

\* The game goes on from here; nothing of the pregame changes any more.
Done == stage = "complete" /\ UNCHANGED mulliganVars

MulliganNext == Drain \/ Answer \/ Done

MulliganSpec == MulliganInit /\ [][MulliganNext]_mulliganVars

\* The engine's loop drains until a decision, and the driver answers it.
MulliganFairSpec == MulliganSpec /\ WF_mulliganVars(MulliganNext)

-----------------------------------------------------------------------------
(* What the pregame promises.                                              *)

\* validate never fails: between any two decisions, and after the last one,
\* the recorded hands are the hands, at the cards' current zone change counts.
NeverHalts == Valid

\* No card is lost, doubled or given to the other player, whatever mixture of
\* redraws, bottoming and Serum Powder the pregame went through.
CardsConserved ==
    \A p \in Players :
        /\ hand[p] \cup ToSet(library[p]) \cup exile[p] = Deck[p]
        /\ Cardinality(hand[p]) + Len(library[p]) + Cardinality(exile[p]) = Cardinality(Deck[p])

\* The price of a mulligan: whenever announcements are made, and when the
\* game starts, a player holds seven cards less one for each mulligan taken;
\* a player asked to bottom cards has that many cards to bottom; and no card
\* has been lost or doubled on the way.
HandPaysForMulligans ==
    /\ CardsConserved
    /\ stage # "bottom" => \A p \in Players : Cardinality(hand[p]) = HandSize - counts[p]
    /\ stage = "bottom" /\ remaining > 0 => remaining <= Cardinality(hand[Player(next)])

\* Keeping is final: while the opponent goes on with mulligans, a kept hand
\* and the library under it are never touched again.
KeptHandStays ==
    [][\A p \in Players : kept[p] =>
           kept'[p] /\ hand'[p] = hand[p] /\ library'[p] = library[p]]_mulliganVars

\* The pregame ends: every decision has an answer, and the mulligans run out.
MulligansFinish == <>(stage = "complete")
=============================================================================
