----------------------------- MODULE TurnOrder -----------------------------
(***************************************************************************)
(* Whose turn it is, as a player of the game counts it: regular turns      *)
(* alternate from the starting player, and every extra turn that was       *)
(* promised is taken before the next regular one, the latest promise       *)
(* first.  TurnLoop implements this specification with a scheduler that    *)
(* only comes into being when the first extra turn is promised.            *)
(***************************************************************************)
EXTENDS Naturals, Sequences

CONSTANT Starting            \* the player who takes the first turn

VARIABLES active,            \* the player whose turn it is
          regular,           \* the player whose regular turn is next
          waiting,           \* extra turns promised and not yet taken
          taken,             \* how many turns each player has begun
          round              \* how many regular turns Starting has begun

order == <<active, regular, waiting, taken, round>>

Seats == {0, 1}

Init == /\ active = Starting
        /\ regular = 1 - Starting
        /\ waiting = <<>>
        /\ taken = [p \in Seats |-> IF p = Starting THEN 1 ELSE 0]
        /\ round = 1

Promise(p) == /\ waiting' = Append(waiting, p)
              /\ UNCHANGED <<active, regular, taken, round>>

ExtraTurn == /\ waiting # <<>>
             /\ active' = waiting[Len(waiting)]
             /\ waiting' = SubSeq(waiting, 1, Len(waiting) - 1)
             /\ taken' = [taken EXCEPT ![active'] = @ + 1]
             /\ UNCHANGED <<regular, round>>

RegularTurn == /\ waiting = <<>>
               /\ active' = regular
               /\ regular' = 1 - regular
               /\ taken' = [taken EXCEPT ![regular] = @ + 1]
               /\ round' = IF regular = Starting THEN round + 1 ELSE round
               /\ UNCHANGED waiting

Next == (\E p \in Seats : Promise(p)) \/ ExtraTurn \/ RegularTurn

Spec == Init /\ [][Next]_order
=============================================================================
