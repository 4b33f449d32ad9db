---------------------------- MODULE MCBestOfThree ----------------------------
(***************************************************************************)
(* Model-checking instance of BestOfThree: decks of two main and one side  *)
(* card over two card names; a plan that fits, and one that does not fit   *)
(* the deck it is for.                                                     *)
(***************************************************************************)
EXTENDS BestOfThree, TLC

CONSTANTS c1, c2

MCRegistered ==
    0 :> [main |-> (c1 :> 2 @@ c2 :> 0), side |-> (c1 :> 0 @@ c2 :> 1)]
    @@ 1 :> [main |-> (c1 :> 1 @@ c2 :> 1), side |-> (c1 :> 0 @@ c2 :> 1)]

MCPlans ==
    <<0, 2>> :> [in |-> (c1 :> 0 @@ c2 :> 1), out |-> (c1 :> 1 @@ c2 :> 0)]
    @@ <<1, 3>> :> [in |-> (c1 :> 1 @@ c2 :> 0), out |-> (c1 :> 0 @@ c2 :> 1)]
=============================================================================
