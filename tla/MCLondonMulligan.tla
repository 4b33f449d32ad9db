--------------------------- MODULE MCLondonMulligan ---------------------------
(***************************************************************************)
(* The model-checking instance of LondonMulligan.  Player 0 has a Serum    *)
(* Powder; the other cards of a deck are interchangeable.                  *)
(***************************************************************************)
EXTENDS LondonMulligan, TLC

CONSTANTS powder, Plain0, Plain1

MCDeck == 0 :> ({powder} \cup Plain0) @@ 1 :> Plain1
=============================================================================
