------------------------ MODULE MCDurablePublication ------------------------
(***************************************************************************)
(* Model-checking instance of DurablePublication: writers, staging names   *)
(* and byte strings are interchangeable.                                   *)
(***************************************************************************)
EXTENDS DurablePublication, TLC

Symmetry ==
    Permutations(Writers) \cup Permutations(StageNames) \cup Permutations(Values)
=============================================================================
