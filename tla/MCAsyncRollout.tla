--------------------------- MODULE MCAsyncRollout ---------------------------
(* Three games for two workers: one in which the learner decides twice, one *)
(* it shares with the opponent, one without any learner decision.           *)
EXTENDS AsyncRollout

MCSeats == 0 :> <<"learner", "learner">> @@ 1 :> <<"opponent", "learner">> @@ 2 :> <<"opponent">>
=============================================================================
