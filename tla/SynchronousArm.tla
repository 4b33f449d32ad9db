--------------------------- MODULE SynchronousArm ---------------------------
(***************************************************************************)
(* The fully synchronous trainer loop that the bounded-staleness scheduler *)
(* is compared with: `run_real_sync_arm_v1` (and `run_sync_arm_v1`) run    *)
(* one trainer update to completion, record its evidence, and repeat.      *)
(* The evidence of an update (loss bits, mean return) is abstracted to the *)
(* number of the trainer step that computed it, which determines it        *)
(* because a trainer is deterministic and advances in place.               *)
(***************************************************************************)
EXTENDS Naturals, Sequences

CONSTANT TotalUpdates   \* config.total_updates

VARIABLE trajectory     \* loss_bits_by_update / mean_learner_return_by_update

Init == trajectory = <<>>

\* One iteration of `for _ in 1..=config.total_updates`: the trainer step
\* whose number is one more than the updates already recorded.
RunUpdate ==
    /\ Len(trajectory) < TotalUpdates
    /\ trajectory' = Append(trajectory, Len(trajectory) + 1)

Spec == Init /\ [][RunUpdate]_trajectory
=============================================================================
