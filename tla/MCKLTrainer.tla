----------------------------- MODULE MCKLTrainer -----------------------------
(* Instances of KLTrainer for TLC. *)
EXTENDS KLTrainer

\* Three epochs of five batches in windows of two: optimizer steps 1..9; the third
\* step of each epoch ends a short window.
McRanks == {0, 1}
McExplicitStep == 2
McExplicitWeights == << <<0, 0>>, <<0, 1>>, <<0, 2>>, <<0, 3>> >>

Sharded == [save_steps |-> 2, keep |-> 1, lora |-> FALSE, export |-> "sync",
            resume |-> "auto", mode |-> "continue", sharded |-> TRUE]

McConfigs ==
    {Sharded,
     [Sharded EXCEPT !.keep = 2, !.lora = TRUE],
     [Sharded EXCEPT !.keep = 0, !.export = "none"],
     [Sharded EXCEPT !.export = "async"],
     [Sharded EXCEPT !.resume = "missing"],
     [Sharded EXCEPT !.resume = "explicit"],
     [Sharded EXCEPT !.resume = "explicit", !.mode = "initialize"],
     [Sharded EXCEPT !.keep = 2, !.mode = "initialize"],
     [Sharded EXCEPT !.save_steps = 9],
     [Sharded EXCEPT !.save_steps = 3, !.keep = 2]}

LastStepPeriodic == {[Sharded EXCEPT !.save_steps = 3]}
UnshardedConfigs == {[Sharded EXCEPT !.sharded = FALSE]}
=============================================================================
