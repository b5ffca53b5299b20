--------------------------- MODULE MCRolloutSync ---------------------------
(* Instances of RolloutSync for TLC. *)
EXTENDS RolloutSync

McScripts == [single |-> <<"word", "word", "word">>,
              tool |-> <<"open", "close", "answer", "word">>]

\* The scripts above are of the shape that the theorems about them suppose.
ASSUME McScriptShape == ScriptShape

\* The validation and the sample run side by side but share nothing: one of them at a
\* time.  Without a validation no engine has anything to abort.  A single turn of three
\* words is the same under both limits.
McInit ==
    /\ Init
    /\ parallel <=> sample.at = "done"
    /\ ~parallel => pausing
    /\ agent = "single" => limit = 5

\* Bound: the monitor lifts the pause of the first update only, before the transfer, and
\* for the single turn (when the sample is submitted again is left open); the second
\* update cuts what that has started.
McNext == Next /\ (LateRecovery => phase = "paused" /\ version = 0 /\ agent = "single")

McFairSpec == McInit /\ [][McNext]_vars /\ Fairness
=============================================================================
