---------------------------- MODULE MCFullyAsync ----------------------------
(* Instances of FullyAsync for TLC. *)
EXTENDS FullyAsync

Whole == {FALSE}
Partial == {TRUE}
BothRollouts == {TRUE, FALSE}
=============================================================================
