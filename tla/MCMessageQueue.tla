--------------------------- MODULE MCMessageQueue ---------------------------
(* Instance of MessageQueue for TLC. *)
EXTENDS MessageQueue

McConsumers == {"c1", "c2"}
McSamples == {1, 2}
McVersions == {0, 1}
McNoSample == 0

\* Bounds: samples put, and validation records waiting.
MaxProduced == 5
MaxValidate == 2
Bounded == total_produced <= MaxProduced /\ Len(val_queue) <= MaxValidate
=============================================================================
