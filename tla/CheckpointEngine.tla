-------------------------- MODULE CheckpointEngine --------------------------
(***************************************************************************)
(* CheckpointEngineManager.update_weights with the engine its config names: *)
(* build the group, run the sender and every receiver, finalize, and begin  *)
(* again for the next version.                                              *)
(***************************************************************************)
EXTENDS NcclEngine, NixlEngine, MooncakeEngine

\* The halves after prepare(): new ones, except for Mooncake, which allocates its
\* buffer with the engine.
Prepared == IF Mooncake THEN buf ELSE [r \in Ranks |-> Halves]

\* abort_all_requests, build_process_group (new SUB sockets for the broadcasts),
\* then the sender and the receivers are called.
UpdateWeights ==
    /\ stage = "idle" /\ version < MaxUpdates
    /\ stage' = "transfer" /\ version' = version + 1
    /\ buf' = Prepared
    /\ tx' = [FreshTx EXCEPT !.at = "fill"]
    /\ rx' = [r \in Workers |-> FreshRx]
    /\ ipc' = [r \in Workers |-> FreshIpc]
    /\ inbox' = [r \in Workers |-> << >>] /\ unread' = {} /\ joined' = {}
    /\ loaded' = [r \in Workers |-> << >>]
    /\ UNCHANGED engine

\* ray.get of the sender and of all receivers, finalize, resume_generation.
UpdateReturns ==
    /\ stage = "transfer" /\ tx.at = "done" /\ \A r \in Workers : rx[r].at = "done"
    /\ stage' = "idle"
    /\ UNCHANGED <<engine, version, buf, tx, rx, inbox, unread, joined, ipc, loaded>>

SenderStep == Fill \/ NcclSender \/ NixlSender \/ MooncakeSender
ReceiverStep(r) ==
    ConsumerStep(r) \/ NcclReceiver(r) \/ NixlReceiver(r) \/ MooncakeReceiver(r)
ManagerStep == UpdateWeights \/ UpdateReturns

Next ==
    \/ SenderStep \/ ManagerStep
    \/ \E r \in Workers : ReceiverStep(r) \/ Subscribe(r)

Spec == TransferInit /\ [][Next]_transferVars

\* The trainer's and the workers' processes run; a subscription takes effect.
FairSpec ==
    /\ Spec
    /\ WF_transferVars(SenderStep) /\ WF_transferVars(ManagerStep)
    /\ \A r \in Workers : WF_transferVars(ReceiverStep(r)) /\ WF_transferVars(Subscribe(r))
-----------------------------------------------------------------------------
(* Properties.                                                             *)

\* Where greedy packing puts a tensor in its bucket.
OffsetOf[k \in Tensors] ==
    IF k = 1 THEN 0
    ELSE LET end == OffsetOf[k - 1] + Sizes[k - 1]
         IN  IF end + Sizes[k] > BucketSize THEN 0 ELSE end

\* Mooncake's middle ranks: the next rank's marker may arrive while the first
\* tensor of the bucket is still to be yielded.
MarkerRace ==
    IF Mooncake THEN {p \in Workers \X Tensors : p[1] < Receivers /\ OffsetOf[p[2]] = 0}
                ELSE {}

WS == INSTANCE WeightStream WITH
        TensorCount <- Len(Sizes), at_risk <- MarkerRace

TypeOK ==
    /\ engine \in Engines /\ stage \in {"idle", "transfer"} /\ version \in 0 .. MaxUpdates
    /\ DOMAIN buf = Ranks /\ \A r \in Ranks, h \in {0, 1} :
          \A i \in 0 .. BucketSize - 1 :
              buf[r][h][i] \in {Zero, Magic} \cup ((0 .. version) \X Tensors)
    /\ tx.at \in {"off", "fill", "wait", "await", "done"} /\ tx.offset \in 0 .. BucketSize
    /\ \A r \in Workers :
          /\ rx[r].at \in {"off", "recv", "yield", "ended", "last_sent", "done"}
          /\ rx[r].fly \in {"none", "running", "done"}
          /\ ipc[r].offset \in 0 .. LoadSize
          /\ Len(loaded[r]) <= Len(Sizes)
    /\ unread \subseteq Workers /\ joined \subseteq Workers

\* receive_weights ("Yields: A tuple of the name of the weight tensor and the tensor
\* itself") and the IPC transfer behind it: whatever the engine, every worker loads
\* each tensor of the version once, in order and untorn, and the next update begins
\* only after all of that; for Mooncake, the first tensor of a bucket on a rank
\* that has a next one is excepted.
StreamRefined == WS!StreamSpec

\* A half is wanted while its rank yields from it and while a rank that was told of
\* a bucket in it has not read it.
Wanted(r, h) ==
    \/ r \in Workers /\ Yielding(r) /\ Hand(rx[r].idx) = h
    \/ \E q \in Workers :
          /\ r = IF Broadcasts THEN 0 ELSE q - 1
          /\ \/ \E i \in DOMAIN inbox[q] : inbox[q][i].src = h
             \/ Nixl /\ rx[q].fly = "running" /\ rx[q].coming.src = h

OnlyMarked(r, h) ==
    /\ Mooncake /\ r \in 1 .. Receivers - 1
    /\ \A i \in 1 .. BucketSize - 1 : buf'[r][h][i] = buf[r][h][i]

\* Double buffering is safe: the sender's refill and a receiver's next read never
\* touch a half somebody still wants, however the ranks' speeds differ (Mooncake's
\* marker on a middle rank, which is one cell, is the exception).
NoOverwriteInUse ==
    [][\A r \in Ranks, h \in {0, 1} :
          Wanted(r, h) => buf'[r][h] = buf[r][h] \/ OnlyMarked(r, h)]_transferVars

\* A description published before the receiver's subscription took effect.
DescriptionLost ==
    Broadcasts /\ \E r \in Workers : r \in unread /\ inbox[r] = << >>

\* The ranks never wait for each other in a circle: every update ends, unless a
\* broadcast's description was lost to a receiver that had not joined yet.
TransferEnds == (stage = "transfer") ~> (stage = "idle" \/ DescriptionLost)
=============================================================================
