----------------------------- MODULE NcclEngine -----------------------------
(***************************************************************************)
(* NCCLCheckpointEngine and HCCLCheckpointEngine: the description of a     *)
(* bucket is published on a ZMQ PUB socket, its half is broadcast to every *)
(* receiver.  An operation is complete for the sender when the broadcast   *)
(* has reached all of them.                                                *)
(***************************************************************************)
EXTENDS WeightTransfer

Broadcasts == engine \in {"nccl", "hccl"}

\* A published description is lost to a receiver whose subscription is not yet in
\* effect (a SUB socket connects in the background).
Publish(bucket) ==
    /\ inbox' = [r \in Workers |-> IF r \in joined THEN Append(inbox[r], bucket)
                                   ELSE inbox[r]]
    /\ unread' = Workers

\* Mutant: the previous operation is not awaited.
NcclFlushNoWait ==
    /\ Broadcasts /\ Flushing
    /\ Publish(Bucket(FALSE)) /\ NextBucket("fill")
    /\ UNCHANGED <<engine, stage, version, buf, rx, joined, ipc, loaded>>

\* The bucket is full: wait for the previous operation, start one for it.
NcclFlush ==
    /\ Broadcasts /\ Flushing /\ unread = {}
    /\ Publish(Bucket(FALSE)) /\ NextBucket("fill")
    /\ UNCHANGED <<engine, stage, version, buf, rx, joined, ipc, loaded>>

NcclLast ==
    /\ Broadcasts /\ Finishing /\ unread = {}
    /\ Publish(Bucket(TRUE)) /\ LastBucket
    /\ UNCHANGED <<engine, stage, version, buf, rx, joined, ipc, loaded>>

NcclSent ==
    /\ Broadcasts /\ unread = {} /\ SenderDone
    /\ UNCHANGED <<engine, stage, version, buf, rx, inbox, unread, joined, ipc, loaded>>

\* Receiver r's operation: take the description, then the half (the broadcast
\* reads the sender's half whenever r's turn comes).
NcclDeliver(r) ==
    /\ Broadcasts /\ rx[r].fly = "running" /\ r \in unread /\ inbox[r] # << >>
    /\ inbox' = [inbox EXCEPT ![r] = Tail(@)]
    /\ buf' = [buf EXCEPT ![r][Other(rx[r].idx)] = buf[0][Head(inbox[r]).src]]
    /\ rx' = [rx EXCEPT ![r].fly = "done", ![r].coming = Head(inbox[r])]
    /\ unread' = unread \ {r}
    /\ UNCHANGED <<engine, stage, version, tx, joined, ipc, loaded>>

\* The operation has completed and the bucket in hand is used up: swap, and start
\* the operation for the bucket after it unless this is the last.
NcclSwap(r) ==
    /\ Broadcasts /\ rx[r].fly = "done"
    /\ rx[r].at = "recv" \/ (Exhausted(r) /\ ~rx[r].last)
    /\ LET b == rx[r].coming IN
         rx' = [rx EXCEPT ![r].at = "yield", ![r].idx = @ + 1, ![r].out = b.out,
                          ![r].last = b.last,
                          ![r].fly = IF b.last THEN "none" ELSE "running"]
    /\ UNCHANGED <<engine, stage, version, buf, tx, inbox, unread, joined, ipc, loaded>>

NcclReceived(r) ==
    /\ Broadcasts /\ Exhausted(r) /\ rx[r].last
    /\ rx' = [rx EXCEPT ![r].at = "ended"]
    /\ UNCHANGED <<engine, stage, version, buf, tx, inbox, unread, joined, ipc, loaded>>

\* The PUB socket has learnt r's subscription.
Subscribe(r) ==
    /\ Broadcasts /\ stage = "transfer" /\ r \notin joined
    /\ joined' = joined \cup {r}
    /\ UNCHANGED <<engine, stage, version, buf, tx, rx, inbox, unread, ipc, loaded>>

NcclSender == NcclFlush \/ NcclLast \/ NcclSent
NcclReceiver(r) == NcclDeliver(r) \/ NcclSwap(r) \/ NcclReceived(r)
=============================================================================
