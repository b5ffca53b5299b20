----------------------------- MODULE NixlEngine -----------------------------
(***************************************************************************)
(* NIXLCheckpointEngine: the ranks form a chain.  A rank offers a bucket   *)
(* to the next one with a message (ReadableOperation); the next rank reads *)
(* it out of the offering rank's memory and the transfer's completion      *)
(* notifies the offering rank (ReadOperation).                             *)
(***************************************************************************)
EXTENDS WeightTransfer

Nixl == engine = "nixl"

\* ReadableOperation(...) by rank r - 1.
Offer(r, bucket) ==
    /\ inbox' = [inbox EXCEPT ![r] = Append(@, bucket)]
    /\ unread' = unread \cup {r}

NixlFlush ==
    /\ Nixl /\ Flushing /\ 1 \notin unread
    /\ Offer(1, Bucket(FALSE)) /\ NextBucket("fill")
    /\ UNCHANGED <<engine, stage, version, buf, rx, joined, ipc, loaded>>

NixlLast ==
    /\ Nixl /\ Finishing /\ 1 \notin unread
    /\ Offer(1, Bucket(TRUE)) /\ LastBucket
    /\ UNCHANGED <<engine, stage, version, buf, rx, joined, ipc, loaded>>

NixlSent ==
    /\ Nixl /\ 1 \notin unread /\ SenderDone
    /\ UNCHANGED <<engine, stage, version, buf, rx, inbox, unread, joined, ipc, loaded>>

\* read_metadata and begin_read: the read from the previous rank is under way, and
\* only then are tensors of the bucket in hand yielded.
NixlBeginRead(r) ==
    /\ Nixl /\ rx[r].at = "recv" /\ inbox[r] # << >>
    /\ inbox' = [inbox EXCEPT ![r] = Tail(@)]
    /\ rx' = [rx EXCEPT ![r].at = "yield", ![r].fly = "running", ![r].coming = Head(inbox[r])]
    /\ UNCHANGED <<engine, stage, version, buf, tx, unread, joined, ipc, loaded>>

\* The transfer completes: the other half is filled, the previous rank notified.
NixlRead(r) ==
    /\ Nixl /\ rx[r].fly = "running"
    /\ buf' = [buf EXCEPT ![r][Other(rx[r].idx)] = buf[r - 1][rx[r].coming.src]]
    /\ unread' = unread \ {r}
    /\ rx' = [rx EXCEPT ![r].fly = "done"]
    /\ UNCHANGED <<engine, stage, version, tx, inbox, joined, ipc, loaded>>

\* Swap, and offer the bucket now in hand to the next rank.
NixlForward(r) ==
    LET b == rx[r].coming IN
    /\ rx' = [rx EXCEPT ![r].at = IF b.last THEN "yield" ELSE "recv",
                        ![r].idx = @ + 1, ![r].out = b.out, ![r].last = b.last,
                        ![r].fly = "none"]
    /\ IF r + 1 \in Workers
         THEN Offer(r + 1, [b EXCEPT !.src = Other(rx[r].idx)])
         ELSE UNCHANGED <<inbox, unread>>
    /\ UNCHANGED <<engine, stage, version, buf, tx, joined, ipc, loaded>>

\* Mutant: the next rank's read is not awaited before the swap.
NixlSwapNoWait(r) ==
    /\ Nixl /\ Exhausted(r) /\ ~rx[r].last /\ rx[r].fly = "done" /\ NixlForward(r)

\* The bucket in hand is used up, the next rank has read it and the read from the
\* previous rank is complete.
NixlSwap(r) ==
    /\ Nixl /\ Exhausted(r) /\ ~rx[r].last /\ r + 1 \notin unread
    /\ rx[r].fly = "done" /\ NixlForward(r)

NixlReceived(r) ==
    /\ Nixl /\ Exhausted(r) /\ rx[r].last /\ r + 1 \notin unread
    /\ rx' = [rx EXCEPT ![r].at = "ended"]
    /\ UNCHANGED <<engine, stage, version, buf, tx, inbox, unread, joined, ipc, loaded>>

NixlSender == NixlFlush \/ NixlLast \/ NixlSent
NixlReceiver(r) == NixlBeginRead(r) \/ NixlRead(r) \/ NixlSwap(r) \/ NixlReceived(r)
=============================================================================
