--------------------------- MODULE MooncakeEngine ---------------------------
(***************************************************************************)
(* MooncakeCheckpointEngine: a chain again, but the only answer a rank gets *)
(* is a marker of four bytes that the next rank writes over the start of   *)
(* the bucket it has used up.  The buffers live as long as the engine, so  *)
(* markers of earlier buckets are still there when a half is used again.   *)
(***************************************************************************)
EXTENDS WeightTransfer

Mooncake == engine = "mooncake"
Marked(b) == b[0] = Magic
SendTo(r, bucket) == inbox' = [inbox EXCEPT ![r] = Append(@, bucket)]

\* Send the bucket; from the second time on, wait for the marker in the half that
\* is about to be filled again.
MooncakeFlush ==
    /\ Mooncake /\ Flushing
    /\ SendTo(1, Bucket(FALSE))
    /\ NextBucket(IF tx.idx = 0 THEN "fill" ELSE "wait")
    /\ UNCHANGED <<engine, stage, version, buf, rx, unread, joined, ipc, loaded>>

\* wait_for_complete before a half is filled again
MooncakeFree ==
    /\ Mooncake /\ tx.at = "wait" /\ Marked(buf[0][Hand(tx.idx)])
    /\ tx' = [tx EXCEPT !.at = "fill"]
    /\ UNCHANGED <<engine, stage, version, buf, rx, inbox, unread, joined, ipc, loaded>>

MooncakeLast ==
    /\ Mooncake /\ Finishing
    /\ SendTo(1, Bucket(TRUE)) /\ LastBucket
    /\ UNCHANGED <<engine, stage, version, buf, rx, unread, joined, ipc, loaded>>

MooncakeSent ==
    /\ Mooncake /\ Marked(buf[0][Hand(tx.idx)]) /\ SenderDone
    /\ UNCHANGED <<engine, stage, version, buf, rx, inbox, unread, joined, ipc, loaded>>

\* Copy what the bucket holds (info["len"] bytes) and leave the rest of the half.
CopyBucket(to, from, bucket) ==
    LET used == UNION {CellsOf(bucket.out[i]) : i \in DOMAIN bucket.out}
    IN  [i \in DOMAIN to |-> IF i \in used THEN from[i] ELSE to[i]]

ReadBucket(r) ==
    LET b == Head(inbox[r]) IN
    /\ buf' = [buf EXCEPT ![r][Hand(rx[r].idx)] = CopyBucket(@, buf[r - 1][b.src], b)]
    /\ inbox' = [q \in Workers |->
                    IF q = r THEN Tail(inbox[r])
                    ELSE IF q = r + 1 THEN Append(inbox[q], [b EXCEPT !.src = Hand(rx[r].idx)])
                    ELSE inbox[q]]
    /\ rx' = [rx EXCEPT ![r].at = "yield", ![r].out = b.out, ![r].last = b.last,
                        ![r].coming = b]
    /\ UNCHANGED <<engine, stage, version, tx, unread, joined, ipc, loaded>>

\* Mutant: a half is filled again whether or not the next rank has used it up.
MooncakeReadNoWait(r) ==
    /\ Mooncake /\ rx[r].at = "recv" /\ inbox[r] # << >> /\ ReadBucket(r)

\* The next bucket is there, and if its half was in use before, the next rank has
\* marked it: read it, and send its description on before yielding from it.
MooncakeRead(r) ==
    /\ Mooncake /\ rx[r].at = "recv" /\ inbox[r] # << >>
    /\ rx[r].idx >= 2 /\ r < Receivers => Marked(buf[r][Hand(rx[r].idx)])
    /\ ReadBucket(r)

\* Mutant: the last bucket is not marked.
MooncakeMarkNotLast(r) ==
    /\ Mooncake /\ Exhausted(r)
    /\ buf' = [buf EXCEPT ![r - 1][rx[r].coming.src][0] = IF rx[r].last THEN @ ELSE Magic]
    /\ rx' = [rx EXCEPT ![r].idx = @ + 1,
                        ![r].at = IF rx[r].last THEN "ended" ELSE "recv"]
    /\ UNCHANGED <<engine, stage, version, tx, inbox, unread, joined, ipc, loaded>>

\* The bucket is used up: mark it in the previous rank's memory, swap.
MooncakeMark(r) ==
    /\ Mooncake /\ Exhausted(r)
    /\ buf' = [buf EXCEPT ![r - 1][rx[r].coming.src][0] = Magic]
    /\ rx' = [rx EXCEPT ![r].idx = @ + 1,
                        ![r].at = IF rx[r].last THEN "ended" ELSE "recv"]
    /\ UNCHANGED <<engine, stage, version, tx, inbox, unread, joined, ipc, loaded>>

MooncakeSender == MooncakeFlush \/ MooncakeFree \/ MooncakeLast \/ MooncakeSent
MooncakeReceiver(r) == MooncakeRead(r) \/ MooncakeMark(r)
=============================================================================
