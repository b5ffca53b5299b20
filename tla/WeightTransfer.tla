--------------------------- MODULE WeightTransfer ---------------------------
(***************************************************************************)
(* What the checkpoint engines share: rank 0 of the trainer packs tensors   *)
(* into the two halves of a double buffer, receivers (ranks 1 .. Receivers) *)
(* yield tensors out of theirs, and the rollout worker that consumes them   *)
(* passes them on to its inference process through an IPC buffer            *)
(* (BucketedWeightSender and BucketedWeightReceiver).  How a bucket travels *)
(* from rank to rank is in NcclEngine, NixlEngine and MooncakeEngine.       *)
(*                                                                         *)
(* Memory is counted in cells; a cell of tensor w in update v holds         *)
(* <<v, w>>, so a tensor read while something else is written over it is    *)
(* seen to be torn.                                                         *)
(***************************************************************************)
EXTENDS Integers, Sequences

CONSTANTS
    Receivers,    \* world_size - 1
    Sizes,        \* cells of each tensor, in the order the trainer yields them
    BucketSize,   \* cells of one half of an engine's double buffer
    LoadSize,     \* cells of the IPC buffer
    Engines,      \* the checkpoint_engine.backend values of this instance
    MaxUpdates    \* bound: weight updates of a run

Tensors == 1 .. Len(Sizes)
Workers == 1 .. Receivers
Ranks == 0 .. Receivers

\* The code asserts that each tensor fits ("too large to fit in the bucket").
ASSUME TransferAssumption ==
    /\ Receivers \in Nat \ {0} /\ MaxUpdates \in Nat
    /\ Len(Sizes) \in Nat \ {0} /\ BucketSize \in Nat /\ LoadSize \in Nat
    /\ \A w \in Tensors : Sizes[w] \in Nat \ {0} /\ Sizes[w] <= BucketSize
                          /\ Sizes[w] <= LoadSize
    /\ Engines \subseteq {"nccl", "hccl", "nixl", "mooncake"}

VARIABLES
    engine,   \* checkpoint_engine.backend
    stage,    \* where CheckpointEngineManager.update_weights is
    version,  \* the update under way, or the last one
    buf,      \* [Ranks -> the two halves of the rank's buffer]
    tx,       \* rank 0's send_weights
    rx,       \* [Workers -> the rank's receive_weights]
    inbox,    \* [Workers -> bucket descriptions sent to the rank]
    unread,   \* receivers that have not taken the bucket last offered to them
    joined,   \* receivers whose ZMQ subscription is in effect
    ipc,      \* [Workers -> the IPC transfer of the rank's worker]
    loaded    \* [Workers -> <<tensor, contents>> in the order they were loaded]

transferVars == <<engine, stage, version, buf, tx, rx, inbox, unread, joined, ipc, loaded>>

Zero  == <<0, 0>>
Magic == <<0, -1>>
Blank(n) == [i \in 0 .. n - 1 |-> Zero]
Halves == [h \in {0, 1} |-> Blank(BucketSize)]

\* A tensor in a buffer (TensorMeta), and a buffer with a tensor's cells written.
At(w, offset) == [w |-> w, offset |-> offset]
CellsOf(t) == t.offset .. t.offset + Sizes[t.w] - 1
Write(b, t, cells) == [i \in DOMAIN b |-> IF i \in CellsOf(t) THEN cells[i - t.offset] ELSE b[i]]
Values(v, w) == [i \in 0 .. Sizes[w] - 1 |-> <<v, w>>]
Read(b, t) == [i \in 0 .. Sizes[t.w] - 1 |-> b[t.offset + i]]
Contents(b, t) == {b[i] : i \in CellsOf(t)}

\* The half a rank's generator has in hand (send_buf, current), and the other one.
Hand(idx) == idx % 2
Other(idx) == (idx + 1) % 2

FreshTx == [at |-> "off", idx |-> 0, next |-> 1, offset |-> 0, meta |-> << >>]
FreshRx == [at |-> "off", idx |-> 0, out |-> << >>, last |-> FALSE, fly |-> "none",
            coming |-> [out |-> << >>, last |-> FALSE, src |-> 0]]
FreshIpc == [buf |-> Blank(LoadSize), offset |-> 0, meta |-> << >>, sent |-> FALSE,
             clones |-> << >>]

TransferInit ==
    /\ engine \in Engines /\ stage = "idle" /\ version = 0
    /\ buf = [r \in Ranks |-> Halves]
    /\ tx = FreshTx /\ rx = [r \in Workers |-> FreshRx]
    /\ inbox = [r \in Workers |-> << >>] /\ unread = {} /\ joined = {}
    /\ ipc = [r \in Workers |-> FreshIpc]
    /\ loaded = [r \in Workers |-> [k \in Tensors |-> <<k, {<<0, k>>}>>]]
-----------------------------------------------------------------------------
(* send_weights on rank 0: pack tensors until one does not fit.            *)

Fits == tx.offset + Sizes[tx.next] <= BucketSize
Flushing  == tx.at = "fill" /\ tx.next <= Len(Sizes) /\ ~Fits
Finishing == tx.at = "fill" /\ tx.next > Len(Sizes)

\* The description of the bucket packed so far, with the half it is in.
Bucket(is_last) == [out |-> tx.meta, last |-> is_last, src |-> Hand(tx.idx)]

\* Swap the halves and start an empty bucket; or wait for the last one.
NextBucket(place) ==
    tx' = [tx EXCEPT !.at = place, !.idx = @ + 1, !.offset = 0, !.meta = << >>]
LastBucket == tx' = [tx EXCEPT !.at = "await"]
SenderDone == tx.at = "await" /\ tx' = [tx EXCEPT !.at = "done"]

\* Copy the next tensor into the half in hand.  HCCL's operation is not run by an
\* executor: the sender is inside it until the receivers have taken the bucket.
Fill ==
    /\ tx.at = "fill" /\ tx.next <= Len(Sizes) /\ Fits
    /\ engine = "hccl" => unread = {}
    /\ LET t == At(tx.next, tx.offset) IN
         /\ buf' = [buf EXCEPT ![0][Hand(tx.idx)] = Write(@, t, Values(version, t.w))]
         /\ tx' = [tx EXCEPT !.next = @ + 1, !.offset = @ + Sizes[t.w],
                             !.meta = Append(@, t)]
    /\ UNCHANGED <<engine, stage, version, rx, inbox, unread, joined, ipc, loaded>>
-----------------------------------------------------------------------------
(* receive_weights, and the consumer that iterates over it.                *)

\* The worker's IPC handshake is done and its first step asks for a tensor.  The
\* NCCL and HCCL engines start the operation for the first bucket at once.
StartReceiving(r) ==
    /\ stage = "transfer" /\ rx[r].at = "off"
    /\ rx' = [rx EXCEPT ![r].at = "recv",
                        ![r].fly = IF engine \in {"nccl", "hccl"} THEN "running" ELSE "none"]
    /\ UNCHANGED <<engine, stage, version, buf, tx, inbox, unread, joined, ipc, loaded>>

\* The generator is at its yield, with tensors of the bucket in hand left.
Yielding(r) == rx[r].at = "yield" /\ rx[r].out # << >>
Exhausted(r) == rx[r].at = "yield" /\ rx[r].out = << >>
IpcFits(r) == ipc[r].offset + Sizes[Head(rx[r].out).w] <= LoadSize

\* Mutant: a tensor is copied whether or not it fits.
YieldUnfitted(r) ==
    /\ Yielding(r) /\ ~ipc[r].sent
    /\ engine = "hccl" => rx[r].fly # "running"
    /\ LET t == Head(rx[r].out)
           u == At(t.w, ipc[r].offset)
       IN  /\ ipc' = [ipc EXCEPT
                ![r].buf = Write(@, u, Read(buf[r][Hand(rx[r].idx)], t)),
                ![r].offset = @ + Sizes[t.w], ![r].meta = Append(@, u)]
           /\ rx' = [rx EXCEPT ![r].out = Tail(@)]
    /\ UNCHANGED <<engine, stage, version, buf, tx, inbox, unread, joined, loaded>>

\* Yield a tensor; the consumer copies it into the IPC buffer.  (In an HCCL engine
\* nothing is yielded before the operation for the next bucket has returned.)
Yield(r) ==
    /\ Yielding(r) /\ ~ipc[r].sent /\ IpcFits(r)
    /\ engine = "hccl" => rx[r].fly # "running"
    /\ LET t == Head(rx[r].out)
           u == At(t.w, ipc[r].offset)
       IN  /\ ipc' = [ipc EXCEPT
                ![r].buf = Write(@, u, Read(buf[r][Hand(rx[r].idx)], t)),
                ![r].offset = @ + Sizes[t.w], ![r].meta = Append(@, u)]
           /\ rx' = [rx EXCEPT ![r].out = Tail(@)]
    /\ UNCHANGED <<engine, stage, version, buf, tx, inbox, unread, joined, loaded>>

\* The tensor does not fit, or the generator has ended: the bucket is sent, and
\* the consumer waits for the reply.
IpcSend(r) ==
    /\ ~ipc[r].sent
    /\ \/ Yielding(r) /\ ~IpcFits(r) /\ UNCHANGED rx
       \/ rx[r].at = "ended" /\ rx' = [rx EXCEPT ![r].at = "last_sent"]
    /\ ipc' = [ipc EXCEPT ![r].sent = TRUE]
    /\ UNCHANGED <<engine, stage, version, buf, tx, inbox, unread, joined, loaded>>

\* The inference process clones the bucket's tensors and replies.
IpcClone(r) ==
    /\ ipc[r].sent /\ ipc[r].clones = << >>
    /\ ipc' = [ipc EXCEPT
          ![r].sent = FALSE, ![r].offset = 0, ![r].meta = << >>,
          ![r].clones = [i \in DOMAIN ipc[r].meta |->
                            <<ipc[r].meta[i].w, Contents(ipc[r].buf, ipc[r].meta[i])>>]]
    /\ UNCHANGED <<engine, stage, version, buf, tx, rx, inbox, unread, joined, loaded>>

\* on_bucket_received: the clones are loaded into the model.
IpcLoad(r) ==
    /\ ipc[r].clones # << >>
    /\ loaded' = [loaded EXCEPT ![r] = @ \o ipc[r].clones]
    /\ ipc' = [ipc EXCEPT ![r].clones = << >>]
    /\ UNCHANGED <<engine, stage, version, buf, tx, rx, inbox, unread, joined>>

\* The last bucket is loaded: update_weights returns.
WorkerDone(r) ==
    /\ rx[r].at = "last_sent" /\ ~ipc[r].sent /\ ipc[r].clones = << >>
    /\ rx' = [rx EXCEPT ![r].at = "done"]
    /\ UNCHANGED <<engine, stage, version, buf, tx, inbox, unread, joined, ipc, loaded>>

ConsumerStep(r) ==
    \/ StartReceiving(r) \/ Yield(r) \/ IpcSend(r) \/ IpcClone(r) \/ IpcLoad(r)
    \/ WorkerDone(r)
=============================================================================
