----------------------- MODULE CheckpointEngineProofs -----------------------
(***************************************************************************)
(* Theorems about CheckpointEngine: the steps of each engine keep the       *)
(* invariant of CheckpointInvariant; from it, type correctness, that the    *)
(* workers load the stream of versions the manager promises, and that no    *)
(* half of a double buffer is overwritten while somebody wants it.          *)
(***************************************************************************)
EXTENDS CheckpointInvariant

-----------------------------------------------------------------------------
(* The broadcasts of NCCL and HCCL.                                        *)

\* A broadcast is received.
LEMMA NcclDeliverStep == ASSUME Moving, NEW r \in Workers, NcclDeliver(r) PROVE Moving'
<1> DEFINE b == Head(inbox[r])
           o == Other(rx[r].idx)
           x == [rx[r] EXCEPT !.fly = "done", !.coming = b]
<1>1. /\ Shape /\ Written /\ Local(r) /\ Links(r) /\ Broadcasts /\ rx[r].fly = "running"
      /\ r \in unread /\ inbox[r] # << >>
      /\ inbox' = [inbox EXCEPT ![r] = Tail(@)] /\ buf' = [buf EXCEPT ![r][o] = buf[0][b.src]]
      /\ rx' = [rx EXCEPT ![r] = x] /\ unread' = unread \ {r}
      /\ UNCHANGED <<engine, stage, version, tx, joined, ipc, loaded>>
  BY DEF Moving, NcclDeliver
<1>2. NcclLink(r)
  BY <1>1 DEF Links
<1>3. /\ b = inbox[r][1] /\ b \in Buckets /\ Tail(inbox[r]) \in Seq(Buckets)
      /\ Tail(inbox[r]) = << >>
  <2>1. inbox[r] \in Seq(Buckets) /\ Len(inbox[r]) = 1
    BY <1>1, <1>2, QueueTypes DEF NcclLink
  <2> QED
    BY <2>1, OnlyOne
<1>4. Takes(r, 0, b)
  BY <1>1, <1>2, <1>3 DEF NcclLink
<1> HIDE DEF b
<1>5. /\ b.src \in {0, 1} /\ o \in {0, 1} /\ o # Hand(rx[r].idx) /\ rx[r].idx \in Nat
      /\ r \in Ranks /\ 0 \in Ranks /\ r # 0
  BY <1>1, <1>3, BucketTypes, RxTypes, Halving, RankTypes
<1> HIDE DEF o
<1>6. /\ BufShape' /\ Written' /\ buf'[r][o] = buf[0][b.src]
      /\ \A q \in Ranks, i \in {0, 1} : q # r \/ i # o => buf'[q][i] = buf[q][i]
      /\ \A q \in Ranks \ {r} : buf'[q] = buf[q]
  <2>1. Put(r, o, buf[0][b.src]) /\ UNCHANGED version
    BY <1>1 DEF Put
  <2>2. buf[0][b.src] \in [0 .. BucketSize - 1 -> Cell] /\ Known(buf[0][b.src])
    BY <1>1, <1>5, HalfTypes, KnownHalf
  <2> QED
    BY <2>1, <2>2, <1>1, <1>5, PutHalf, PutWritten
<1>7. rx[r] \in RxRecord
  BY <1>1 DEF Shape, RxShape, RxRecord
<1>8. /\ x \in RxRecord /\ x.at = rx[r].at /\ x.fly = "done" /\ x.idx = rx[r].idx
      /\ x.out = rx[r].out /\ x.last = rx[r].last /\ x.coming = b
  BY <1>3, <1>7 DEF RxRecord
<1>9. RxShape' /\ rx'[r] = x /\ \A q \in Workers \ {r} : rx'[q] = rx[q]
  <2> HIDE DEF x
  <2> QED
    BY <1>1, <1>8, RxNext
<1> HIDE DEF x
<1>10. /\ inbox' \in [Workers -> Seq(Buckets)] /\ inbox'[r] = << >>
       /\ \A q \in Workers \ {r} : inbox'[q] = inbox[q]
  BY <1>1, <1>3 DEF Shape
<1>11. Shape'
  BY <1>1, <1>6, <1>9, <1>10 DEF Shape, TxShape, IpcShape
<1>12. Passed(r)' = Passed(r) /\ Pos(r)' = Pos(r)
  BY <1>1, <1>8, <1>9 DEF Passed, Pos
<1>13. Local(r)'
  <2>1. ConsumerOK(r)'
    BY <1>1, SameVersion DEF Local, ConsumerOK
  <2>2. OutOK(r)'
    <3>1. buf'[r][Hand(rx'[r].idx)] = buf[r][Hand(rx[r].idx)]
      <4>1. Hand(rx[r].idx) \in {0, 1}
        BY <1>5, Halving
      <4> QED
        BY <4>1, <1>5, <1>6, <1>8, <1>9
    <3> QED
      BY <3>1, <1>1, <1>8, <1>9, <1>12, SameVersion DEF Local, OutOK
  <2>3. EndOK(r)'
    <3>1. ~Nixl
      BY <1>1 DEF Broadcasts, Nixl
    <3> QED
      BY <3>1, <1>1, <1>8, <1>9, <1>12, SameVersion DEF Local, EndOK
  <2> QED
    BY <2>1, <2>2, <2>3 DEF Local
<1>14. Links(r)'
  <2>1. Got(r) = Pos(r) /\ Pos(r) \in Nat
    <3>1. Pos(r) \in Nat
      BY <1>1, CountTypes
    <3> QED
      BY <3>1, <1>1 DEF Got
  <2>2. Offered(b, buf[0][b.src]) /\ Start(b) = Pos(r) + 1 /\ End(b) = Given(0)
    BY <1>4, <2>1 DEF Takes
  <2>3. End(b) = Start(b) - 1 + Len(b.out) /\ Len(b.out) \in Nat
    BY <1>3, <2>2, BucketRange DEF Offered
  <2>4. Landed(r)'
    <3>1. Offered(b, buf'[r][Other(rx'[r].idx)])
      BY <2>2, <1>6, <1>8, <1>9 DEF o
    <3> QED
      BY <3>1, <2>2, <1>8, <1>9, <1>12, <1>1, SameOffers DEF Landed
  <2>5. Got(r)' = Given(0)'
    <3>1. Given(0)' = Given(0)
      BY <1>1, TxSame
    <3>2. Got(r)' = Pos(r) + Len(b.out)
      BY <1>8, <1>9, <1>12 DEF Got
    <3>3. Pos(r) + Len(b.out) = End(b)
      BY <2>1, <2>2, <2>3
    <3> QED
      BY <3>1, <3>2, <3>3, <2>2
  <2>6. NcclLink(r)'
    BY <2>4, <2>5, <1>10 DEF NcclLink
  <2> QED
    BY <2>6, <1>1 DEF Links, Broadcasts, Nixl, Mooncake
<1>15. \A q \in Workers \ {r} : buf'[q] = buf[q] /\ (q \in unread' <=> q \in unread)
  BY <1>1, <1>6, RankTypes
<1>16. buf'[0] = buf[0]
  BY <1>5, <1>6
<1> QED
  BY <1>1, <1>6, <1>9, <1>10, <1>11, <1>13, <1>14, <1>15, <1>16, NcclMoves

\* The receiver of a broadcast takes the next bucket in hand.
LEMMA NcclSwapStep == ASSUME Moving, NEW r \in Workers, NcclSwap(r) PROVE Moving'
<1> DEFINE b == rx[r].coming
           f == IF b.last THEN "none" ELSE "running"
           x == [rx[r] EXCEPT !.at = "yield", !.idx = @ + 1, !.out = b.out, !.last = b.last,
                              !.fly = f]
<1>1. /\ Shape /\ Written /\ Local(r) /\ Links(r) /\ Broadcasts /\ ~Nixl /\ rx[r].fly = "done"
      /\ rx[r].at = "recv" \/ (rx[r].at = "yield" /\ rx[r].out = << >>)
      /\ rx' = [rx EXCEPT ![r] = x]
      /\ UNCHANGED <<engine, stage, version, buf, tx, inbox, unread, joined, ipc, loaded>>
  BY DEF Moving, NcclSwap, Exhausted, Broadcasts, Nixl
<1>2. rx[r].out = << >>
  BY <1>1 DEF Local, EndOK
<1>3. /\ NcclLink(r) /\ Offered(b, buf[r][Other(rx[r].idx)]) /\ Start(b) = Pos(r) + 1
  BY <1>1 DEF Links, NcclLink, Landed
<1>4. rx[r] \in RxRecord /\ b \in Buckets /\ rx[r].idx \in Nat
  BY <1>1, RxTypes DEF Shape, RxShape, RxRecord
<1>5. /\ x \in RxRecord /\ x.at = "yield" /\ x.fly = f /\ x.idx = rx[r].idx + 1
      /\ x.out = b.out /\ x.last = b.last /\ x.coming = b
  <2>1. f \in {"none", "running", "done"} /\ b.out \in Seq(Places) /\ b.last \in BOOLEAN
    BY <1>4, BucketTypes
  <2>2. rx[r].idx + 1 \in Nat
    BY <1>4
  <2> HIDE DEF b, f
  <2>3. "yield" \in RxAt
    BY DEF RxAt
  <2> QED
    BY <1>4, <2>1, <2>2, <2>3 DEF RxRecord, b
<1>6. RxShape' /\ rx'[r] = x /\ \A q \in Workers \ {r} : rx'[q] = rx[q]
  <2> HIDE DEF x
  <2> QED
    BY <1>1, <1>5, RxNext
<1> HIDE DEF x
<1>7. Shape'
  BY <1>1, <1>6 DEF Shape, TxShape, IpcShape, BufShape
<1>8. Local(r)' /\ Pos(r)' = Pos(r) + Len(b.out) /\ Pos(r)' = End(b)
  <2>1. Hand(rx'[r].idx) = Other(rx[r].idx)
    BY <1>4, <1>5, <1>6, Halving
  <2>2. Offered(b, buf'[r][Hand(rx'[r].idx)])
    BY <2>1, <1>1, <1>3
  <2> HIDE DEF b
  <2> QED
    BY <2>2, <1>1, <1>2, <1>3, <1>4, <1>5, <1>6, TakeBucket
<1>9. Got(r)' = Got(r) /\ rx'[r].fly # "done"
  <2>1. rx'[r].fly # "done"
    BY <1>5, <1>6
  <2>2. Got(r) = Pos(r) + Len(b.out) /\ Got(r)' = Pos(r)' + 0
    BY <2>1, <1>1 DEF Got
  <2>3. Pos(r) \in Nat /\ Len(b.out) \in Nat
    BY <1>1, <1>4, CountTypes, BucketTypes
  <2>4. Pos(r) + Len(b.out) + 0 = Pos(r) + Len(b.out)
    BY <2>3
  <2> QED
    BY <2>1, <2>2, <2>4, <1>8
<1>10. Links(r)'
  <2>1. Landed(r)'
    BY <1>9 DEF Landed
  <2>2. Given(0)' = Given(0) /\ Half(0)' = Half(0)
    BY <1>1, TxSame
  <2>3. Takes(r, 0, inbox[r][1]) => Takes(r, 0, inbox[r][1])'
    BY <1>1, <1>9, <2>2, SameOffers DEF Takes
  <2>4. NcclLink(r)'
    BY <1>1, <1>3, <1>9, <2>1, <2>2, <2>3 DEF NcclLink
  <2> QED
    BY <2>4, <1>1 DEF Links, Broadcasts, Nixl, Mooncake
<1> QED
  BY <1>1, <1>6, <1>7, <1>8, <1>10, NcclMoves, WrittenFrame

\* The receiver of the broadcasts ends.
LEMMA NcclReceivedStep == ASSUME Moving, NEW r \in Workers, NcclReceived(r) PROVE Moving'
<1>1. ~Mooncake
  BY DEF NcclReceived, Broadcasts, Mooncake
<1> QED
  BY <1>1, ReceivedStep DEF NcclReceived

\* A subscription takes effect.
LEMMA SubscribeStep == ASSUME Moving, NEW r \in Workers, Subscribe(r) PROVE Moving'
<1>1. /\ Shape /\ joined' = joined \cup {r}
      /\ UNCHANGED <<engine, stage, version, buf, tx, rx, inbox, unread, ipc, loaded>>
  BY DEF Moving, Subscribe
<1>2. Shape'
  BY <1>1 DEF Shape, TxShape, RxShape, IpcShape, BufShape
<1>3. Pos(r)' = Pos(r)
  BY <1>1, RankSame
<1>4. Local(r)'
  BY <1>1, LocalFrame DEF Moving
<1> QED
  BY <1>1, <1>2, <1>3, <1>4, ConsumerMoves

-----------------------------------------------------------------------------
(* The sender, in each engine.                                             *)

\* The types of rank 0's generator.
LEMMA TxTypes ==
    ASSUME Shape
    PROVE  /\ tx.at \in {"off", "fill", "wait", "await", "done"} /\ tx.idx \in Nat
           /\ tx.next \in Nat /\ tx.offset \in Nat /\ tx.meta \in Seq(Places)
           /\ Len(tx.meta) \in Nat
<1>1. tx.meta \in Seq(Places)
  BY DEF Shape, TxShape
<1> QED
  BY <1>1 DEF Shape, TxShape

\* Where the tensor behind tensor k goes.
LEMMA NextOffset ==
    ASSUME NEW k \in Tensors, k + 1 \in Tensors
    PROVE  OffsetOf[k + 1] = IF OffsetOf[k] + Sizes[k] + Sizes[k + 1] > BucketSize THEN 0
                             ELSE OffsetOf[k] + Sizes[k]
<1>2. OffsetOf[k + 1] = Greedy(OffsetOf, k + 1)
  BY OffsetUnfolds
<1>3. Greedy(OffsetOf, k + 1) = Behind(OffsetOf[k], Sizes[k], Sizes[k + 1])
  <2> DEFINE j == k + 1
  <2>1. j # 1 /\ j - 1 = k
    BY Sizing
  <2> HIDE DEF j
  <2>2. Greedy(OffsetOf, j) = Behind(OffsetOf[k], Sizes[k], Sizes[j])
    BY <2>1 DEF Greedy
  <2> QED
    BY <2>2 DEF j
<1> QED
  BY <1>2, <1>3 DEF Behind

\* The first tensor is at the beginning of a half.
LEMMA FirstOffset == 1 \in Tensors /\ OffsetOf[1] = 0
<1>1. 1 \in Tensors
  BY Sizing
<1> QED
  BY <1>1, OffsetUnfolds DEF Greedy

\* A number of a range and its index in it.
LEMMA Indexed ==
    ASSUME NEW a \in Nat, NEW m \in Nat, NEW k \in a + 1 .. a + m
    PROVE  k - a \in 1 .. m /\ a + (k - a) = k
  OBVIOUS

\* The bucket rank 0 has packed.
LEMMA Packed ==
    ASSUME Shape, TxOK, tx.at = "fill", tx.meta # << >>, NEW l \in BOOLEAN,
           l => tx.next = N + 1, NEW b, b = Bucket(l)
    PROVE  /\ b \in Buckets /\ Offered(b, buf[0][Hand(tx.idx)]) /\ b.src = Hand(tx.idx)
           /\ Start(b) = tx.next - 1 - Len(tx.meta) + 1 /\ End(b) = tx.next - 1
           /\ tx.next - 1 - Len(tx.meta) \in Nat
<1> DEFINE m == Len(tx.meta)
           a == tx.next - 1 - m
<1>1. /\ b.out = tx.meta /\ b.last = l /\ b.src = Hand(tx.idx)
      /\ b = [out |-> tx.meta, last |-> l, src |-> Hand(tx.idx)]
  BY DEF Bucket
<1>2. /\ tx.meta \in Seq(Places) /\ m \in Nat /\ m > 0 /\ 1 \in 1 .. m /\ tx.next \in Nat
      /\ tx.idx \in Nat
  BY TxTypes, NotEmpty
<1>3. b \in Buckets
  <2>1. Hand(tx.idx) \in {0, 1}
    BY <1>2, Halving
  <2> QED
    BY <2>1, <1>1, <1>2 DEF Buckets
<1>4. a \in Nat /\ tx.next <= N + 1 /\ a + m = tx.next - 1
  <2>1. m < tx.next /\ tx.next <= N + 1
    BY DEF TxOK
  <2> HIDE DEF m
  <2> QED
    BY <1>2, <2>1
<1>5. Run(tx.meta, a) /\ OffsetOf[tx.next - m] = 0
  BY DEF TxOK
<1>6. a + 1 = tx.next - m
  <2> HIDE DEF m
  <2> QED
    BY <1>2
<1>7. Start(b) = a + 1
  <2>1. tx.meta[1] = Slot(a + 1)
    BY <1>2, <1>5 DEF Run
  <2> QED
    BY <2>1, <1>1 DEF Start, Slot, At
<1>8. End(b) = tx.next - 1
  <2>1. End(b) = a + 1 + m - 1
    BY <1>1, <1>7 DEF End
  <2> HIDE DEF a, m
  <2> QED
    BY <2>1, <1>2, <1>4
<1>9. Start(b) - 1 = a
  <2> HIDE DEF a
  <2> QED
    BY <1>4, <1>7
<1>10. BucketOK(b)
  <2>1. End(b) <= N /\ (l => End(b) = N)
    <3> HIDE DEF a, m
    <3>1. N \in Nat /\ N + 1 - 1 = N
      BY Sizing
    <3>2. tx.next - 1 <= N
      BY <3>1, <1>2, <1>4
    <3> QED
      BY <3>1, <3>2, <1>8
  <2> QED
    BY <2>1, <1>1, <1>5, <1>6, <1>7, <1>9 DEF BucketOK
<1>11. ASSUME NEW k \in Start(b) .. End(b) PROVE Intact(buf[0][Hand(tx.idx)], k)
  <2> HIDE DEF a, m
  <2>1. k \in a + 1 .. a + m
    BY <1>4, <1>7, <1>8, <1>11
  <2>2. k - a \in 1 .. m /\ a + (k - a) = k
    BY <2>1, <1>2, <1>4, Indexed
  <2>3. \A i \in 1 .. m : Intact(buf[0][Hand(tx.idx)], a + i)
    BY DEF TxOK, a, m
  <2> QED
    BY <2>2, <2>3
<1> QED
  BY <1>1, <1>3, <1>4, <1>7, <1>8, <1>10, <1>11 DEF Offered

\* Rank 0 hands over the bucket it has packed.
HandsOver(b) ==
    /\ b \in Buckets /\ Offered(b, buf[0][b.src]) /\ b.src = Hand(tx.idx) /\ b.src = Half(0)'
    /\ Start(b) = Given(0) + 1 /\ End(b) = Given(0)'
    /\ Sent(0) = tx.idx /\ Sent(0)' = tx.idx + 1 /\ TxShape' /\ TxOK'

\* Rank 0 hands over a full bucket.
LEMMA Flushed ==
    ASSUME Moving, Flushing, NEW a \in {"fill", "wait"}, a = "wait" => Mooncake, NextBucket(a),
           UNCHANGED <<engine, version, buf>>, NEW b, b = Bucket(FALSE)
    PROVE  HandsOver(b) /\ tx'.at = a /\ tx'.idx = tx.idx + 1
<1>1. Shape /\ TxOK /\ tx.at = "fill" /\ tx.next <= N /\ ~Fits
  BY DEF Moving, Flushing, N
<1>2. /\ tx.idx \in Nat /\ tx.next \in Nat /\ tx.offset \in Nat /\ Len(tx.meta) \in Nat
      /\ tx.meta \in Seq(Places)
  BY <1>1, TxTypes
<1>3. tx.next \in Tensors
  BY <1>1, <1>2, Sizing DEF TxOK
<1>4. tx.meta # << >>
  <2> SUFFICES ASSUME tx.meta = << >> PROVE FALSE
    OBVIOUS
  <2>1. tx.offset = 0
    BY <1>1 DEF TxOK
  <2> QED
    BY <2>1, <1>1, <1>3, Sizing DEF Fits
<1>5. /\ b \in Buckets /\ Offered(b, buf[0][Hand(tx.idx)]) /\ b.src = Hand(tx.idx)
      /\ Start(b) = tx.next - 1 - Len(tx.meta) + 1 /\ End(b) = tx.next - 1
      /\ tx.next - 1 - Len(tx.meta) \in Nat
  BY <1>1, <1>4, Packed
<1>6. /\ tx'.at = a /\ tx'.idx = tx.idx + 1 /\ tx'.next = tx.next /\ tx'.offset = 0
      /\ tx'.meta = << >>
  BY <1>1 DEF Shape, TxShape, NextBucket
<1>7. TxShape'
  <2>1. tx.idx + 1 \in Nat /\ 0 \in Nat /\ << >> \in Seq(Places)
    BY <1>2
  <2> QED
    BY <2>1, <1>1 DEF Shape, TxShape, NextBucket
<1>8. OffsetOf[tx.next] = 0
  <2> DEFINE k == tx.next - 1
  <2>1. k + 1 = tx.next /\ tx.offset = OffsetOf[k] + Sizes[k]
    BY <1>1, <1>2, <1>4 DEF TxOK
  <2>2. k \in Tensors
    <3>1. Len(tx.meta) > 0 /\ Len(tx.meta) < tx.next
      BY <1>1, <1>2, <1>4, NotEmpty DEF TxOK
    <3>2. k \in Nat /\ k > 0
      BY <3>1, <1>2
    <3> QED
      BY <3>2, <1>1, <1>2, Sizing
  <2> HIDE DEF k
  <2>3. OffsetOf[k + 1] = IF OffsetOf[k] + Sizes[k] + Sizes[k + 1] > BucketSize THEN 0
                          ELSE OffsetOf[k] + Sizes[k]
    BY <2>1, <2>2, <1>3, NextOffset
  <2>4. ~(tx.offset + Sizes[tx.next] <= BucketSize)
    BY <1>1 DEF Fits
  <2>5. tx.offset + Sizes[tx.next] > BucketSize
    BY <2>4, <1>2, <1>3, Sizing
  <2> QED
    BY <2>1, <2>3, <2>5
<1>9. TxOK'
  <2>1. Len(tx'.meta) = 0
    BY <1>6
  <2>2. 0 < tx.next
    BY <1>3, Sizing
  <2>3. Run(tx.meta, tx.next - 1 - Len(tx.meta))'
    BY <2>1 DEF Run
  <2>4. tx.next <= N + 1
    BY <1>1 DEF TxOK
  <2> QED
    BY <2>1, <2>2, <2>3, <2>4, <1>1, <1>6, <1>8, SameVersion DEF TxOK
<1>10. Given(0) = tx.next - 1 - Len(tx.meta) /\ Sent(0) = tx.idx
  <2>1. Sent(0) = tx.idx + 0
    BY <1>1 DEF Sent
  <2> QED
    BY <2>1, <1>1, <1>2 DEF Given
<1>11. Given(0)' = tx.next - 1 /\ Half(0)' = Hand(tx.idx) /\ Sent(0)' = tx.idx + 1
  <2>1. tx'.at \notin {"await", "done"} /\ Len(tx'.meta) = 0
    BY <1>6
  <2>2. Given(0)' = tx.next - 1 - 0 /\ Half(0)' = Other(tx.idx + 1) /\ Sent(0)' = tx.idx + 1 + 0
    BY <2>1, <1>6 DEF Given, Half, Sent
  <2>3. Other(tx.idx + 1) = Hand(tx.idx)
    BY <1>2, Halving
  <2>4. tx.next - 1 - 0 = tx.next - 1 /\ tx.idx + 1 + 0 = tx.idx + 1
    BY <1>2
  <2> QED
    BY <2>2, <2>3, <2>4
<1> QED
  BY <1>5, <1>6, <1>7, <1>9, <1>10, <1>11 DEF HandsOver

\* Rank 0 hands over the last bucket.
LEMMA LastFlushed ==
    ASSUME Moving, Finishing, LastBucket, UNCHANGED <<engine, version, buf>>,
           NEW b, b = Bucket(TRUE)
    PROVE  HandsOver(b) /\ tx'.at = "await" /\ tx'.idx = tx.idx
<1>1. Shape /\ TxOK /\ tx.at = "fill"
  BY DEF Moving, Finishing
<1>2. /\ tx.idx \in Nat /\ tx.next \in Nat /\ tx.offset \in Nat /\ Len(tx.meta) \in Nat
      /\ tx.meta \in Seq(Places)
  BY <1>1, TxTypes
<1>3. tx.next = N + 1 /\ tx.next - 1 = N
  <2>1. tx.next > N /\ tx.next <= N + 1
    BY <1>1 DEF Finishing, TxOK, N
  <2> QED
    BY <2>1, <1>2, Sizing
<1>4. tx.meta # << >>
  BY <1>1, <1>3, Sizing DEF TxOK
<1>5. /\ b \in Buckets /\ Offered(b, buf[0][Hand(tx.idx)]) /\ b.src = Hand(tx.idx)
      /\ Start(b) = tx.next - 1 - Len(tx.meta) + 1 /\ End(b) = tx.next - 1
      /\ tx.next - 1 - Len(tx.meta) \in Nat
  BY <1>1, <1>3, <1>4, Packed
<1>6. /\ tx'.at = "await" /\ tx'.idx = tx.idx /\ tx'.next = tx.next /\ tx'.offset = tx.offset
      /\ tx'.meta = tx.meta
  BY <1>1 DEF Shape, TxShape, LastBucket
<1>7. TxShape'
  BY <1>1 DEF Shape, TxShape, LastBucket
<1>9. TxOK'
  <2>1. Run(tx.meta, tx.next - 1 - Len(tx.meta))'
    BY <1>1, <1>6 DEF TxOK, Run
  <2> QED
    BY <2>1, <1>1, <1>3, <1>4, <1>6, SameVersion DEF TxOK
<1>10. Given(0) = tx.next - 1 - Len(tx.meta) /\ Sent(0) = tx.idx
  <2>1. Sent(0) = tx.idx + 0
    BY <1>1 DEF Sent
  <2> QED
    BY <2>1, <1>1, <1>2 DEF Given
<1>11. Given(0)' = tx.next - 1 /\ Half(0)' = Hand(tx.idx) /\ Sent(0)' = tx.idx + 1
  BY <1>3, <1>6 DEF Given, Half, Sent
<1> QED
  BY <1>5, <1>6, <1>7, <1>9, <1>10, <1>11 DEF HandsOver

\* A step of rank 0 leaves the workers as they are.
LEMMA SenderMoves ==
    ASSUME Moving, UNCHANGED <<engine, stage, version, buf, rx, joined, ipc, loaded>>,
           TxShape', inbox' \in [Workers -> Seq(Buckets)], unread' \subseteq Workers, TxOK',
           \A q \in Workers : Links(q)'
    PROVE  Moving'
<1>1. Shape'
  BY DEF Moving, Shape, RxShape, IpcShape, BufShape
<1>2. \A q \in Workers : Local(q)'
  BY LocalFrame DEF Moving
<1> QED
  BY <1>1, <1>2, WrittenFrame DEF Moving

\* Append to the empty sequence.
LEMMA AppendEmpty == ASSUME NEW b PROVE Len(Append(<< >>, b)) = 1 /\ Append(<< >>, b)[1] = b
  OBVIOUS

\* A description is published.
LEMMA NcclPublishStep ==
    ASSUME Moving, Broadcasts, unread = {}, NEW b, HandsOver(b), Publish(b),
           UNCHANGED <<engine, stage, version, buf, rx, joined, ipc, loaded>>
    PROVE  Moving'
<1>1. Shape /\ b \in Buckets /\ Offered(b, buf[0][b.src])
  BY DEF Moving, HandsOver
<1>2. inbox' \in [Workers -> Seq(Buckets)] /\ unread' = Workers
  <2>1. \A q \in Workers : Append(inbox[q], b) \in Seq(Buckets) /\ inbox[q] \in Seq(Buckets)
    BY <1>1, QueueTypes
  <2> QED
    BY <2>1 DEF Publish
<1>3. ASSUME NEW q \in Workers PROVE Links(q)'
  <2>1. NcclLink(q) /\ q \notin unread
    BY DEF Moving, Links
  <2>2. inbox[q] = << >> /\ Got(q) = Given(0)
    BY <2>1 DEF NcclLink
  <2>3. inbox'[q] = << >> \/ inbox'[q] = Append(<< >>, b)
    BY <2>2 DEF Publish
  <2>4. Got(q)' = Got(q)
    BY RankSame
  <2>5. Takes(q, 0, b)'
    BY <2>2, <2>4, <1>1, SameOffers DEF Takes, HandsOver
  <2>6. inbox'[q] # << >> => Len(inbox'[q]) = 1 /\ inbox'[q][1] = b
    BY <2>3, AppendEmpty
  <2>7. Takes(q, 0, inbox[q][1])' \/ inbox'[q] = << >>
    BY <2>5, <2>6
  <2>8. Landed(q)'
    BY <2>1, RankSame, SameOffers DEF NcclLink, Landed
  <2>9. NcclLink(q)'
    BY <2>6, <2>7, <2>8, <1>2 DEF NcclLink
  <2> QED
    BY <2>9 DEF Links, Broadcasts, Nixl, Mooncake
<1> QED
  BY <1>2, <1>3, SenderMoves DEF HandsOver

\* Rank 1 reads from rank 0, the others from workers.
LEMMA FirstRank == 1 \in Workers /\ 1 - 1 = 0 /\ \A q \in Workers : q # 1 => q - 1 \in Workers /\ q - 1 # 0
  BY Sizing DEF Workers

\* A bucket is offered to rank 1.
LEMMA NixlOfferStep ==
    ASSUME Moving, Nixl, 1 \notin unread, NEW b, HandsOver(b), Offer(1, b),
           UNCHANGED <<engine, stage, version, buf, rx, joined, ipc, loaded>>
    PROVE  Moving'
<1>1. Shape /\ b \in Buckets /\ Offered(b, buf[0][b.src])
  BY DEF Moving, HandsOver
<1>2. /\ inbox' \in [Workers -> Seq(Buckets)] /\ unread' \subseteq Workers
      /\ inbox'[1] = Append(inbox[1], b) /\ 1 \in unread'
      /\ \A q \in Workers : q # 1 => inbox'[q] = inbox[q] /\ (q \in unread' <=> q \in unread)
  <2>1. Append(inbox[1], b) \in Seq(Buckets)
    BY <1>1, FirstRank, QueueTypes
  <2> QED
    BY <2>1, <1>1, FirstRank DEF Offer, Shape
<1>3. Links(1)'
  <2>1. NixlLink(1)
    BY FirstRank DEF Moving, Links
  <2>2. inbox[1] = << >> /\ Got(1) = Given(0) /\ rx[1].fly # "running"
    BY <2>1, FirstRank DEF NixlLink
  <2>3. Len(inbox'[1]) = 1 /\ inbox'[1][1] = b /\ inbox'[1] # << >>
    BY <2>2, <1>2, AppendEmpty
  <2>4. Got(1)' = Got(1)
    BY FirstRank, RankSame
  <2>5. Takes(1, 0, b)'
    BY <2>2, <2>4, <1>1, SameOffers DEF Takes, HandsOver
  <2>6. Takes(1, 1 - 1, inbox[1][1])'
    BY <2>3, <2>5, FirstRank
  <2>7. Landed(1)'
    BY <2>1, RankSame, FirstRank, SameOffers DEF NixlLink, Landed
  <2>8. NixlLink(1)'
    BY <2>2, <2>3, <2>6, <2>7, <1>2 DEF NixlLink
  <2> QED
    BY <2>8 DEF Links, Broadcasts, Nixl, Mooncake
<1>4. ASSUME NEW q \in Workers, q # 1 PROVE Links(q)'
  <2>1. q - 1 \in Workers
    BY <1>4, FirstRank
  <2>2. Given(q - 1)' = Given(q - 1) /\ Half(q - 1)' = Half(q - 1) /\ Pos(q)' = Pos(q)
    BY <2>1, RankSame
  <2>3. Links(q)
    BY DEF Moving
  <2> QED
    BY <2>2, <2>3, <1>2, <1>4, NixlFrame
<1> QED
  BY <1>2, <1>3, <1>4, SenderMoves DEF HandsOver

\* A rank has read another bucket, or rank 0 has packed one: it is sent to the next rank.
LEMMA ChainAppend ==
    ASSUME Shape, Mooncake, NEW q \in Workers, MooncakeLink(q), UNCHANGED <<engine, version>>,
           NEW b \in Buckets, inbox'[q] = Append(inbox[q], b),
           rx'[q].fly = rx[q].fly, rx'[q].coming = rx[q].coming, rx'[q].idx = rx[q].idx,
           rx'[q].at = rx[q].at, Pos(q)' = Pos(q),
           Sent(q - 1)' = Sent(q - 1) + 1, Sent(q - 1) \in Nat,
           Sent(q - 1)' - rx[q].idx <= (IF q = 1 /\ tx'.at = "fill" THEN 1 ELSE 2),
           b.src = Hand(Sent(q - 1)), NEW h, h = buf'[q - 1][b.src], Offered(b, h),
           Start(b) = Given(q - 1) + 1, End(b) = Given(q - 1)',
           \A i \in 1 .. Len(inbox[q]) :
               buf'[q - 1][inbox[q][i].src] = buf[q - 1][inbox[q][i].src],
           rx[q].at = "yield" => buf'[q - 1][rx[q].coming.src] = buf[q - 1][rx[q].coming.src]
    PROVE  Links(q)'
<1> DEFINE c == inbox[q]
           n == Len(c)
           d == Append(c, b)
<1>1. /\ c \in Seq(Buckets) /\ n \in Nat /\ Len(d) = n + 1 /\ d # << >>
      /\ \A i \in 1 .. n : d[i] = c[i] /\ c[i] \in Buckets
      /\ d[n + 1] = b /\ (n = 0 <=> c = << >>)
  <2>1. c \in Seq(Buckets)
    BY QueueTypes
  <2> HIDE DEF c
  <2>2. n \in Nat /\ (n = 0 <=> c = << >>)
    BY <2>1, NotEmpty
  <2>3. /\ Len(d) = n + 1 /\ d # << >> /\ d[n + 1] = b
        /\ \A i \in 1 .. n : d[i] = c[i] /\ c[i] \in Buckets
    <3>1. d \in Seq(Buckets) /\ Len(d) = n + 1
      BY <2>1, Appending
    <3>2. d[n + 1] = b
      BY <2>1
    <3>3. \A i \in 1 .. n : d[i] = c[i] /\ c[i] \in Buckets
      BY <2>1
    <3> HIDE DEF d, n
    <3>4. d # << >>
      BY <3>1, <2>2, NotEmpty
    <3> QED
      BY <3>1, <3>2, <3>3, <3>4
  <2> QED
    BY <2>1, <2>2, <2>3
<1>2. Taken(q) \in Nat /\ Taken(q)' = Taken(q)
  BY RxTypes DEF Taken
<1>3. n = Sent(q - 1) - Taken(q)
  BY DEF MooncakeLink
<1> HIDE DEF c, d, n
<1>4. Taken(q) + (n + 1) - 1 = Sent(q - 1) /\ n + 1 = Sent(q - 1)' - Taken(q)
  BY <1>1, <1>2, <1>3
<1>5. inbox'[q] = d
  BY DEF c, d
<1>6. ASSUME NEW i \in 1 .. n + 1
      PROVE  /\ d[i].src = Hand(Taken(q) + i - 1)
             /\ Offered(d[i], buf'[q - 1][d[i].src])
             /\ i > 1 => Start(d[i]) = End(d[i - 1]) + 1
  <2>1. CASE i \in 1 .. n
    <3>1. d[i] = c[i] /\ (i > 1 => d[i - 1] = c[i - 1])
      BY <2>1, <1>1
    <3>2. /\ c[i].src = Hand(Taken(q) + i - 1)
          /\ Offered(c[i], buf[q - 1][c[i].src])
          /\ i > 1 => Start(c[i]) = End(c[i - 1]) + 1
      BY <2>1 DEF MooncakeLink, c, n
    <3>3. buf'[q - 1][c[i].src] = buf[q - 1][c[i].src]
      BY <2>1 DEF c, n
    <3> QED
      BY <3>1, <3>2, <3>3
  <2>2. CASE i = n + 1
    <3>1. d[i] = b
      BY <2>2, <1>1
    <3>2. i > 1 => Start(b) = End(d[i - 1]) + 1
      <4>1. ASSUME i > 1 PROVE i - 1 = n /\ n \in 1 .. n /\ c # << >>
        BY <4>1, <2>2, <1>1
      <4>2. i > 1 => End(c[n]) = Given(q - 1)
        BY <4>1 DEF MooncakeLink, c, n
      <4> QED
        BY <4>1, <4>2, <1>1
    <3>3. d[i].src = Hand(Taken(q) + i - 1)
      BY <3>1, <2>2, <1>4
    <3> QED
      BY <3>1, <3>2, <3>3
  <2> QED
    BY <2>1, <2>2, <1>1
<1>7. Start(d[1]) = Pos(q) + 1
  <2>1. CASE n = 0
    <3>1. c = << >> /\ d[1] = b
      BY <2>1, <1>1
    <3>2. Pos(q) = Given(q - 1)
      BY <3>1 DEF MooncakeLink, c
    <3> QED
      BY <3>1, <3>2
  <2>2. CASE n # 0
    <3>1. c # << >> /\ 1 \in 1 .. n /\ d[1] = c[1]
      BY <2>2, <1>1
    <3> QED
      BY <3>1 DEF MooncakeLink, c
  <2> QED
    BY <2>1, <2>2
<1>8. End(d[n + 1]) = Given(q - 1)'
  BY <1>1
<1>9. MooncakeLink(q)'
  <2>1. \A i \in 1 .. Len(inbox'[q]) :
          /\ inbox'[q][i].src = Hand(Taken(q) + i - 1)
          /\ Offered(inbox[q][i], buf[q - 1][inbox[q][i].src])'
          /\ i > 1 => Start(inbox'[q][i]) = End(inbox'[q][i - 1]) + 1
    BY <1>1, <1>5, <1>6, SameOffers
  <2>2. rx[q].at = "yield" => /\ rx[q].coming.src = Hand(rx[q].idx)
                              /\ ~Marked(buf'[q - 1][rx[q].coming.src])
    BY DEF MooncakeLink
  <2>3. /\ Start(inbox'[q][1]) = Pos(q)' + 1 /\ inbox'[q] # << >>
        /\ End(inbox'[q][Len(inbox'[q])]) = Given(q - 1)' /\ Len(inbox'[q]) = n + 1
    BY <1>1, <1>5, <1>7, <1>8
  <2>4. rx'[q].fly = "none"
    BY DEF MooncakeLink
  <2>5. Len(inbox'[q]) = Sent(q - 1)' - Taken(q)'
    BY <2>3, <1>2, <1>4
  <2> QED
    BY <2>1, <2>2, <2>3, <2>4, <2>5, <1>2 DEF MooncakeLink
<1> QED
  BY <1>9 DEF Links, Broadcasts, Nixl, Mooncake

\* Buckets sent and read are numbers.
LEMMA SentTypes ==
    ASSUME Shape, NEW s \in Ranks
    PROVE  Sent(s) \in Nat /\ (s \in Workers => Taken(s) \in Nat)
<1>1. s = 0 \/ s \in Workers
  BY RankTypes
<1>2. tx.idx \in Nat
  BY TxTypes
<1>3. ASSUME s \in Workers PROVE rx[s].idx \in Nat /\ s > 0
  BY <1>3, RxTypes, RankTypes
<1> QED
  BY <1>1, <1>2, <1>3 DEF Sent, Taken

\* Arithmetic of how far apart two ranks are.
LEMMA Apart ==
    ASSUME NEW a \in Nat, NEW i \in Nat, NEW t \in Nat, NEW n \in Nat,
           t = i \/ t = i + 1, n = a - t
    PROVE  /\ a - i \in Nat /\ t + 1 - 1 = t
           /\ a - i = 2 => a = i + 2 /\ (t = i => n = 2)
           /\ a - i <= 1 => (t = i + 1 => a = i + 1) /\ (n = 0 \/ (n = 1 /\ a = t + 1))
  OBVIOUS

\* Consecutive buckets are in different halves.
LEMMA NotSame == ASSUME NEW a, NEW i \in Nat, a = i + 1
                 PROVE  Hand(i) # Hand(a) /\ Hand(i) \in {0, 1}
<1>1. Hand(a) = Other(i)
  BY Halving
<1> QED
  BY <1>1, Halving

\* The half a rank would use next: when the next rank has marked it, that rank is at most one
\* bucket behind.
LEMMA UsedUp ==
    ASSUME Shape, NEW q \in Workers, MooncakeLink(q), Marked(buf[q - 1][Hand(Sent(q - 1))])
    PROVE  Sent(q - 1) - rx[q].idx <= 1
<1> DEFINE a == Sent(q - 1)
           c == inbox[q]
<1>1. /\ a \in Nat /\ rx[q].idx \in Nat /\ Taken(q) \in Nat /\ c \in Seq(Buckets) /\ Len(c) \in Nat
      /\ rx[q].at = "yield" => Taken(q) = rx[q].idx + 1
      /\ rx[q].at # "yield" => Taken(q) = rx[q].idx
  <2>1. q - 1 \in Ranks /\ q \in Ranks
    BY RankTypes
  <2>2. c \in Seq(Buckets)
    BY QueueTypes
  <2> HIDE DEF c
  <2> QED
    BY <2>1, <2>2, SentTypes, RxTypes, NotEmpty DEF Taken
<1>2. Len(c) = a - Taken(q) /\ a - rx[q].idx <= 2
  BY <1>1 DEF MooncakeLink
<1> HIDE DEF a, c
<1>3. /\ a - rx[q].idx \in Nat
      /\ a - rx[q].idx = 2 => /\ a = rx[q].idx + 2
                              /\ rx[q].at # "yield" => Len(c) = 2 /\ Taken(q) = rx[q].idx
      /\ Taken(q) + 1 - 1 = Taken(q)
  <2> DEFINE i == rx[q].idx
             t == Taken(q)
             n == Len(c)
  <2>1. a \in Nat /\ i \in Nat /\ t \in Nat /\ n \in Nat /\ (t = i \/ t = i + 1) /\ n = a - t
    BY <1>1, <1>2
  <2>2. rx[q].at # "yield" => t = i
    BY <1>1
  <2> HIDE DEF i, t, n
  <2>3. /\ a - i \in Nat /\ t + 1 - 1 = t
        /\ a - i = 2 => a = i + 2 /\ (t = i => n = 2)
    BY <2>1, Apart
  <2> QED
    BY <2>2, <2>3 DEF i, t, n
<1>4. ASSUME a - rx[q].idx = 2 PROVE FALSE
  <2>1. Hand(a) = Hand(rx[q].idx)
    BY <1>1, <1>3, <1>4, Halving
  <2>2. CASE rx[q].at = "yield"
    <3>1. ~Marked(buf[q - 1][rx[q].coming.src]) /\ rx[q].coming.src = Hand(rx[q].idx)
      BY <2>2 DEF MooncakeLink
    <3> QED
      BY <3>1, <2>1 DEF a
  <2>3. CASE rx[q].at # "yield"
    <3>1. Len(c) = 2 /\ Taken(q) = rx[q].idx
      BY <1>3, <1>4, <2>3
    <3>2. 1 \in 1 .. Len(c)
      BY <3>1
    <3>3. c[1].src = Hand(Taken(q) + 1 - 1) /\ Offered(c[1], buf[q - 1][c[1].src])
      BY <3>2 DEF MooncakeLink, c
    <3>4. c[1] \in Buckets
      BY <3>2, <1>1
    <3>5. ~Marked(buf[q - 1][c[1].src])
      BY <3>3, <3>4, Unmarked
    <3> QED
      BY <3>1, <3>3, <3>5, <2>1, <1>3 DEF a
  <2> QED
    BY <2>2, <2>3
<1> QED
  BY <1>1, <1>2, <1>3, <1>4 DEF a

\* Then nothing that rank is still to use lies in it.
LEMMA Elsewhere ==
    ASSUME Shape, NEW q \in Workers, MooncakeLink(q), Sent(q - 1) - rx[q].idx <= 1
    PROVE  /\ \A i \in 1 .. Len(inbox[q]) :
                 inbox[q][i].src # Hand(Sent(q - 1)) /\ inbox[q][i].src \in {0, 1}
           /\ rx[q].at = "yield" => /\ rx[q].coming.src # Hand(Sent(q - 1))
                                    /\ rx[q].coming.src \in {0, 1}
<1> DEFINE a == Sent(q - 1)
           c == inbox[q]
<1>1. /\ a \in Nat /\ rx[q].idx \in Nat /\ Taken(q) \in Nat /\ c \in Seq(Buckets) /\ Len(c) \in Nat
      /\ rx[q].at = "yield" => Taken(q) = rx[q].idx + 1
      /\ rx[q].at # "yield" => Taken(q) = rx[q].idx
  <2>1. q - 1 \in Ranks /\ q \in Ranks
    BY RankTypes
  <2>2. c \in Seq(Buckets)
    BY QueueTypes
  <2> HIDE DEF c
  <2> QED
    BY <2>1, <2>2, SentTypes, RxTypes, NotEmpty DEF Taken
<1>2. Len(c) = a - Taken(q) /\ a - rx[q].idx <= 1
  BY <1>1 DEF MooncakeLink
<1> HIDE DEF a, c
<1>3. /\ rx[q].at = "yield" => a = rx[q].idx + 1
      /\ Len(c) = 0 \/ (Len(c) = 1 /\ a = Taken(q) + 1)
      /\ Taken(q) + 1 - 1 = Taken(q)
  BY <1>1, <1>2, Apart
<1>4. ASSUME NEW i \in 1 .. Len(c) PROVE c[i].src # Hand(a) /\ c[i].src \in {0, 1}
  <2>1. Len(c) = 1 /\ i = 1 /\ a = Taken(q) + 1
    <3>1. Len(c) # 0
      BY <1>1, <1>4
    <3>2. Len(c) = 1 /\ a = Taken(q) + 1
      BY <3>1, <1>3
    <3>3. i \in 1 .. 1
      BY <3>2, <1>4
    <3> QED
      BY <3>2, <3>3
  <2>2. c[1].src = Hand(Taken(q) + 1 - 1)
    BY <2>1 DEF MooncakeLink, c
  <2>3. c[1].src = Hand(Taken(q))
    BY <2>2, <1>3
  <2>4. Hand(Taken(q)) # Hand(a) /\ Hand(Taken(q)) \in {0, 1}
    BY <2>1, <1>1, NotSame
  <2> QED
    BY <2>1, <2>3, <2>4
<1>5. ASSUME rx[q].at = "yield" PROVE rx[q].coming.src # Hand(a) /\ rx[q].coming.src \in {0, 1}
  <2>1. rx[q].coming.src = Hand(rx[q].idx)
    BY <1>5 DEF MooncakeLink
  <2>2. Hand(rx[q].idx) # Hand(a) /\ Hand(rx[q].idx) \in {0, 1}
    BY <1>1, <1>3, <1>5, NotSame
  <2> QED
    BY <2>1, <2>2
<1> QED
  BY <1>4, <1>5 DEF a, c

\* A bucket is described to rank 1.
LEMMA MooncakeSendStep ==
    ASSUME Moving, Mooncake, tx.at = "fill", NEW b, HandsOver(b), SendTo(1, b),
           tx'.at = "fill" => tx.idx = 0,
           UNCHANGED <<engine, stage, version, buf, rx, unread, joined, ipc, loaded>>
    PROVE  Moving'
<1>1. Shape /\ b \in Buckets /\ Offered(b, buf[0][b.src]) /\ unread \subseteq Workers
  BY DEF Moving, HandsOver, Shape
<1>2. /\ inbox' \in [Workers -> Seq(Buckets)]
      /\ inbox'[1] = Append(inbox[1], b)
      /\ \A q \in Workers : q # 1 => inbox'[q] = inbox[q]
  <2>1. Append(inbox[1], b) \in Seq(Buckets)
    BY <1>1, FirstRank, QueueTypes
  <2> QED
    BY <2>1, <1>1, FirstRank DEF SendTo, Shape
<1>3. Links(1)'
  <2>1. MooncakeLink(1)
    BY FirstRank DEF Moving, Links
  <2>2. Pos(1)' = Pos(1)
    BY FirstRank, RankSame
  <2>3. Sent(0) = tx.idx /\ Sent(0)' = tx.idx + 1 /\ tx.idx \in Nat /\ rx[1].idx \in Nat
    BY <1>1, FirstRank, TxTypes, RxTypes DEF HandsOver
  <2>4. Sent(0) - rx[1].idx <= 1
    BY <2>1, FirstRank DEF MooncakeLink
  <2>5. Sent(0)' - rx[1].idx <= (IF 1 = 1 /\ tx'.at = "fill" THEN 1 ELSE 2)
    BY <2>3, <2>4
  <2>6. b.src = Hand(Sent(0)) /\ Start(b) = Given(0) + 1 /\ End(b) = Given(0)'
    BY <2>3 DEF HandsOver
  <2>7. /\ Sent(1 - 1)' = Sent(1 - 1) + 1 /\ Sent(1 - 1) \in Nat
        /\ Sent(1 - 1)' - rx[1].idx <= (IF 1 = 1 /\ tx'.at = "fill" THEN 1 ELSE 2)
        /\ b.src = Hand(Sent(1 - 1)) /\ Start(b) = Given(1 - 1) + 1 /\ End(b) = Given(1 - 1)'
        /\ Offered(b, buf'[1 - 1][b.src])
    BY <2>3, <2>5, <2>6, <1>1, FirstRank
  <2> QED
    BY <2>1, <2>2, <2>7, <1>1, <1>2, FirstRank, ChainAppend
<1>4. ASSUME NEW q \in Workers, q # 1 PROVE Links(q)'
  <2>1. q - 1 \in Workers
    BY <1>4, FirstRank
  <2>2. Given(q - 1)' = Given(q - 1) /\ Sent(q - 1)' = Sent(q - 1) /\ Pos(q)' = Pos(q)
    BY <2>1, RankSame
  <2>3. Links(q)
    BY DEF Moving
  <2> QED
    BY <2>2, <2>3, <1>2, <1>4, MooncakeFrame
<1> QED
  BY <1>1, <1>2, <1>3, <1>4, SenderMoves DEF HandsOver

\* Rank 0 sends a full bucket, in each engine, and the last one.
LEMMA MooncakeFlushStep == ASSUME Moving, MooncakeFlush PROVE Moving'
<1> DEFINE b == Bucket(FALSE)
           a == IF tx.idx = 0 THEN "fill" ELSE "wait"
<1>1. /\ Mooncake /\ Flushing /\ SendTo(1, b) /\ NextBucket(a) /\ tx.at = "fill"
      /\ UNCHANGED <<engine, stage, version, buf, rx, unread, joined, ipc, loaded>>
  BY DEF MooncakeFlush, Flushing
<1>2. a \in {"fill", "wait"} /\ (a = "fill" => tx.idx = 0)
  OBVIOUS
<1> HIDE DEF a, b
<1>3. HandsOver(b) /\ tx'.at = a
  BY <1>1, <1>2, Flushed DEF b
<1> QED
  BY <1>1, <1>2, <1>3, MooncakeSendStep

LEMMA MooncakeLastStep == ASSUME Moving, MooncakeLast PROVE Moving'
<1> DEFINE b == Bucket(TRUE)
<1>1. /\ Mooncake /\ Finishing /\ SendTo(1, b) /\ LastBucket /\ tx.at = "fill"
      /\ UNCHANGED <<engine, stage, version, buf, rx, unread, joined, ipc, loaded>>
  BY DEF MooncakeLast, Finishing
<1> HIDE DEF b
<1>2. HandsOver(b) /\ tx'.at = "await"
  BY <1>1, LastFlushed DEF b
<1> QED
  BY <1>1, <1>2, MooncakeSendStep

LEMMA NcclFlushStep == ASSUME Moving, NcclFlush PROVE Moving'
<1> DEFINE b == Bucket(FALSE)
<1>1. /\ Broadcasts /\ Flushing /\ unread = {} /\ Publish(b) /\ NextBucket("fill")
      /\ UNCHANGED <<engine, stage, version, buf, rx, joined, ipc, loaded>>
  BY DEF NcclFlush
<1> HIDE DEF b
<1>2. HandsOver(b)
  BY <1>1, Flushed DEF b
<1> QED
  BY <1>1, <1>2, NcclPublishStep

LEMMA NcclLastStep == ASSUME Moving, NcclLast PROVE Moving'
<1> DEFINE b == Bucket(TRUE)
<1>1. /\ Broadcasts /\ Finishing /\ unread = {} /\ Publish(b) /\ LastBucket
      /\ UNCHANGED <<engine, stage, version, buf, rx, joined, ipc, loaded>>
  BY DEF NcclLast
<1> HIDE DEF b
<1>2. HandsOver(b)
  BY <1>1, LastFlushed DEF b
<1> QED
  BY <1>1, <1>2, NcclPublishStep

LEMMA NixlFlushStep == ASSUME Moving, NixlFlush PROVE Moving'
<1> DEFINE b == Bucket(FALSE)
<1>1. /\ Nixl /\ Flushing /\ 1 \notin unread /\ Offer(1, b) /\ NextBucket("fill")
      /\ UNCHANGED <<engine, stage, version, buf, rx, joined, ipc, loaded>>
  BY DEF NixlFlush
<1> HIDE DEF b
<1>2. HandsOver(b)
  BY <1>1, Flushed DEF b
<1> QED
  BY <1>1, <1>2, NixlOfferStep

LEMMA NixlLastStep == ASSUME Moving, NixlLast PROVE Moving'
<1> DEFINE b == Bucket(TRUE)
<1>1. /\ Nixl /\ Finishing /\ 1 \notin unread /\ Offer(1, b) /\ LastBucket
      /\ UNCHANGED <<engine, stage, version, buf, rx, joined, ipc, loaded>>
  BY DEF NixlLast
<1> HIDE DEF b
<1>2. HandsOver(b)
  BY <1>1, LastFlushed DEF b
<1> QED
  BY <1>1, <1>2, NixlOfferStep

\* A step of rank 0 that hands nothing over.
LEMMA TxMoves ==
    ASSUME Moving, UNCHANGED <<engine, stage, version, buf, rx, inbox, unread, joined, ipc, loaded>>,
           TxShape', TxOK', Given(0)' = Given(0), Half(0)' = Half(0), Sent(0)' = Sent(0),
           Mooncake => (tx'.at = "fill" <=> tx.at = "fill")
    PROVE  Moving'
<1>1. ASSUME NEW q \in Workers PROVE Links(q)'
  <2>1. Given(q - 1)' = Given(q - 1) /\ Half(q - 1)' = Half(q - 1) /\ Sent(q - 1)' = Sent(q - 1)
    <3>1. CASE q = 1
      BY <3>1, FirstRank
    <3>2. CASE q # 1
      <4>1. q - 1 \in Workers
        BY <3>2, FirstRank
      <4> QED
        BY <4>1, RankSame
    <3> QED
      BY <3>1, <3>2
  <2>2. Pos(q)' = Pos(q)
    BY RankSame
  <2>3. Links(q)
    BY DEF Moving
  <2> QED
    BY <2>1, <2>2, <2>3, LinksFrame
<1>2. inbox' \in [Workers -> Seq(Buckets)] /\ unread' \subseteq Workers
  BY DEF Moving, Shape
<1> QED
  BY <1>1, <1>2, SenderMoves

\* Rank 0 is told that its last bucket has been taken.
LEMMA SenderDoneStep ==
    ASSUME Moving, SenderDone,
           UNCHANGED <<engine, stage, version, buf, rx, inbox, unread, joined, ipc, loaded>>
    PROVE  Moving'
<1>1. Shape /\ TxOK /\ tx.at = "await"
  BY DEF Moving, SenderDone
<1>2. /\ tx'.at = "done" /\ tx'.idx = tx.idx /\ tx'.next = tx.next /\ tx'.offset = tx.offset
      /\ tx'.meta = tx.meta
  BY <1>1 DEF Shape, TxShape, SenderDone
<1>3. TxShape'
  BY <1>1 DEF Shape, TxShape, SenderDone
<1>4. TxOK'
  <2>1. Run(tx.meta, tx.next - 1 - Len(tx.meta))'
    BY <1>1, <1>2 DEF TxOK, Run
  <2> QED
    BY <2>1, <1>1, <1>2, SameVersion DEF TxOK
<1>5. Given(0)' = Given(0) /\ Half(0)' = Half(0) /\ Sent(0)' = Sent(0)
  BY <1>1, <1>2 DEF Given, Half, Sent
<1> QED
  BY <1>1, <1>2, <1>3, <1>4, <1>5, TxMoves

\* Rank 0 finds the marker in the half it is to fill.
LEMMA MooncakeFreeStep == ASSUME Moving, MooncakeFree PROVE Moving'
<1>1. /\ Shape /\ TxOK /\ tx.at = "wait" /\ Mooncake /\ Marked(buf[0][Hand(tx.idx)])
      /\ UNCHANGED <<engine, stage, version, buf, rx, inbox, unread, joined, ipc, loaded>>
  BY DEF Moving, MooncakeFree
<1>2. /\ tx'.at = "fill" /\ tx'.idx = tx.idx /\ tx'.next = tx.next /\ tx'.offset = tx.offset
      /\ tx'.meta = tx.meta /\ tx.meta = << >> /\ tx.idx \in Nat /\ Len(tx.meta) = 0
  BY <1>1, TxTypes DEF Shape, TxShape, MooncakeFree, TxOK
<1>3. TxShape'
  BY <1>1 DEF Shape, TxShape, MooncakeFree
<1>4. TxOK'
  <2>1. Run(tx.meta, tx.next - 1 - Len(tx.meta))'
    BY <1>2 DEF Run
  <2> QED
    BY <2>1, <1>1, <1>2, SameVersion DEF TxOK
<1>5. Given(0)' = Given(0) /\ Sent(0)' = Sent(0) /\ Sent(0) = tx.idx
  <2>1. Given(0)' = Given(0) /\ Sent(0)' = Sent(0)
    BY <1>1, <1>2 DEF Given, Sent
  <2>2. Sent(0) = tx.idx + 0
    BY <1>1 DEF Sent
  <2> QED
    BY <2>1, <2>2, <1>2
<1>6. ASSUME NEW q \in Workers, q # 1 PROVE Links(q)'
  <2>1. q - 1 \in Workers
    BY <1>6, FirstRank
  <2>2. Given(q - 1)' = Given(q - 1) /\ Sent(q - 1)' = Sent(q - 1) /\ Pos(q)' = Pos(q)
    BY <1>1, <2>1, RankSame
  <2>3. Links(q)
    BY DEF Moving
  <2> QED
    BY <2>2, <2>3, <1>1, <1>6, MooncakeFrame
<1>7. Links(1)'
  <2>1. MooncakeLink(1)
    BY <1>1, FirstRank DEF Moving, Links
  <2>2. Sent(1 - 1) - rx[1].idx <= 1
    <3>1. Marked(buf[1 - 1][Hand(Sent(1 - 1))])
      BY <1>1, <1>5, FirstRank
    <3> QED
      BY <3>1, <2>1, <1>1, FirstRank, UsedUp
  <2>3. Pos(1)' = Pos(1) /\ Taken(1)' = Taken(1)
    BY <1>1, FirstRank, RankSame
  <2>4. Sent(1 - 1)' = Sent(1 - 1) /\ Given(1 - 1)' = Given(1 - 1)
    BY <1>5, FirstRank
  <2>5. MooncakeLink(1)'
    BY <2>1, <2>2, <2>3, <2>4, <1>1, SameOffers DEF MooncakeLink
  <2> QED
    BY <2>5, <1>1 DEF Links, Broadcasts, Nixl, Mooncake
<1>8. inbox' \in [Workers -> Seq(Buckets)] /\ unread' \subseteq Workers
  BY <1>1 DEF Shape
<1> QED
  BY <1>1, <1>3, <1>4, <1>6, <1>7, <1>8, SenderMoves

\* Where the next tensor is copied to is where greedy packing puts it.
LEMMA NextPlace ==
    ASSUME Shape, TxOK, tx.next \in Tensors, Fits
    PROVE  tx.offset = OffsetOf[tx.next]
<1>1. tx.next \in Nat /\ tx.offset \in Nat /\ tx.meta \in Seq(Places) /\ Len(tx.meta) \in Nat
  BY TxTypes
<1>2. CASE tx.meta = << >>
  BY <1>2 DEF TxOK
<1>3. CASE tx.meta # << >>
  <2> DEFINE k == tx.next - 1
  <2>1. k + 1 = tx.next /\ tx.offset = OffsetOf[k] + Sizes[k]
    BY <1>1, <1>3 DEF TxOK
  <2>2. k \in Tensors
    <3>1. Len(tx.meta) > 0 /\ Len(tx.meta) < tx.next
      BY <1>1, <1>3, NotEmpty DEF TxOK
    <3>2. k \in Nat /\ k > 0
      BY <3>1, <1>1
    <3> QED
      BY <3>2, <1>1, Sizing
  <2> HIDE DEF k
  <2>3. OffsetOf[k + 1] = IF OffsetOf[k] + Sizes[k] + Sizes[k + 1] > BucketSize THEN 0
                          ELSE OffsetOf[k] + Sizes[k]
    BY <2>1, <2>2, NextOffset
  <2>4. tx.offset + Sizes[tx.next] <= BucketSize
    BY DEF Fits
  <2>5. ~(tx.offset + Sizes[tx.next] > BucketSize)
    BY <2>4, <1>1, Sizing
  <2> QED
    BY <2>1, <2>3, <2>5
<1> QED
  BY <1>2, <1>3

\* A cell below an offset.
LEMMA Lower == ASSUME NEW a \in Nat, NEW s \in Nat, NEW o \in Nat, a + s <= o, NEW z \in Nat
               PROVE  a + s <= o + z /\ \A c \in a .. a + s - 1 : c < o
  OBVIOUS

\* Arithmetic of one more tensor packed.
LEMMA OneMore ==
    ASSUME NEW n \in Nat, NEW m \in Nat, m < n
    PROVE  /\ n + 1 - 1 - (m + 1) = n - 1 - m /\ n - 1 - m \in Nat /\ m + 1 < n + 1
           /\ n - 1 - m + (m + 1) = n /\ n + 1 - (m + 1) = n - m /\ n + 1 - 1 = n
  OBVIOUS

\* What Fill does to the half in hand.
Filled(c) ==
    /\ c \in [0 .. BucketSize - 1 -> Cell] /\ Known(c) /\ Intact(c, tx.next)
    /\ \A i \in 0 .. BucketSize - 1 : i < tx.offset => c[i] = buf[0][Hand(tx.idx)][i]

\* The tensor packed next goes where greedy packing puts it.
LEMMA FillWrites ==
    ASSUME Moving, Fill
    PROVE  /\ tx.next \in Tensors /\ tx.offset = OffsetOf[tx.next] /\ At(tx.next, tx.offset) = Slot(tx.next)
           /\ \E c : Put(0, Hand(tx.idx), c) /\ Filled(c)
<1> DEFINE h == buf[0][Hand(tx.idx)]
           t == At(tx.next, tx.offset)
           c == Write(h, t, Values(version, tx.next))
<1>1. Shape /\ Written /\ TxOK /\ tx.at = "fill" /\ tx.next <= N /\ Fits
  BY DEF Moving, Fill, N
<1>2. /\ tx.next \in Tensors /\ tx.idx \in Nat /\ tx.offset \in Nat /\ tx.next \in Nat
      /\ Sizes[tx.next] \in Nat /\ version \in Nat
  <2>1. tx.next \in Nat /\ tx.idx \in Nat /\ tx.offset \in Nat
    BY <1>1, TxTypes
  <2>2. Len(tx.meta) \in Nat /\ Len(tx.meta) < tx.next
    BY <1>1, TxTypes DEF TxOK
  <2>3. tx.next \in Tensors
    BY <2>1, <2>2, <1>1, Sizing
  <2> QED
    BY <2>1, <2>3, <1>1, Sizing DEF Shape
<1>3. tx.offset = OffsetOf[tx.next]
  BY <1>1, <1>2, NextPlace
<1>4. /\ t = Slot(tx.next) /\ t \in Places /\ t.w = tx.next /\ t.offset = tx.offset
      /\ t.offset + Sizes[t.w] <= BucketSize
      /\ CellsOf(t) = tx.offset .. tx.offset + Sizes[tx.next] - 1
  <2>1. t = Slot(tx.next)
    BY <1>3 DEF Slot
  <2> QED
    BY <2>1, <1>1, <1>2, <1>3, SlotCells DEF Fits
<1>5. Hand(tx.idx) \in {0, 1} /\ 0 \in Ranks
  BY <1>2, Halving, RankTypes
<1>6. h \in [0 .. BucketSize - 1 -> Cell] /\ Known(h)
  BY <1>1, <1>5, HalfTypes, KnownHalf
<1>7. Put(0, Hand(tx.idx), c)
  BY <1>4 DEF Put, Fill
<1>8. Values(version, tx.next) = [i \in 0 .. Sizes[tx.next] - 1 |-> <<version, tx.next>>]
  BY DEF Values
<1> HIDE DEF t, h
<1>9. Copied(BucketSize, h, t, Values(version, tx.next))
  <2>1. Values(version, tx.next) \in [0 .. Sizes[t.w] - 1 -> Cell]
    BY <1>2, <1>4, <1>8 DEF Cell
  <2>2. BucketSize \in Nat
    BY Sizing
  <2> QED
    BY <2>1, <2>2, <1>4, <1>6, WriteCells
<1>10. /\ c \in [0 .. BucketSize - 1 -> Cell]
       /\ \A i \in CellsOf(t) : i \in 0 .. BucketSize - 1 /\ c[i] = <<version, tx.next>>
       /\ \A i \in (0 .. BucketSize - 1) \ CellsOf(t) : c[i] = h[i]
  <2>1. \A i \in CellsOf(t) :
           /\ i \in 0 .. BucketSize - 1 /\ i - t.offset \in 0 .. Sizes[t.w] - 1
           /\ c[i] = Values(version, tx.next)[i - t.offset]
    BY <1>9 DEF Copied
  <2>2. \A j \in 0 .. Sizes[t.w] - 1 : Values(version, tx.next)[j] = <<version, tx.next>>
    BY <1>4, <1>8
  <2> QED
    BY <2>1, <2>2, <1>9 DEF Copied
<1> HIDE DEF c
<1>11. Known(c)
  <2>1. <<version, tx.next>> \in (0 .. version) \X Tensors
    BY <1>2
  <2>2. ASSUME NEW i \in 0 .. BucketSize - 1
        PROVE  c[i] \in {Zero, Magic} \cup ((0 .. version) \X Tensors)
    <3>1. CASE i \in CellsOf(t)
      BY <3>1, <2>1, <1>10
    <3>2. CASE i \notin CellsOf(t)
      BY <3>2, <1>6, <1>10 DEF Known
    <3> QED
      BY <3>1, <3>2
  <2> QED
    BY <2>2 DEF Known
<1>12. Intact(c, tx.next)
  BY <1>4, <1>10 DEF Intact
<1>13. ASSUME NEW i \in 0 .. BucketSize - 1, i < tx.offset PROVE c[i] = h[i]
  <2>1. i \notin CellsOf(t)
    BY <1>2, <1>4, <1>13
  <2> QED
    BY <2>1, <1>10
<1>14. Filled(c)
  BY <1>10, <1>11, <1>12, <1>13 DEF Filled, h
<1> QED
  BY <1>2, <1>3, <1>4, <1>7, <1>14 DEF t

\* Rank 0's part of the invariant with one more tensor packed.
LEMMA FillPacks ==
    ASSUME Shape, TxOK, tx.at = "fill", tx.next \in Tensors, tx.offset = OffsetOf[tx.next],
           NEW c, Filled(c), buf'[0][Hand(tx.idx)] = c, UNCHANGED <<engine, version>>,
           tx'.at = "fill", tx'.idx = tx.idx, tx'.next = tx.next + 1,
           tx'.offset = tx.offset + Sizes[tx.next], tx'.meta = Append(tx.meta, Slot(tx.next))
    PROVE  TxOK' /\ Given(0)' = Given(0)
<1> DEFINE m == Len(tx.meta)
           a == tx.next - 1 - m
           d == Append(tx.meta, Slot(tx.next))
<1>1. /\ tx.next \in Nat /\ tx.offset \in Nat /\ tx.meta \in Seq(Places) /\ m \in Nat
      /\ Slot(tx.next) \in Places /\ Sizes[tx.next] \in Nat
  BY TxTypes, SlotCells, Sizing
<1>2. /\ Len(d) = m + 1 /\ d # << >>
      /\ \A i \in 1 .. m + 1 : \/ i \in 1 .. m /\ d[i] = tx.meta[i]
                               \/ i = m + 1 /\ d[i] = Slot(tx.next)
  <2>1. d \in Seq(Places) /\ Len(d) = m + 1
    BY <1>1, Appending
  <2>2. d # << >>
    <3> HIDE DEF d, m
    <3> QED
      BY <2>1, <1>1, NotEmpty
  <2> QED
    BY <2>1, <2>2, <1>1, Appending
<1>3. m < tx.next /\ Run(tx.meta, a)
  BY DEF TxOK
<1>4. /\ tx.next + 1 - 1 - (m + 1) = a /\ a \in Nat /\ m + 1 < tx.next + 1
      /\ a + (m + 1) = tx.next /\ tx.next + 1 - (m + 1) = tx.next - m /\ tx.next + 1 - 1 = tx.next
  <2> HIDE DEF m
  <2> QED
    BY <1>1, <1>3, OneMore
<1>5. OffsetOf[tx.next - m] = 0
  <2>1. CASE tx.meta = << >>
    <3>1. m = 0 /\ OffsetOf[tx.next] = 0
      BY <2>1 DEF TxOK
    <3>2. tx.next - 0 = tx.next
      BY <1>1
    <3> QED
      BY <3>1, <3>2
  <2>2. CASE tx.meta # << >>
    BY <2>2 DEF TxOK
  <2> QED
    BY <2>1, <2>2
<1>6. \A i \in 1 .. m : /\ OffsetOf[a + i] + Sizes[a + i] <= tx.offset
                        /\ Intact(buf[0][Hand(tx.idx)], a + i) /\ tx.meta[i] = Slot(a + i)
                        /\ a + i \in Tensors
  <2>1. ASSUME NEW i \in 1 .. m PROVE a + i \in Tensors
    <3>1. tx.meta[i] \in Places /\ tx.meta[i] = Slot(a + i)
      BY <1>1, <1>3 DEF Run
    <3> QED
      BY <3>1 DEF Places, Slot, At
  <2> QED
    BY <2>1, <1>3 DEF TxOK, Run
<1>7. d = Append(tx.meta, Slot(tx.next))
  OBVIOUS
<1>8. m = Len(tx.meta) /\ a = tx.next - 1 - m
  OBVIOUS
<1> HIDE DEF a, d, m
<1>9. ASSUME NEW i \in 1 .. m + 1
      PROVE  /\ d[i] = Slot(a + i)
             /\ OffsetOf[a + i] + Sizes[a + i] <= tx.offset + Sizes[tx.next]
             /\ Intact(c, a + i)
  <2>1. CASE i \in 1 .. m /\ d[i] = tx.meta[i]
    <3> DEFINE k == a + i
    <3>1. /\ d[i] = Slot(k) /\ OffsetOf[k] + Sizes[k] <= tx.offset /\ k \in Tensors
          /\ Intact(buf[0][Hand(tx.idx)], k)
      BY <2>1, <1>6
    <3> HIDE DEF k
    <3>2. OffsetOf[k] \in Nat /\ Sizes[k] \in Nat
      BY <3>1, OffsetFits, Sizing
    <3>3. /\ OffsetOf[k] + Sizes[k] <= tx.offset + Sizes[tx.next]
          /\ \A j \in OffsetOf[k] .. OffsetOf[k] + Sizes[k] - 1 : j < tx.offset
      BY <3>1, <3>2, <1>1, Lower
    <3>4. ASSUME NEW j \in CellsOf(Slot(k)) PROVE c[j] = <<version, k>>
      <4>1. j \in 0 .. BucketSize - 1 /\ j < tx.offset
        BY <3>1, <3>3, <3>4, SlotCells
      <4> QED
        BY <4>1, <3>1, <3>4 DEF Intact, Filled
    <3>5. Intact(c, k)
      BY <3>4 DEF Intact
    <3> QED
      BY <3>1, <3>3, <3>5 DEF k
  <2>2. CASE i = m + 1 /\ d[i] = Slot(tx.next)
    <3>1. a + i = tx.next
      BY <2>2, <1>4
    <3>2. OffsetOf[tx.next] + Sizes[tx.next] <= tx.offset + Sizes[tx.next]
      BY <1>1
    <3> QED
      BY <3>1, <3>2, <2>2 DEF Filled
  <2> QED
    BY <2>1, <2>2, <1>2
<1>13. tx'.meta = d /\ Len(tx'.meta) = m + 1 /\ tx'.next = tx.next + 1
  BY <1>2, <1>7
<1>10. /\ tx'.next - 1 - Len(tx'.meta) = a /\ tx'.next - 1 = tx.next
       /\ tx'.next - Len(tx'.meta) = tx.next - m
  BY <1>4, <1>13
<1>11. TxOK'
  <2>1. Run(tx.meta, tx.next - 1 - Len(tx.meta))'
    BY <1>9, <1>10, <1>13 DEF Run
  <2>2. tx'.next <= N + 1 /\ Len(tx'.meta) < tx'.next
    BY <1>1, <1>4, <1>13, Sizing
  <2>3. ASSUME NEW i \in 1 .. Len(tx'.meta), NEW k, k = tx'.next - 1 - Len(tx'.meta) + i
        PROVE  OffsetOf[k] + Sizes[k] <= tx'.offset /\ Intact(buf[0][Hand(tx.idx)], k)'
    <3>1. k = a + i /\ i \in 1 .. m + 1
      BY <2>3, <1>10, <1>13
    <3>2. OffsetOf[k] + Sizes[k] <= tx'.offset /\ Intact(c, k)
      BY <3>1, <1>9
    <3> QED
      BY <3>2, SameVersion
  <2> QED
    BY <2>1, <2>2, <2>3, <1>2, <1>5, <1>10, <1>13 DEF TxOK
<1>12. Given(0)' = Given(0)
  BY <1>8, <1>10, <1>13 DEF Given
<1> QED
  BY <1>11, <1>12

\* Rank 0 packs a tensor.
LEMMA FillStep == ASSUME Moving, Fill PROVE Moving'
<1> DEFINE k == tx.next
<1>1. /\ Shape /\ Written /\ TxOK /\ tx.at = "fill"
      /\ UNCHANGED <<engine, stage, version, rx, inbox, unread, joined, ipc, loaded>>
  BY DEF Moving, Fill
<1>2. /\ k \in Tensors /\ tx.offset = OffsetOf[k] /\ At(k, tx.offset) = Slot(k)
      /\ tx.idx \in Nat /\ Hand(tx.idx) \in {0, 1} /\ 0 \in Ranks
  BY <1>1, FillWrites, TxTypes, Halving, RankTypes
<1>3. PICK c : Put(0, Hand(tx.idx), c) /\ Filled(c)
  BY FillWrites
<1>4. /\ BufShape' /\ Written' /\ buf'[0][Hand(tx.idx)] = c
      /\ \A i \in {0, 1} : i # Hand(tx.idx) => buf'[0][i] = buf[0][i]
      /\ \A q \in Workers : buf'[q] = buf[q]
  <2>1. c \in [0 .. BucketSize - 1 -> Cell] /\ Known(c)
    BY <1>3 DEF Filled
  <2> QED
    BY <2>1, <1>1, <1>2, <1>3, PutHalf, PutWritten, RankTypes
<1>5. /\ tx'.at = "fill" /\ tx'.idx = tx.idx /\ tx'.next = k + 1
      /\ tx'.offset = tx.offset + Sizes[k] /\ tx'.meta = Append(tx.meta, Slot(k))
  <2>1. Slot(k).w = k
    BY <1>2, SlotCells
  <2>2. tx' = [tx EXCEPT !.next = @ + 1, !.offset = @ + Sizes[k], !.meta = Append(@, Slot(k))]
    BY <1>2, <2>1 DEF Fill
  <2> QED
    BY <2>2, <1>1 DEF Shape, TxShape
<1>6. TxShape'
  <2>1. Slot(k).w = k /\ Slot(k) \in Places /\ Sizes[k] \in Nat
    BY <1>2, SlotCells, Sizing
  <2>2. tx' = [tx EXCEPT !.next = @ + 1, !.offset = @ + Sizes[k], !.meta = Append(@, Slot(k))]
    BY <1>2, <2>1 DEF Fill
  <2>3. k + 1 \in Nat /\ tx.offset + Sizes[k] \in Nat /\ Append(tx.meta, Slot(k)) \in Seq(Places)
    BY <2>1, <1>1, TxTypes, Appending
  <2> QED
    BY <2>2, <2>3, <1>1 DEF Shape, TxShape
<1>7. TxOK' /\ Given(0)' = Given(0)
  BY <1>1, <1>2, <1>3, <1>4, <1>5, FillPacks
<1>8. Half(0) = Other(tx.idx) /\ Half(0)' = Half(0) /\ Sent(0) = tx.idx /\ Sent(0)' = Sent(0)
  <2>1. Sent(0) = tx.idx + 0 /\ Sent(0)' = Sent(0) /\ Half(0) = Other(tx.idx) /\ Half(0)' = Half(0)
    BY <1>1, <1>5 DEF Half, Sent
  <2> QED
    BY <2>1, <1>2
<1>9. buf'[0][Half(0)] = buf[0][Half(0)]
  BY <1>2, <1>4, <1>8, Halving
<1>10. ASSUME NEW q \in Workers PROVE Links(q)'
  <2>1. Links(q) /\ Pos(q)' = Pos(q)
    BY <1>1, RankSame DEF Moving
  <2>2. /\ Given(q - 1)' = Given(q - 1) /\ Half(q - 1)' = Half(q - 1) /\ Sent(q - 1)' = Sent(q - 1)
        /\ buf'[q - 1][Half(q - 1)] = buf[q - 1][Half(q - 1)]
        /\ q # 1 => buf'[q - 1] = buf[q - 1]
    <3>1. CASE q = 1
      BY <3>1, <1>7, <1>8, <1>9, FirstRank
    <3>2. CASE q # 1
      <4>1. q - 1 \in Workers
        BY <3>2, FirstRank
      <4> QED
        BY <4>1, <1>1, <1>4, RankSame
    <3> QED
      BY <3>1, <3>2
  <2>3. CASE Broadcasts
    BY <2>1, <2>3, <1>1, <1>4, <1>7, <1>8, <1>9, NcclFrame
  <2>4. CASE Nixl
    BY <2>1, <2>2, <2>4, <1>1, <1>4, NixlFrame
  <2>5. CASE Mooncake
    <3>1. MooncakeLink(q)
      BY <2>1, <2>5 DEF Links
    <3>2. /\ \A i \in 1 .. Len(inbox[q]) :
                buf'[q - 1][inbox[q][i].src] = buf[q - 1][inbox[q][i].src]
          /\ rx[q].at = "yield" => buf'[q - 1][rx[q].coming.src] = buf[q - 1][rx[q].coming.src]
      <4>1. CASE q = 1
        <5>1. Sent(1 - 1) - rx[1].idx <= 1 /\ Sent(1 - 1) = tx.idx
          BY <3>1, <4>1, <1>1, <1>8, FirstRank DEF MooncakeLink
        <5>2. /\ \A i \in 1 .. Len(inbox[1]) :
                     inbox[1][i].src # Hand(tx.idx) /\ inbox[1][i].src \in {0, 1}
              /\ rx[1].at = "yield" => /\ rx[1].coming.src # Hand(tx.idx)
                                       /\ rx[1].coming.src \in {0, 1}
          BY <5>1, <3>1, <4>1, <1>1, Elsewhere
        <5> QED
          BY <5>2, <4>1, <1>4, FirstRank
      <4>2. CASE q # 1
        BY <4>2, <2>2
      <4> QED
        BY <4>1, <4>2
    <3> QED
      BY <3>2, <2>1, <2>2, <2>5, <1>1, <1>5, MooncakeFrame
  <2> QED
    BY <2>3, <2>4, <2>5, <1>1, EngineKinds DEF Shape
<1>11. ASSUME NEW q \in Workers PROVE Local(q)'
  BY <1>1, <1>4, LocalFrame DEF Moving
<1>12. Shape'
  BY <1>1, <1>4, <1>6 DEF Shape, RxShape, IpcShape
<1> QED
  BY <1>1, <1>4, <1>7, <1>10, <1>11, <1>12 DEF Moving

-----------------------------------------------------------------------------
(* Nixl's chain.                                                           *)

\* A worker's own step in NIXL's chain, seen from the other workers.
LEMMA NixlMoves ==
    ASSUME Moving, NEW r \in Workers, Nixl, UNCHANGED <<engine, stage, version, tx>>,
           \A q \in Workers \ {r} :
               /\ rx'[q] = rx[q] /\ ipc'[q] = ipc[q] /\ loaded'[q] = loaded[q]
               /\ buf'[q] = buf[q],
           \A q \in Workers \ {r, r + 1} :
               inbox'[q] = inbox[q] /\ (q \in unread' <=> q \in unread),
           buf'[0] = buf[0], Shape', Written', Local(r)', Links(r)',
           r + 1 \in Workers => Links(r + 1)'
    PROVE  Moving'
<1>1. \A q \in Workers : Local(q)'
  BY LocalOthers DEF Moving
<1>2. ASSUME NEW q \in Workers \ {r, r + 1} PROVE Links(q)'
  <2>1. /\ Given(q - 1)' = Given(q - 1) /\ Half(q - 1)' = Half(q - 1)
        /\ buf'[q - 1] = buf[q - 1]
    <3>1. CASE q = 1
      BY <3>1, FirstRank, TxSame
    <3>2. CASE q # 1
      <4>1. q - 1 \in Workers \ {r}
        BY <3>2, FirstRank, Sizing DEF Workers
      <4> QED
        BY <4>1, RankSame
    <3> QED
      BY <3>1, <3>2
  <2>2. Links(q) /\ Pos(q)' = Pos(q)
    BY RankSame DEF Moving
  <2> QED
    BY <2>1, <2>2, NixlFrame
<1> QED
  BY <1>1, <1>2, TxFrame DEF Moving

\* The rank after a worker.
LEMMA NextRank == ASSUME NEW r \in Workers
                  PROVE  /\ r + 1 # r /\ r + 1 - 1 = r /\ r \in Nat
                         /\ r + 1 \in Workers <=> r < Receivers
  BY Sizing DEF Workers

\* A rank of the chain ends.
LEMMA NixlReceivedStep == ASSUME Moving, NEW r \in Workers, NixlReceived(r) PROVE Moving'
<1>1. ~Mooncake
  BY DEF NixlReceived, Nixl, Mooncake
<1> QED
  BY <1>1, ReceivedStep DEF NixlReceived

\* A rank begins to read what was offered to it.
LEMMA NixlBeginReadStep == ASSUME Moving, NEW r \in Workers, NixlBeginRead(r) PROVE Moving'
<1> DEFINE b == Head(inbox[r])
           x == [rx[r] EXCEPT !.at = "yield", !.fly = "running", !.coming = b]
<1>1. /\ Shape /\ Written /\ Local(r) /\ Links(r) /\ Nixl /\ rx[r].at = "recv" /\ inbox[r] # << >>
      /\ inbox' = [inbox EXCEPT ![r] = Tail(@)] /\ rx' = [rx EXCEPT ![r] = x]
      /\ UNCHANGED <<engine, stage, version, buf, tx, unread, joined, ipc, loaded>>
  BY DEF Moving, NixlBeginRead
<1>2. NixlLink(r)
  BY <1>1 DEF Links
<1>3. b = inbox[r][1] /\ b \in Buckets /\ Tail(inbox[r]) \in Seq(Buckets) /\ Tail(inbox[r]) = << >>
  <2>1. inbox[r] \in Seq(Buckets) /\ Len(inbox[r]) = 1
    BY <1>1, <1>2, QueueTypes DEF NixlLink
  <2> QED
    BY <2>1, OnlyOne
<1>4. Takes(r, r - 1, b) /\ r \in unread
  BY <1>1, <1>2, <1>3 DEF NixlLink
<1> HIDE DEF b
<1>5. rx[r].fly = "none" /\ ~rx[r].last
  <2>1. rx[r].fly # "none" => rx[r].at = "yield"
    BY <1>1 DEF Local, EndOK
  <2> QED
    BY <2>1, <1>1 DEF Local, EndOK
<1>7. rx[r] \in RxRecord
  BY <1>1 DEF Shape, RxShape, RxRecord
<1>8. /\ x \in RxRecord /\ x.at = "yield" /\ x.fly = "running" /\ x.idx = rx[r].idx
      /\ x.out = rx[r].out /\ x.last = rx[r].last /\ x.coming = b
  BY <1>3, <1>7 DEF RxRecord, RxAt
<1>9. RxShape' /\ rx'[r] = x /\ \A q \in Workers \ {r} : rx'[q] = rx[q]
  <2> HIDE DEF x
  <2> QED
    BY <1>1, <1>8, RxNext
<1> HIDE DEF x
<1>10. /\ inbox' \in [Workers -> Seq(Buckets)] /\ inbox'[r] = << >>
       /\ \A q \in Workers \ {r} : inbox'[q] = inbox[q]
  BY <1>1, <1>3 DEF Shape
<1>11. Shape'
  BY <1>1, <1>9, <1>10 DEF Shape, TxShape, IpcShape, BufShape
<1>12. Passed(r)' = Passed(r) /\ Pos(r)' = Pos(r)
  BY <1>1, <1>8, <1>9 DEF Passed, Pos
<1>13. Local(r)'
  <2>1. ConsumerOK(r)'
    BY <1>1, SameVersion DEF Local, ConsumerOK
  <2>2. OutOK(r)'
    BY <1>1, <1>8, <1>9, <1>12, SameVersion DEF Local, OutOK
  <2>3. EndOK(r)'
    BY <1>1, <1>5, <1>8, <1>9, <1>12, SameVersion DEF Local, EndOK
  <2> QED
    BY <2>1, <2>2, <2>3 DEF Local
<1>14. Given(r - 1)' = Given(r - 1) /\ Half(r - 1)' = Half(r - 1)
  <2>1. CASE r = 1
    BY <2>1, <1>1, FirstRank, TxSame
  <2>2. CASE r # 1
    <3>1. r - 1 \in Workers \ {r}
      BY <2>2, FirstRank, Sizing DEF Workers
    <3> QED
      BY <3>1, <1>1, <1>9, RankSame
  <2> QED
    BY <2>1, <2>2
<1>15. Links(r)'
  <2>1. Got(r)' = Got(r)
    BY <1>5, <1>8, <1>9, <1>12 DEF Got
  <2>2. ASSUME NEW c, Takes(r, r - 1, c) PROVE Takes(r, r - 1, c)'
    BY <2>1, <2>2, <1>1, <1>14, SameOffers DEF Takes
  <2>3. Landed(r)'
    BY <1>8, <1>9 DEF Landed
  <2>4. Takes(r, r - 1, rx[r].coming)'
    BY <2>2, <1>4, <1>8, <1>9
  <2>5. NixlLink(r)'
    BY <2>3, <2>4, <1>1, <1>4, <1>8, <1>9, <1>10 DEF NixlLink
  <2> QED
    BY <2>5, <1>1 DEF Links, Broadcasts, Nixl, Mooncake
<1>16. ASSUME r + 1 \in Workers PROVE Links(r + 1)'
  <2> DEFINE q == r + 1
  <2>1. q \in Workers /\ q # r /\ q - 1 = r
    BY <1>16, NextRank
  <2> HIDE DEF q
  <2>2. Given(r)' = Given(r) /\ Half(r)' = Half(r)
    <3>1. Given(r) = Pos(r) /\ Given(r)' = Pos(r)' /\ Half(r) = Hand(rx[r].idx)
      BY RankTypes DEF Given, Half
    <3>2. Half(r)' = Hand(rx'[r].idx)
      BY RankTypes DEF Half
    <3> QED
      BY <3>1, <3>2, <1>8, <1>9, <1>12
  <2>3. Given(q - 1)' = Given(q - 1) /\ Half(q - 1)' = Half(q - 1) /\ Pos(q)' = Pos(q)
    BY <2>1, <2>2, <1>1, <1>9, RankSame
  <2>4. Links(q) /\ inbox'[q] = inbox[q] /\ rx'[q] = rx[q]
    BY <2>1, <1>9, <1>10 DEF Moving
  <2>5. Links(q)'
    BY <2>1, <2>3, <2>4, <1>1, NixlFrame
  <2> QED
    BY <2>5 DEF q
<1>17. buf'[0] = buf[0]
  BY <1>1
<1> QED
  BY <1>1, <1>9, <1>10, <1>11, <1>13, <1>15, <1>16, <1>17, NixlMoves, WrittenFrame

\* A read completes.
LEMMA NixlReadStep == ASSUME Moving, NEW r \in Workers, NixlRead(r) PROVE Moving'
<1> DEFINE b == rx[r].coming
           o == Other(rx[r].idx)
           c == buf[r - 1][b.src]
           x == [rx[r] EXCEPT !.fly = "done"]
<1>1. /\ Shape /\ Written /\ Local(r) /\ Links(r) /\ Nixl /\ rx[r].fly = "running"
      /\ buf' = [buf EXCEPT ![r][o] = c] /\ unread' = unread \ {r}
      /\ rx' = [rx EXCEPT ![r] = x]
      /\ UNCHANGED <<engine, stage, version, tx, inbox, joined, ipc, loaded>>
  BY DEF Moving, NixlRead
<1>2. NixlLink(r) /\ Takes(r, r - 1, b) /\ inbox[r] = << >>
  BY <1>1 DEF Links, NixlLink
<1>3. /\ b \in Buckets /\ b.src \in {0, 1} /\ rx[r].idx \in Nat /\ o \in {0, 1}
      /\ o # Hand(rx[r].idx) /\ Hand(rx[r].idx) \in {0, 1} /\ r \in Ranks /\ r - 1 \in Ranks
      /\ r # 0
  <2>1. b \in Buckets /\ rx[r].idx \in Nat
    BY <1>1, RxTypes
  <2> QED
    BY <2>1, BucketTypes, Halving, RankTypes
<1> HIDE DEF o
<1>4. Offered(b, c)
  BY <1>2 DEF Takes
<1>5. /\ BufShape' /\ Written' /\ buf'[r][o] = c
      /\ \A i \in {0, 1} : i # o => buf'[r][i] = buf[r][i]
      /\ \A q \in Workers \ {r} : buf'[q] = buf[q]
      /\ buf'[0] = buf[0]
  <2>1. Put(r, o, c) /\ UNCHANGED version
    BY <1>1 DEF Put
  <2>2. c \in [0 .. BucketSize - 1 -> Cell] /\ Known(c)
    BY <1>1, <1>3, HalfTypes, KnownHalf
  <2> HIDE DEF c
  <2> QED
    BY <2>1, <2>2, <1>1, <1>3, PutHalf, PutWritten, RankTypes
<1>7. rx[r] \in RxRecord
  BY <1>1 DEF Shape, RxShape, RxRecord
<1>8. /\ x \in RxRecord /\ x.at = rx[r].at /\ x.fly = "done" /\ x.idx = rx[r].idx
      /\ x.out = rx[r].out /\ x.last = rx[r].last /\ x.coming = b
  BY <1>7 DEF RxRecord
<1>9. RxShape' /\ rx'[r] = x /\ \A q \in Workers \ {r} : rx'[q] = rx[q]
  <2> HIDE DEF x
  <2> QED
    BY <1>1, <1>8, RxNext
<1> HIDE DEF x, c, b
<1>11. Shape'
  BY <1>1, <1>5, <1>9 DEF Shape, TxShape, IpcShape
<1>12. Passed(r)' = Passed(r) /\ Pos(r)' = Pos(r)
  BY <1>1, <1>8, <1>9 DEF Passed, Pos
<1>13. Local(r)'
  <2>1. ConsumerOK(r)'
    BY <1>1, SameVersion DEF Local, ConsumerOK
  <2>2. OutOK(r)'
    <3>1. buf'[r][Hand(rx'[r].idx)] = buf[r][Hand(rx[r].idx)]
      BY <1>3, <1>5, <1>8, <1>9
    <3> QED
      BY <3>1, <1>1, <1>8, <1>9, <1>12, SameVersion DEF Local, OutOK
  <2>3. EndOK(r)'
    BY <1>1, <1>8, <1>9, <1>12, SameVersion DEF Local, EndOK
  <2> QED
    BY <2>1, <2>2, <2>3 DEF Local
<1>14. Given(r - 1)' = Given(r - 1)
  <2>1. CASE r = 1
    BY <2>1, <1>1, FirstRank, TxSame
  <2>2. CASE r # 1
    <3>1. r - 1 \in Workers \ {r}
      BY <2>2, FirstRank, Sizing DEF Workers
    <3> QED
      BY <3>1, <1>1, <1>9, RankSame
  <2> QED
    BY <2>1, <2>2
<1>15. Links(r)'
  <2>1. Pos(r) \in Nat
    BY <1>1, CountTypes
  <2>2. Got(r) = Pos(r)
    BY <2>1, <1>1 DEF Got
  <2>3. Start(b) = Pos(r) + 1 /\ End(b) = Given(r - 1)
    BY <1>2, <2>2 DEF Takes
  <2>4. End(b) = Start(b) - 1 + Len(b.out) /\ Len(b.out) \in Nat
    BY <1>3, <1>4, BucketRange DEF Offered
  <2>5. Landed(r)'
    <3>1. Offered(b, buf'[r][Other(rx'[r].idx)])
      BY <1>4, <1>5, <1>8, <1>9 DEF o
    <3> QED
      BY <3>1, <2>3, <1>8, <1>9, <1>12, <1>1, SameOffers DEF Landed
  <2>6. Got(r)' = Given(r - 1)'
    <3>1. Got(r)' = Pos(r) + Len(b.out)
      BY <1>8, <1>9, <1>12 DEF Got
    <3>2. Pos(r) + Len(b.out) = End(b)
      BY <2>1, <2>3, <2>4
    <3> QED
      BY <3>1, <3>2, <2>3, <1>14
  <2>7. NixlLink(r)'
    BY <2>5, <2>6, <1>1, <1>2, <1>8, <1>9 DEF NixlLink
  <2> QED
    BY <2>7, <1>1 DEF Links, Broadcasts, Nixl, Mooncake
<1>16. ASSUME r + 1 \in Workers PROVE Links(r + 1)'
  <2> DEFINE q == r + 1
  <2>1. q \in Workers /\ q # r /\ q - 1 = r
    BY <1>16, NextRank
  <2> HIDE DEF q
  <2>2. Given(r)' = Given(r) /\ Half(r)' = Half(r) /\ Half(r) = Hand(rx[r].idx)
    <3>1. Given(r) = Pos(r) /\ Given(r)' = Pos(r)' /\ Half(r) = Hand(rx[r].idx)
      BY RankTypes DEF Given, Half
    <3>2. Half(r)' = Hand(rx'[r].idx)
      BY RankTypes DEF Half
    <3> QED
      BY <3>1, <3>2, <1>8, <1>9, <1>12
  <2>3. /\ Given(q - 1)' = Given(q - 1) /\ Half(q - 1)' = Half(q - 1) /\ Pos(q)' = Pos(q)
        /\ buf'[q - 1][Half(q - 1)] = buf[q - 1][Half(q - 1)]
    BY <2>1, <2>2, <1>1, <1>3, <1>5, <1>9, RankSame
  <2>4. Links(q) /\ rx'[q] = rx[q] /\ buf'[q] = buf[q] /\ (q \in unread' <=> q \in unread)
    BY <2>1, <1>1, <1>5, <1>9 DEF Moving
  <2>5. Links(q)'
    BY <2>1, <2>3, <2>4, <1>1, NixlFrame
  <2> QED
    BY <2>5 DEF q
<1> QED
  BY <1>1, <1>5, <1>9, <1>11, <1>13, <1>15, <1>16, NixlMoves

\* A bucket handed on from another half.
LEMMA Resent ==
    ASSUME NEW b \in Buckets, NEW g \in {0, 1}, NEW d, d = [b EXCEPT !.src = g]
    PROVE  /\ d \in Buckets /\ d.src = g /\ Start(d) = Start(b) /\ End(d) = End(b)
           /\ \A h : Offered(b, h) => Offered(d, h)
<1>1. d \in Buckets /\ d.src = g /\ d.out = b.out /\ d.last = b.last
  BY DEF Buckets
<1>2. Start(d) = Start(b) /\ End(d) = End(b)
  BY <1>1 DEF Start, End
<1>3. \A h : Offered(b, h) => Offered(d, h)
  BY <1>1, <1>2 DEF Offered, BucketOK
<1> QED
  BY <1>1, <1>2, <1>3

\* A rank takes the next bucket in hand, and offers it.
LEMMA NixlSwapStep == ASSUME Moving, NEW r \in Workers, NixlSwap(r) PROVE Moving'
<1> DEFINE b == rx[r].coming
           o == Other(rx[r].idx)
           d == [b EXCEPT !.src = o]
           a == IF b.last THEN "yield" ELSE "recv"
           x == [rx[r] EXCEPT !.at = a, !.idx = @ + 1, !.out = b.out, !.last = b.last,
                              !.fly = "none"]
<1>1. /\ Shape /\ Written /\ Local(r) /\ Links(r) /\ Nixl /\ rx[r].fly = "done"
      /\ rx[r].at = "yield" /\ rx[r].out = << >> /\ r + 1 \notin unread
      /\ rx' = [rx EXCEPT ![r] = x]
      /\ IF r + 1 \in Workers THEN Offer(r + 1, d) ELSE UNCHANGED <<inbox, unread>>
      /\ UNCHANGED <<engine, stage, version, buf, tx, joined, ipc, loaded>>
  BY DEF Moving, NixlSwap, NixlForward, Exhausted
<1>3. /\ NixlLink(r) /\ Offered(b, buf[r][o]) /\ Start(b) = Pos(r) + 1
  BY <1>1 DEF Links, NixlLink, Landed
<1>4. /\ rx[r] \in RxRecord /\ b \in Buckets /\ rx[r].idx \in Nat /\ o \in {0, 1}
      /\ Hand(rx[r].idx + 1) = o
  <2>1. rx[r].idx \in Nat /\ rx[r] \in RxRecord /\ b \in Buckets
    BY <1>1, RxTypes DEF Shape, RxShape, RxRecord
  <2> QED
    BY <2>1, Halving
<1>5. /\ x \in RxRecord /\ x.at = a /\ x.fly = "none" /\ x.idx = rx[r].idx + 1
      /\ x.out = b.out /\ x.last = b.last /\ x.coming = b
  <2>1. b.out \in Seq(Places) /\ b.last \in BOOLEAN
    BY <1>4, BucketTypes
  <2>2. rx[r].idx + 1 \in Nat
    BY <1>4
  <2>3. a \in RxAt
    BY DEF RxAt
  <2> HIDE DEF b, a
  <2> QED
    BY <1>4, <2>1, <2>2, <2>3 DEF RxRecord, b
<1>6. RxShape' /\ rx'[r] = x /\ \A q \in Workers \ {r} : rx'[q] = rx[q]
  <2> HIDE DEF x
  <2> QED
    BY <1>1, <1>5, RxNext
<1>7. /\ d \in Buckets /\ d.src = o /\ Offered(d, buf[r][o]) /\ Start(d) = Pos(r) + 1
      /\ End(d) = End(b)
  <2> HIDE DEF b, o
  <2>1. \A h : Offered(b, h) => Offered(d, h)
    BY <1>4, Resent
  <2>2. d \in Buckets /\ d.src = o /\ Start(d) = Start(b) /\ End(d) = End(b)
    BY <1>4, Resent
  <2> QED
    BY <2>1, <2>2, <1>3
<1>8. a \in {"recv", "yield"} /\ (a = "recv" => ~b.last)
  OBVIOUS
<1> HIDE DEF x, d, a
<1>9. /\ inbox' \in [Workers -> Seq(Buckets)] /\ unread' \subseteq Workers
      /\ \A q \in Workers \ {r + 1} : inbox'[q] = inbox[q] /\ (q \in unread' <=> q \in unread)
      /\ r + 1 \in Workers => inbox'[r + 1] = Append(inbox[r + 1], d) /\ r + 1 \in unread'
  <2>1. CASE r + 1 \in Workers
    <3>1. Append(inbox[r + 1], d) \in Seq(Buckets)
      BY <2>1, <1>1, <1>7, QueueTypes
    <3> QED
      BY <3>1, <2>1, <1>1 DEF Offer, Shape
  <2>2. CASE r + 1 \notin Workers
    BY <2>2, <1>1 DEF Shape
  <2> QED
    BY <2>1, <2>2
<1>10. Shape'
  BY <1>1, <1>6, <1>9 DEF Shape, TxShape, IpcShape, BufShape
<1>11. Local(r)' /\ Pos(r)' = Pos(r) + Len(b.out) /\ Pos(r)' = End(b)
  <2>1. Offered(b, buf'[r][Hand(rx'[r].idx)])
    BY <1>1, <1>3, <1>4, <1>5, <1>6
  <2> HIDE DEF b
  <2> QED
    BY <2>1, <1>1, <1>3, <1>4, <1>5, <1>6, <1>8, TakeBucket
<1>12. Got(r)' = Got(r) /\ rx'[r].fly = "none"
  <2>1. rx'[r].fly = "none"
    BY <1>5, <1>6
  <2>2. Got(r) = Pos(r) + Len(b.out) /\ Got(r)' = Pos(r)' + 0
    BY <2>1, <1>1 DEF Got
  <2>3. Pos(r) \in Nat /\ Len(b.out) \in Nat
    BY <1>1, <1>4, CountTypes, BucketTypes
  <2>4. Pos(r) + Len(b.out) + 0 = Pos(r) + Len(b.out)
    BY <2>3
  <2> QED
    BY <2>1, <2>2, <2>4, <1>11
<1>13. /\ inbox'[r] = inbox[r] /\ (r \in unread' <=> r \in unread)
  BY <1>9, NextRank
<1>14. Given(r - 1)' = Given(r - 1) /\ Half(r - 1)' = Half(r - 1)
  <2>1. CASE r = 1
    BY <2>1, <1>1, FirstRank, TxSame
  <2>2. CASE r # 1
    <3>1. r - 1 \in Workers \ {r}
      BY <2>2, FirstRank, Sizing DEF Workers
    <3> QED
      BY <3>1, <1>1, <1>6, RankSame
  <2> QED
    BY <2>1, <2>2
<1>15. Links(r)'
  <2>1. Landed(r)'
    BY <1>12 DEF Landed
  <2>2. ASSUME NEW c, Takes(r, r - 1, c) PROVE Takes(r, r - 1, c)'
    BY <2>2, <1>1, <1>12, <1>14, SameOffers DEF Takes
  <2>3. Takes(r, r - 1, inbox[r][1]) => Takes(r, r - 1, inbox[r][1])'
    BY <2>2, <1>13
  <2>4. NixlLink(r)'
    BY <1>1, <1>3, <1>12, <1>13, <1>14, <2>1, <2>3 DEF NixlLink
  <2> QED
    BY <2>4, <1>1 DEF Links, Broadcasts, Nixl, Mooncake
<1>16. ASSUME r + 1 \in Workers PROVE Links(r + 1)'
  <2> DEFINE q == r + 1
  <2>1. q \in Workers /\ q # r /\ q - 1 = r
    BY <1>16, NextRank
  <2>2. inbox'[q] = Append(inbox[q], d) /\ q \in unread' /\ q \notin unread
    BY <1>1, <1>9, <1>16
  <2> HIDE DEF q
  <2>3. NixlLink(q) /\ rx'[q] = rx[q] /\ ipc'[q] = ipc[q] /\ loaded'[q] = loaded[q]
    BY <2>1, <1>1, <1>6 DEF Moving, Links
  <2>4. inbox[q] = << >> /\ rx[q].fly # "running" /\ Got(q) = Given(r)
    BY <2>1, <2>2, <2>3 DEF NixlLink
  <2>5. Given(r) = Pos(r) /\ Given(r)' = Pos(r)' /\ Half(r)' = o
    <3>1. Given(r) = Pos(r) /\ Given(r)' = Pos(r)'
      BY RankTypes DEF Given
    <3>2. Half(r)' = Hand(rx'[r].idx)
      BY RankTypes DEF Half
    <3> QED
      BY <3>1, <3>2, <1>4, <1>5, <1>6
  <2>6. Len(inbox'[q]) = 1 /\ inbox'[q][1] = d /\ inbox'[q] # << >>
    BY <2>2, <2>4, AppendEmpty
  <2>7. Got(q)' = Got(q) /\ Landed(q)'
    <3>1. Got(q)' = Got(q) /\ Pos(q)' = Pos(q)
      BY <2>1, <2>3, RankSame
    <3> QED
      BY <3>1, <2>3, <1>1, SameOffers DEF NixlLink, Landed
  <2>8. /\ Offered(d, buf[r][d.src]) /\ d.src = o /\ Start(d) = Got(q) + 1
        /\ End(d) = Given(r)'
    BY <1>7, <1>11, <2>4, <2>5
  <2> HIDE DEF o
  <2>9. ASSUME NEW c, c = d PROVE Takes(q, q - 1, c)'
    BY <2>1, <2>5, <2>7, <2>8, <2>9, <1>1, SameOffers DEF Takes
  <2>10. Takes(q, q - 1, inbox[q][1])'
    BY <2>6, <2>9
  <2>11. NixlLink(q)'
    BY <2>2, <2>3, <2>4, <2>6, <2>7, <2>10 DEF NixlLink
  <2>12. Links(q)'
    BY <2>11, <1>1 DEF Links, Broadcasts, Nixl, Mooncake
  <2> QED
    BY <2>12 DEF q
<1>17. buf'[0] = buf[0]
  BY <1>1
<1> QED
  BY <1>1, <1>6, <1>9, <1>10, <1>11, <1>15, <1>16, <1>17, NixlMoves, WrittenFrame

-----------------------------------------------------------------------------
(* Mooncake's chain.                                                       *)

\* Copying what a bucket holds from one half to another.
LEMMA BucketCopied ==
    ASSUME Written, NEW b \in Buckets, NEW g, g \in [0 .. BucketSize - 1 -> Cell], Known(g),
           NEW h, h \in [0 .. BucketSize - 1 -> Cell], Known(h), Offered(b, g),
           NEW c, c = CopyBucket(h, g, b)
    PROVE  c \in [0 .. BucketSize - 1 -> Cell] /\ Known(c) /\ Offered(b, c)
<1> DEFINE used == UNION {CellsOf(b.out[i]) : i \in DOMAIN b.out}
<1>1. c = [i \in 0 .. BucketSize - 1 |-> IF i \in used THEN g[i] ELSE h[i]]
  BY DEF CopyBucket
<1>2. b.out \in Seq(Places) /\ DOMAIN b.out = 1 .. Len(b.out)
  BY BucketTypes
<1>3. ASSUME NEW i \in 1 .. Len(b.out), NEW j \in CellsOf(b.out[i]) PROVE j \in used
  BY <1>2, <1>3
<1> HIDE DEF used
<1>4. c \in [0 .. BucketSize - 1 -> Cell]
  BY <1>1
<1>5. Known(c)
  BY <1>1 DEF Known
<1>6. ASSUME NEW k \in Start(b) .. End(b) PROVE Intact(c, k)
  <2> DEFINE s == Start(b) - 1
             n == Len(b.out)
             i == k - s
  <2>1. /\ Start(b) \in Tensors /\ n \in Nat /\ End(b) = s + n /\ s \in Nat /\ End(b) <= N
        /\ \A l \in 1 .. n : b.out[l] = Slot(s + l)
    BY BucketRange DEF Offered
  <2>2. Start(b) = s + 1 /\ k \in Tensors
    BY <2>1, Sizing
  <2> HIDE DEF s, n
  <2>3. i \in 1 .. n /\ s + i = k
    BY <2>1, <2>2, Indexed
  <2> HIDE DEF i
  <2>4. b.out[i] = Slot(k)
    BY <2>1, <2>3
  <2>5. ASSUME NEW j \in CellsOf(Slot(k)) PROVE c[j] = <<version, k>>
    <3>1. j \in 0 .. BucketSize - 1 /\ j \in used
      BY <2>2, <2>3, <2>4, <2>5, <1>3, SlotCells DEF n
    <3>2. Intact(g, k)
      BY DEF Offered
    <3> QED
      BY <3>1, <3>2, <2>5, <1>1 DEF Intact
  <2> QED
    BY <2>5 DEF Intact
<1> QED
  BY <1>4, <1>5, <1>6 DEF Offered

\* The bucket a Mooncake rank is to read.
LEMMA ChainHead ==
    ASSUME Shape, NEW q \in Workers, MooncakeLink(q), rx[q].at = "recv", inbox[q] # << >>,
           NEW b, b = Head(inbox[q])
    PROVE  /\ b \in Buckets /\ b = inbox[q][1] /\ b.src = Hand(rx[q].idx) /\ b.src \in {0, 1}
           /\ Offered(b, buf[q - 1][b.src]) /\ Start(b) = Pos(q) + 1
<1>1. inbox[q] \in Seq(Buckets)
  BY QueueTypes
<1>2. b = inbox[q][1] /\ b \in Buckets /\ 1 \in 1 .. Len(inbox[q])
  BY <1>1, NotEmpty
<1>3. rx[q].idx \in Nat /\ Taken(q) + 1 - 1 = rx[q].idx
  BY RxTypes DEF Taken
<1>4. b.src = Hand(Taken(q) + 1 - 1) /\ Offered(b, buf[q - 1][b.src]) /\ Start(b) = Pos(q) + 1
  BY <1>2 DEF MooncakeLink
<1> QED
  BY <1>2, <1>3, <1>4, BucketTypes

\* Arithmetic of indices that move by one.
LEMMA Shifts ==
    ASSUME NEW t \in Nat, NEW i \in Nat
    PROVE  t + (i + 1) - 1 = t + 1 + i - 1 /\ (i > 1 => i - 1 + 1 = i /\ i - 1 \in 1 .. i)
           /\ i + 1 - 1 = i
  OBVIOUS

\* The rank that has read a bucket, and the rest of what was sent to it.
LEMMA ChainTail ==
    ASSUME Shape, Mooncake, NEW q \in Workers, MooncakeLink(q), UNCHANGED <<engine, version>>,
           rx[q].at = "recv", inbox[q] # << >>, NEW b, b = Head(inbox[q]),
           inbox'[q] = Tail(inbox[q]), rx'[q].at = "yield", rx'[q].idx = rx[q].idx,
           rx'[q].coming = b, rx'[q].fly = rx[q].fly, Pos(q)' = End(b),
           Sent(q - 1)' = Sent(q - 1), Given(q - 1)' = Given(q - 1),
           buf'[q - 1] = buf[q - 1], tx'.at = tx.at
    PROVE  Links(q)'
<1> DEFINE c == inbox[q]
           d == Tail(c)
           n == Len(d)
<1>1. /\ b \in Buckets /\ b = c[1] /\ b.src = Hand(rx[q].idx)
      /\ Offered(b, buf[q - 1][b.src])
  BY ChainHead
<1>2. /\ n \in Nat /\ Len(c) = n + 1 /\ (n = 0 <=> d = << >>)
      /\ \A i \in 1 .. n : d[i] = c[i + 1] /\ i + 1 \in 1 .. Len(c)
  <2>1. c \in Seq(Buckets)
    BY QueueTypes
  <2> HIDE DEF c
  <2>5. Len(c) \in Nat /\ c # << >>
    BY <2>1, NotEmpty DEF c
  <2>2. d \in Seq(Buckets) /\ n = Len(c) - 1 /\ Len(c) \in Nat
    BY <2>1, <2>5, NotEmpty
  <2>3. \A i \in 1 .. n : d[i] = c[i + 1] /\ i + 1 \in 1 .. Len(c)
    BY <2>1, NotEmpty
  <2>4. n \in Nat /\ (n = 0 <=> d = << >>)
    <3> HIDE DEF d
    <3> QED
      BY <2>2, NotEmpty
  <2> HIDE DEF d, n
  <2> QED
    BY <2>2, <2>3, <2>4
<1>3. /\ rx[q].idx \in Nat /\ Taken(q) = rx[q].idx /\ Taken(q)' = rx[q].idx + 1
      /\ Sent(q - 1) \in Nat
  <2>1. rx[q].idx \in Nat /\ q - 1 \in Ranks
    BY RxTypes, RankTypes
  <2> QED
    BY <2>1, SentTypes DEF Taken
<1>4. inbox'[q] = d
  OBVIOUS
<1>5. n = Sent(q - 1) - (rx[q].idx + 1)
  <2> DEFINE l == Len(c)
             s == Sent(q - 1)
             j == rx[q].idx
  <2>1. l = s - j /\ l = n + 1 /\ n \in Nat /\ s \in Nat /\ j \in Nat
    BY <1>2, <1>3 DEF MooncakeLink
  <2> HIDE DEF l, n, s, j
  <2>2. n = s - (j + 1)
    BY <2>1
  <2> QED
    BY <2>2 DEF s, j
<1> HIDE DEF c, d, n
<1>6. ASSUME NEW i \in 1 .. n
      PROVE  /\ d[i].src = Hand(rx[q].idx + 1 + i - 1)
             /\ Offered(d[i], buf[q - 1][d[i].src])
             /\ i > 1 => Start(d[i]) = End(d[i - 1]) + 1
  <2>1. i \in Nat /\ i + 1 \in 1 .. Len(c) /\ d[i] = c[i + 1] /\ i + 1 > 1
    BY <1>2
  <2>2. /\ c[i + 1].src = Hand(Taken(q) + (i + 1) - 1)
        /\ Offered(c[i + 1], buf[q - 1][c[i + 1].src])
        /\ Start(c[i + 1]) = End(c[i + 1 - 1]) + 1
    BY <2>1 DEF MooncakeLink, c
  <2>3. c[i + 1].src = Hand(rx[q].idx + 1 + i - 1)
    BY <2>1, <2>2, <1>3, Shifts
  <2>4. ASSUME i > 1 PROVE End(c[i + 1 - 1]) = End(d[i - 1])
    <3>1. i - 1 + 1 = i /\ i + 1 - 1 = i /\ i - 1 \in 1 .. n
      BY <2>1, <2>4, <1>2
    <3>2. d[i - 1] = c[i - 1 + 1]
      BY <3>1, <1>2
    <3> QED
      BY <3>1, <3>2
  <2> QED
    BY <2>1, <2>2, <2>3, <2>4
<1>7. n = 0 => End(b) = Given(q - 1)
  <2>1. End(c[Len(c)]) = Given(q - 1)
    BY DEF MooncakeLink, c
  <2> QED
    BY <2>1, <1>1, <1>2
<1>8. n # 0 => Start(d[1]) = End(b) + 1 /\ End(d[n]) = Given(q - 1)
  <2> SUFFICES ASSUME n # 0 PROVE Start(d[1]) = End(b) + 1 /\ End(d[n]) = Given(q - 1)
    OBVIOUS
  <2>1. 1 \in 1 .. n /\ n \in 1 .. n
    BY <1>2
  <2>2. d[1] = c[1 + 1] /\ 1 + 1 \in 1 .. Len(c) /\ d[n] = c[n + 1]
    BY <2>1, <1>2
  <2>3. Start(c[1 + 1]) = End(c[1 + 1 - 1]) + 1
    BY <2>2 DEF MooncakeLink, c
  <2>4. End(c[Len(c)]) = Given(q - 1)
    BY DEF MooncakeLink, c
  <2>5. 1 + 1 - 1 = 1
    OBVIOUS
  <2> QED
    BY <2>2, <2>3, <2>4, <2>5, <1>1, <1>2
<1>9. ~Marked(buf[q - 1][b.src])
  BY <1>1, Unmarked
<1>10. Sent(q - 1) - rx[q].idx <= (IF q = 1 /\ tx.at = "fill" THEN 1 ELSE 2) /\ rx[q].fly = "none"
  BY DEF MooncakeLink
<1>11. MooncakeLink(q)'
  <2>1. \A i \in 1 .. Len(inbox'[q]) :
          /\ inbox'[q][i].src = Hand(rx[q].idx + 1 + i - 1)
          /\ Offered(inbox[q][i], buf[q - 1][inbox[q][i].src])'
          /\ i > 1 => Start(inbox'[q][i]) = End(inbox'[q][i - 1]) + 1
    <3>1. ASSUME NEW i \in 1 .. n, NEW e, e = d[i] PROVE Offered(inbox[q][i], buf[q - 1][inbox[q][i].src])'
      <4>1. Offered(e, buf[q - 1][e.src]) /\ inbox'[q][i] = e
        BY <1>4, <1>6, <3>1
      <4> QED
        BY <4>1, SameOffers
    <3>2. \A i \in 1 .. n : Offered(inbox[q][i], buf[q - 1][inbox[q][i].src])'
      BY <3>1
    <3> QED
      BY <3>2, <1>4, <1>6 DEF n
  <2>2. /\ inbox'[q] = << >> => Pos(q)' = Given(q - 1)'
        /\ inbox'[q] # << >> => /\ Start(inbox'[q][1]) = Pos(q)' + 1
                                /\ End(inbox'[q][Len(inbox'[q])]) = Given(q - 1)'
    BY <1>2, <1>4, <1>7, <1>8 DEF n
  <2>3. Len(inbox'[q]) = Sent(q - 1)' - Taken(q)'
    BY <1>3, <1>4, <1>5 DEF n
  <2> QED
    BY <2>1, <2>2, <2>3, <1>1, <1>3, <1>9, <1>10 DEF MooncakeLink
<1> QED
  BY <1>11 DEF Links, Broadcasts, Nixl, Mooncake

\* A worker's own step in Mooncake's chain, seen from the other workers.
LEMMA MooncakeMoves ==
    ASSUME Moving, NEW r \in Workers, Mooncake, UNCHANGED <<engine, stage, version, tx>>,
           \A q \in Workers \ {r} :
               rx'[q] = rx[q] /\ ipc'[q] = ipc[q] /\ loaded'[q] = loaded[q],
           \A q \in Workers \ {r, r + 1} : inbox'[q] = inbox[q] /\ buf'[q - 1] = buf[q - 1],
           Shape', Written', TxOK', \A q \in Workers : Local(q)', Links(r)',
           r + 1 \in Workers => Links(r + 1)'
    PROVE  Moving'
<1>1. ASSUME NEW q \in Workers \ {r, r + 1} PROVE Links(q)'
  <2>1. Given(q - 1)' = Given(q - 1) /\ Sent(q - 1)' = Sent(q - 1)
    <3>1. CASE q = 1
      BY <3>1, FirstRank, TxSame
    <3>2. CASE q # 1
      <4>1. q - 1 \in Workers \ {r}
        BY <3>2, FirstRank, Sizing DEF Workers
      <4> QED
        BY <4>1, RankSame
    <3> QED
      BY <3>1, <3>2
  <2>2. Links(q) /\ Pos(q)' = Pos(q)
    BY RankSame DEF Moving
  <2> QED
    BY <2>1, <2>2, MooncakeFrame
<1> QED
  BY <1>1 DEF Moving

\* The half Mooncake's rank r reads into is free: nothing the next rank is to use is in it.
LEMMA FreeToRead ==
    ASSUME Shape, NEW r \in Workers, r + 1 \in Workers, MooncakeLink(r + 1), rx[r].at = "recv",
           rx[r].idx >= 2 => Marked(buf[r][Hand(rx[r].idx)])
    PROVE  /\ Sent(r) = rx[r].idx /\ Sent(r) - rx[r + 1].idx <= 1
           /\ \A i \in 1 .. Len(inbox[r + 1]) :
                 /\ inbox[r + 1][i].src # Hand(rx[r].idx) /\ inbox[r + 1][i].src \in {0, 1}
           /\ rx[r + 1].at = "yield" => /\ rx[r + 1].coming.src # Hand(rx[r].idx)
                                        /\ rx[r + 1].coming.src \in {0, 1}
<1> DEFINE q == r + 1
<1>1. q - 1 = r /\ q \in Workers /\ r > 0
  BY NextRank, RankTypes
<1>2. Sent(r) = rx[r].idx /\ rx[r].idx \in Nat /\ rx[q].idx \in Nat
  <2>1. rx[r].idx \in Nat /\ rx[q].idx \in Nat
    BY <1>1, RxTypes
  <2>2. Sent(r) = rx[r].idx + 0
    BY <1>1 DEF Sent, Taken
  <2> QED
    BY <2>1, <2>2
<1> HIDE DEF q
<1>3. MooncakeLink(q)
  BY DEF q
<1>4. Sent(q - 1) - rx[q].idx <= 1
  <2>1. CASE rx[r].idx >= 2
    <3>1. Marked(buf[q - 1][Hand(Sent(q - 1))])
      BY <2>1, <1>1, <1>2
    <3> QED
      BY <3>1, <1>1, <1>3, UsedUp
  <2>2. CASE ~(rx[r].idx >= 2)
    BY <2>2, <1>1, <1>2
  <2> QED
    BY <2>1, <2>2
<1>5. /\ \A i \in 1 .. Len(inbox[q]) :
            inbox[q][i].src # Hand(Sent(q - 1)) /\ inbox[q][i].src \in {0, 1}
      /\ rx[q].at = "yield" => /\ rx[q].coming.src # Hand(Sent(q - 1))
                               /\ rx[q].coming.src \in {0, 1}
  BY <1>1, <1>3, <1>4, Elsewhere
<1> QED
  BY <1>1, <1>2, <1>4, <1>5 DEF q

\* A rank copies a bucket and describes it to the next.
LEMMA MooncakeReadStep == ASSUME Moving, NEW r \in Workers, MooncakeRead(r) PROVE Moving'
<1> DEFINE b == Head(inbox[r])
           o == Hand(rx[r].idx)
           c == CopyBucket(buf[r][o], buf[r - 1][b.src], b)
           d == [b EXCEPT !.src = o]
           x == [rx[r] EXCEPT !.at = "yield", !.out = b.out, !.last = b.last, !.coming = b]
<1>1. /\ Shape /\ Written /\ TxOK /\ Local(r) /\ Links(r) /\ Mooncake /\ rx[r].at = "recv"
      /\ inbox[r] # << >>
      /\ rx[r].idx >= 2 /\ r < Receivers => Marked(buf[r][o])
      /\ buf' = [buf EXCEPT ![r][o] = c] /\ rx' = [rx EXCEPT ![r] = x]
      /\ UNCHANGED <<engine, stage, version, tx, unread, joined, ipc, loaded>>
      /\ inbox' = [q \in Workers |-> IF q = r THEN Tail(inbox[r])
                                     ELSE IF q = r + 1 THEN Append(inbox[q], d)
                                     ELSE inbox[q]]
  BY DEF Moving, MooncakeRead, ReadBucket
<1>2. MooncakeLink(r) /\ ~Nixl
  BY <1>1 DEF Links, Mooncake, Nixl
<1>3. /\ b \in Buckets /\ b.src = o /\ b.src \in {0, 1}
      /\ Offered(b, buf[r - 1][b.src]) /\ Start(b) = Pos(r) + 1
  BY <1>1, <1>2, ChainHead
<1>4. rx[r].out = << >> /\ rx[r].fly = "none" /\ rx[r].idx \in Nat /\ rx[r] \in RxRecord
  BY <1>1, <1>2, RxTypes DEF Local, EndOK, MooncakeLink, Shape, RxShape, RxRecord
<1>5. o \in {0, 1} /\ r \in Ranks /\ r - 1 \in Ranks /\ r # 0
  BY <1>4, Halving, RankTypes
<1> HIDE DEF b, o
<1>6. c \in [0 .. BucketSize - 1 -> Cell] /\ Known(c) /\ Offered(b, c)
  <2>1. /\ buf[r - 1][b.src] \in [0 .. BucketSize - 1 -> Cell] /\ Known(buf[r - 1][b.src])
        /\ buf[r][o] \in [0 .. BucketSize - 1 -> Cell] /\ Known(buf[r][o])
    BY <1>1, <1>3, <1>5, HalfTypes, KnownHalf
  <2> QED
    BY <2>1, <1>1, <1>3, BucketCopied
<1> HIDE DEF c
<1>7. /\ BufShape' /\ Written' /\ buf'[r][o] = c
      /\ \A i \in {0, 1} : i # o => buf'[r][i] = buf[r][i]
      /\ \A q \in Ranks \ {r} : buf'[q] = buf[q]
  <2>1. Put(r, o, c) /\ UNCHANGED version
    BY <1>1 DEF Put
  <2> QED
    BY <2>1, <1>1, <1>5, <1>6, PutHalf, PutWritten
<1>8. /\ x \in RxRecord /\ x.at = "yield" /\ x.fly = "none" /\ x.idx = rx[r].idx
      /\ x.out = b.out /\ x.last = b.last /\ x.coming = b
  <2>1. b.out \in Seq(Places) /\ b.last \in BOOLEAN
    BY <1>3, BucketTypes
  <2>2. "yield" \in RxAt
    BY DEF RxAt
  <2> QED
    BY <1>3, <1>4, <2>1, <2>2 DEF RxRecord
<1>9. RxShape' /\ rx'[r] = x /\ \A q \in Workers \ {r} : rx'[q] = rx[q]
  <2> HIDE DEF x
  <2> QED
    BY <1>1, <1>8, RxNext
<1>10. /\ d \in Buckets /\ d.src = o /\ Offered(d, c) /\ Start(d) = Pos(r) + 1
       /\ End(d) = End(b)
  <2>1. \A h : Offered(b, h) => Offered(d, h)
    BY <1>3, <1>5, Resent
  <2>2. d \in Buckets /\ d.src = o /\ Start(d) = Start(b) /\ End(d) = End(b)
    BY <1>3, <1>5, Resent
  <2> QED
    BY <2>1, <2>2, <1>3, <1>6
<1> HIDE DEF x, d
<1>11. /\ inbox' \in [Workers -> Seq(Buckets)] /\ inbox'[r] = Tail(inbox[r])
       /\ r + 1 \in Workers => inbox'[r + 1] = Append(inbox[r + 1], d)
       /\ \A q \in Workers \ {r, r + 1} : inbox'[q] = inbox[q]
  <2>1. Tail(inbox[r]) \in Seq(Buckets)
    BY <1>1, QueueTypes, NotEmpty
  <2>2. \A q \in Workers : Append(inbox[q], d) \in Seq(Buckets) /\ inbox[q] \in Seq(Buckets)
    BY <1>1, <1>10, QueueTypes
  <2> QED
    BY <2>1, <2>2, <1>1, NextRank
<1>12. Shape'
  BY <1>1, <1>7, <1>9, <1>11 DEF Shape, TxShape, IpcShape
<1>13. Local(r)' /\ Pos(r)' = End(b)
  <2>1. Offered(b, buf'[r][Hand(rx'[r].idx)])
    BY <1>6, <1>7, <1>8, <1>9 DEF o
  <2> QED
    BY <2>1, <1>1, <1>2, <1>3, <1>4, <1>8, <1>9, TakeBucket
<1>14. \A q \in Workers : Local(q)'
  <2>1. \A q \in Workers \ {r} : buf'[q] = buf[q]
    BY <1>7, RankTypes
  <2> QED
    BY <2>1, <1>1, <1>9, <1>13, LocalOthers DEF Moving
<1>15. buf'[r - 1] = buf[r - 1] /\ buf'[0] = buf[0]
  <2>1. r - 1 # r /\ 0 \in Ranks
    BY RankTypes, Sizing DEF Workers
  <2> QED
    BY <2>1, <1>5, <1>7
<1>16. Given(r - 1)' = Given(r - 1) /\ Sent(r - 1)' = Sent(r - 1)
  <2>1. CASE r = 1
    BY <2>1, <1>1, FirstRank, TxSame
  <2>2. CASE r # 1
    <3>1. r - 1 \in Workers \ {r}
      BY <2>2, FirstRank, Sizing DEF Workers
    <3> QED
      BY <3>1, <1>1, <1>9, RankSame
  <2> QED
    BY <2>1, <2>2
<1>17. Links(r)'
  <2>1. rx'[r].fly = rx[r].fly /\ b = Head(inbox[r]) /\ tx'.at = tx.at
    BY <1>1, <1>4, <1>8, <1>9 DEF b
  <2> QED
    BY <2>1, <1>1, <1>2, <1>8, <1>9, <1>11, <1>13, <1>15, <1>16, ChainTail
<1>18. ASSUME r + 1 \in Workers PROVE Links(r + 1)'
  <2> DEFINE q == r + 1
  <2>1. q \in Workers /\ q # r /\ q - 1 = r /\ r < Receivers /\ q # 1
    BY <1>18, NextRank, RankTypes
  <2>2. /\ Sent(r) = rx[r].idx /\ Sent(r) - rx[q].idx <= 1 /\ MooncakeLink(q)
        /\ \A i \in 1 .. Len(inbox[q]) :
              /\ inbox[q][i].src # o /\ inbox[q][i].src \in {0, 1}
        /\ rx[q].at = "yield" => rx[q].coming.src # o /\ rx[q].coming.src \in {0, 1}
    <3>1. MooncakeLink(q)
      BY <1>1, <2>1 DEF Moving, Links
    <3>2. rx[r].idx >= 2 => Marked(buf[r][Hand(rx[r].idx)])
      BY <1>1, <2>1 DEF o
    <3> QED
      BY <3>1, <3>2, <1>1, <1>18, FreeToRead DEF o
  <2>3. inbox'[q] = Append(inbox[q], d)
    BY <1>11, <1>18
  <2> HIDE DEF q
  <2>4. rx'[q] = rx[q] /\ ipc'[q] = ipc[q] /\ loaded'[q] = loaded[q] /\ Pos(q)' = Pos(q)
    BY <2>1, <1>1, <1>9, RankSame
  <2>5. Given(r) = Pos(r) /\ Given(r)' = End(b) /\ Sent(r)' = rx[r].idx + 1
    <3>1. Given(r) = Pos(r) /\ Given(r)' = Pos(r)' /\ r > 0
      BY RankTypes DEF Given
    <3>2. Sent(r)' = rx'[r].idx + (IF rx'[r].at = "yield" THEN 1 ELSE 0)
      BY <3>1 DEF Sent, Taken
    <3> QED
      BY <3>1, <3>2, <1>8, <1>9, <1>13
  <2>6. /\ \A i \in 1 .. Len(inbox[q]) : buf'[r][inbox[q][i].src] = buf[r][inbox[q][i].src]
        /\ rx[q].at = "yield" => buf'[r][rx[q].coming.src] = buf[r][rx[q].coming.src]
    BY <2>2, <1>7
  <2>7. rx[q].idx \in Nat
    BY <2>1, <1>1, RxTypes
  <2>8. Sent(r)' - rx[q].idx <= (IF q = 1 /\ tx'.at = "fill" THEN 1 ELSE 2)
    BY <2>1, <2>2, <2>5, <2>7, <1>4
  <2>9. /\ Sent(q - 1)' = Sent(q - 1) + 1 /\ Sent(q - 1) \in Nat
        /\ Sent(q - 1)' - rx[q].idx <= (IF q = 1 /\ tx'.at = "fill" THEN 1 ELSE 2)
        /\ d.src = Hand(Sent(q - 1)) /\ Start(d) = Given(q - 1) + 1 /\ End(d) = Given(q - 1)'
        /\ Offered(d, buf'[q - 1][d.src])
        /\ \A i \in 1 .. Len(inbox[q]) :
              buf'[q - 1][inbox[q][i].src] = buf[q - 1][inbox[q][i].src]
        /\ rx[q].at = "yield" => buf'[q - 1][rx[q].coming.src] = buf[q - 1][rx[q].coming.src]
    BY <2>1, <2>2, <2>5, <2>6, <2>8, <1>4, <1>7, <1>10 DEF o
  <2>10. Links(q)'
    BY <2>1, <2>2, <2>3, <2>4, <2>9, <1>1, <1>10, ChainAppend
  <2> QED
    BY <2>10 DEF q
<1>19. TxOK'
  BY <1>1, <1>15, TxFrame
<1>20. \A q \in Workers \ {r, r + 1} : buf'[q - 1] = buf[q - 1]
  <2>1. \A q \in Workers \ {r, r + 1} : q - 1 \in Ranks \ {r}
    BY RankTypes, Sizing DEF Workers
  <2> QED
    BY <2>1, <1>7
<1> QED
  BY <1>1, <1>7, <1>9, <1>11, <1>12, <1>14, <1>17, <1>18, <1>19, <1>20, MooncakeMoves

\* Rank 0 is undisturbed as long as the half it fills is.
LEMMA TxHalf ==
    ASSUME TxOK, UNCHANGED <<engine, version, tx>>,
           tx.at = "fill" => buf'[0][Hand(tx.idx)] = buf[0][Hand(tx.idx)]
    PROVE  TxOK'
  BY DEF TxOK, Intact, Run, Slot, At, CellsOf, Mooncake

\* A marker spoils only tensors at the beginning of a half.
LEMMA MarkedRank ==
    ASSUME Shape, NEW q \in Workers, Local(q), Mooncake, q < Receivers,
           UNCHANGED <<engine, version>>, rx'[q] = rx[q], ipc'[q] = ipc[q],
           loaded'[q] = loaded[q],
           \A h \in {0, 1}, i \in 1 .. BucketSize - 1 : buf'[q][h][i] = buf[q][h][i]
    PROVE  Local(q)'
<1>1. Passed(q)' = Passed(q) /\ Pos(q)' = Pos(q)
  BY RankSame
<1>2. ConsumerOK(q)'
  <2>1. /\ ClonesOK(q, 0, loaded'[q]) /\ ClonesOK(q, Len(loaded'[q]), ipc'[q].clones)
        /\ MetaOK(q, Len(loaded'[q]) + Len(ipc'[q].clones), ipc'[q])
    BY DEF Local, ConsumerOK
  <2> QED
    BY <2>1, ConsumerNext
<1>3. ASSUME NEW i \in 1 .. Len(rx[q].out), Safe(q, Passed(q) + i), NEW half,
             half = buf'[q][Hand(rx[q].idx)]
      PROVE  Intact(half, Passed(q) + i)
  <2> DEFINE k == Passed(q) + i
             h == Hand(rx[q].idx)
  <2>1. k \in Tensors
    <3>1. /\ Passed(q) \in Nat /\ Len(rx[q].out) \in Nat /\ Pos(q) = Passed(q) + Len(rx[q].out)
          /\ Pos(q) <= N
      BY CountTypes, LengthTypes DEF Local, OutOK
    <3> QED
      BY <3>1, Sizing
  <2>2. Intact(buf[q][h], k) /\ OffsetOf[k] # 0
    BY <1>3 DEF Local, OutOK, Safe
  <2>3. h \in {0, 1}
    BY RxTypes, Halving
  <2> HIDE DEF k, h
  <2>4. ASSUME NEW j \in CellsOf(Slot(k)) PROVE half[j] = <<version, k>>
    <3>1. /\ j \in OffsetOf[k] .. OffsetOf[k] + Sizes[k] - 1 /\ j \in 0 .. BucketSize - 1
          /\ OffsetOf[k] \in Nat /\ Sizes[k] \in Nat /\ BucketSize \in Nat
      BY <2>1, <2>4, SlotCells, OffsetFits, Sizing
    <3>2. j \in 1 .. BucketSize - 1
      BY <3>1, <2>2
    <3>3. half[j] = buf[q][h][j]
      BY <3>2, <2>3, <1>3 DEF h
    <3> QED
      BY <3>3, <2>2, <2>4 DEF Intact
  <2> QED
    BY <2>4 DEF Intact, k
<1>4. OutOK(q)'
  <2>1. Run(rx[q].out, Passed(q))' /\ Pos(q)' <= N
    BY <1>1 DEF Local, OutOK, Run
  <2> QED
    BY <2>1, <1>1, <1>3, SameVersion DEF OutOK
<1>5. EndOK(q)'
  BY <1>1, SameVersion DEF Local, EndOK
<1> QED
  BY <1>2, <1>4, <1>5 DEF Local

\* Arithmetic of a rank that is one bucket behind.
LEMMA OneBehind ==
    ASSUME NEW a \in Nat, NEW i \in Nat, NEW n \in Nat, a - i <= 2, n = a - (i + 1)
    PROVE  /\ a - (i + 1) <= 1 /\ (a - i <= 1 => a - (i + 1) <= 1)
           /\ \A j \in 1 .. n : j = 1
           /\ i + 1 + 1 - 1 = i + 1
  OBVIOUS

\* The rank that marks a bucket is ready for the one after it.
LEMMA ChainMarked ==
    ASSUME Shape, Mooncake, NEW q \in Workers, MooncakeLink(q), UNCHANGED <<engine, version>>,
           rx[q].at = "yield", inbox'[q] = inbox[q], rx'[q].at # "yield",
           rx'[q].idx = rx[q].idx + 1, rx'[q].coming = rx[q].coming, rx'[q].fly = rx[q].fly,
           Pos(q)' = Pos(q), Sent(q - 1)' = Sent(q - 1), Given(q - 1)' = Given(q - 1),
           \A h \in {0, 1} : h # Hand(rx[q].idx) => buf'[q - 1][h] = buf[q - 1][h],
           tx'.at = tx.at
    PROVE  Links(q)'
<1> DEFINE c == inbox[q]
           a == Sent(q - 1)
           j == rx[q].idx
           n == Len(c)
<1>1. c \in Seq(Buckets) /\ n \in Nat /\ a \in Nat /\ j \in Nat
  <2>1. c \in Seq(Buckets) /\ j \in Nat /\ q - 1 \in Ranks
    BY QueueTypes, RxTypes, RankTypes
  <2> QED
    BY <2>1, SentTypes
<1>2. Taken(q) = j + 1 /\ Taken(q)' = j + 1
  <2>1. Taken(q)' = rx'[q].idx + (IF rx'[q].at = "yield" THEN 1 ELSE 0)
    BY DEF Taken
  <2> QED
    BY <2>1, <1>1 DEF Taken
<1>3. n = a - (j + 1) /\ a - j <= (IF q = 1 /\ tx.at = "fill" THEN 1 ELSE 2)
  BY <1>2 DEF MooncakeLink
<1> HIDE DEF c, a, j, n
<1>4. /\ a - (j + 1) <= 1 /\ \A i \in 1 .. n : i = 1
      /\ j + 1 + 1 - 1 = j + 1
  BY <1>1, <1>3, OneBehind
<1>5. ASSUME NEW i \in 1 .. n
      PROVE  /\ c[i].src = Hand(j + 1 + i - 1) /\ Offered(c[i], buf[q - 1][c[i].src])
             /\ buf'[q - 1][c[i].src] = buf[q - 1][c[i].src] /\ i = 1
  <2>1. i = 1
    BY <1>4
  <2>2. c[i].src = Hand(Taken(q) + i - 1) /\ Offered(c[i], buf[q - 1][c[i].src])
    BY DEF MooncakeLink, c, n
  <2>3. c[i].src = Hand(j + 1)
    BY <2>1, <2>2, <1>2, <1>4
  <2>4. Hand(j + 1) \in {0, 1} /\ Hand(j + 1) # Hand(j)
    BY <1>1, Halving
  <2> QED
    BY <2>1, <2>2, <2>3, <2>4, <1>2 DEF j
<1>6. MooncakeLink(q)'
  <2>1. \A i \in 1 .. Len(inbox'[q]) :
          /\ inbox'[q][i].src = Hand(j + 1 + i - 1)
          /\ Offered(inbox[q][i], buf[q - 1][inbox[q][i].src])'
          /\ ~(i > 1)
    <3>1. ASSUME NEW i \in 1 .. n, NEW e, e = c[i], NEW h, h = buf'[q - 1][c[i].src]
          PROVE  Offered(inbox[q][i], buf[q - 1][inbox[q][i].src])'
      <4>1. Offered(e, h) /\ inbox'[q][i] = e /\ h = buf'[q - 1][inbox'[q][i].src]
        BY <3>1, <1>5 DEF c
      <4> QED
        BY <4>1, SameOffers
    <3>2. \A i \in 1 .. n : Offered(inbox[q][i], buf[q - 1][inbox[q][i].src])'
      BY <3>1
    <3>3. \A i \in 1 .. n : ~(i > 1)
      BY <1>5
    <3> QED
      BY <3>2, <3>3, <1>5 DEF n, c
  <2>2. /\ inbox'[q] = << >> => Pos(q)' = Given(q - 1)'
        /\ inbox'[q] # << >> => /\ Start(inbox'[q][1]) = Pos(q)' + 1
                                /\ End(inbox'[q][Len(inbox'[q])]) = Given(q - 1)'
    BY DEF MooncakeLink
  <2>3. /\ Len(inbox'[q]) = Sent(q - 1)' - Taken(q)'
        /\ Sent(q - 1)' - rx'[q].idx <= 1
    BY <1>2, <1>3, <1>4 DEF n, c, a, j
  <2>4. Sent(q - 1)' - rx'[q].idx <= (IF q = 1 /\ tx'.at = "fill" THEN 1 ELSE 2)
    <3>1. a - (j + 1) <= 1 /\ a - (j + 1) <= 2
      BY <1>1, <1>4
    <3> QED
      BY <3>1 DEF a, j
  <2>5. rx'[q].fly = "none"
    BY DEF MooncakeLink
  <2>6. \A i : i \in 1 .. Len(inbox'[q]) => inbox'[q][i].src = Hand(Taken(q)' + i - 1)
    BY <2>1, <1>2
  <2> QED
    BY <2>1, <2>2, <2>3, <2>4, <2>5, <2>6 DEF MooncakeLink
<1> QED
  BY <1>6 DEF Links, Broadcasts, Nixl, Mooncake

\* A rank marks the bucket it has used up.
LEMMA MooncakeMarkStep == ASSUME Moving, NEW r \in Workers, MooncakeMark(r) PROVE Moving'
<1> DEFINE g == Hand(rx[r].idx)
           c == [buf[r - 1][g] EXCEPT ![0] = Magic]
           a == IF rx[r].last THEN "ended" ELSE "recv"
           x == [rx[r] EXCEPT !.idx = @ + 1, !.at = a]
<1>1. /\ Shape /\ Written /\ TxOK /\ Local(r) /\ Links(r) /\ Mooncake
      /\ rx[r].at = "yield" /\ rx[r].out = << >>
      /\ UNCHANGED <<engine, stage, version, tx, inbox, unread, joined, ipc, loaded>>
  BY DEF Moving, MooncakeMark, Exhausted
<1>2. MooncakeLink(r) /\ rx[r].coming.src = g /\ ~Nixl
  BY <1>1 DEF Links, Mooncake, Nixl, MooncakeLink
<1>3. /\ g \in {0, 1} /\ rx[r].idx \in Nat /\ rx[r] \in RxRecord
      /\ r \in Ranks /\ r - 1 \in Ranks /\ r # 0 /\ r - 1 # r /\ r \in Nat
  <2>1. rx[r].idx \in Nat /\ rx[r] \in RxRecord
    BY <1>1, RxTypes DEF Shape, RxShape, RxRecord
  <2>2. r \in Ranks /\ r - 1 \in Ranks /\ r # 0 /\ r \in Nat
    BY RankTypes
  <2>3. r - 1 # r
    BY <2>2
  <2> QED
    BY <2>1, <2>2, <2>3, Halving
<1>4. Put(r - 1, g, c) /\ rx' = [rx EXCEPT ![r] = x]
  BY <1>2 DEF MooncakeMark, Put
<1>5. /\ c \in [0 .. BucketSize - 1 -> Cell] /\ Known(c)
      /\ \A i \in 1 .. BucketSize - 1 : c[i] = buf[r - 1][g][i]
  <2>1. buf[r - 1][g] \in [0 .. BucketSize - 1 -> Cell] /\ Known(buf[r - 1][g])
    BY <1>1, <1>3, HalfTypes, KnownHalf
  <2>2. Magic \in Cell
    BY DEF Magic, Cell
  <2> DEFINE d == buf[r - 1][g]
  <2>3. c = [d EXCEPT ![0] = Magic]
    OBVIOUS
  <2> HIDE DEF g, c, d
  <2>4. c \in [0 .. BucketSize - 1 -> Cell]
    BY <2>1, <2>2, <2>3 DEF d
  <2>5. \A i \in 0 .. BucketSize - 1 : c[i] = IF i = 0 THEN Magic ELSE d[i]
    BY <2>1, <2>3 DEF d
  <2>6. Known(c)
    BY <2>1, <2>5 DEF Known, d
  <2>7. BucketSize \in Nat
    BY Sizing
  <2>8. \A i \in 1 .. BucketSize - 1 : i \in 0 .. BucketSize - 1 /\ i # 0
    BY <2>7
  <2>9. \A i \in 1 .. BucketSize - 1 : c[i] = d[i]
    BY <2>5, <2>8
  <2> QED
    BY <2>4, <2>6, <2>9 DEF d
<1>6. /\ x \in RxRecord /\ x.at = a /\ x.idx = rx[r].idx + 1 /\ x.out = rx[r].out
      /\ x.last = rx[r].last /\ x.fly = rx[r].fly /\ x.coming = rx[r].coming
  <2>1. a \in RxAt
    BY DEF RxAt
  <2> DEFINE e == rx[r]
  <2>2. e \in RxRecord /\ e.idx + 1 \in Nat /\ x = [e EXCEPT !.idx = @ + 1, !.at = a]
    BY <1>3
  <2> HIDE DEF a, e, x
  <2>3. /\ x \in RxRecord /\ x.at = a /\ x.idx = e.idx + 1 /\ x.out = e.out
        /\ x.last = e.last /\ x.fly = e.fly /\ x.coming = e.coming
    BY <2>1, <2>2 DEF RxRecord
  <2> QED
    BY <2>3 DEF e
<1> HIDE DEF c, x
<1>7. /\ BufShape' /\ Written' /\ buf'[r - 1][g] = c
      /\ \A i \in {0, 1} : i # g => buf'[r - 1][i] = buf[r - 1][i]
      /\ \A q \in Ranks \ {r - 1} : buf'[q] = buf[q]
  <2> DEFINE f == g
             s == r - 1
  <2>1. /\ s \in Ranks /\ f \in {0, 1} /\ Put(s, f, c) /\ UNCHANGED version
        /\ c \in [0 .. BucketSize - 1 -> Cell] /\ Known(c)
    BY <1>1, <1>3, <1>4, <1>5
  <2> HIDE DEF f, s
  <2>2. /\ BufShape' /\ Written' /\ buf'[s][f] = c
        /\ \A q \in Ranks, i \in {0, 1} : q # s \/ i # f => buf'[q][i] = buf[q][i]
        /\ \A q \in Ranks \ {s} : buf'[q] = buf[q]
    BY <2>1, <1>1, PutHalf, PutWritten
  <2> QED
    BY <2>1, <2>2 DEF f, s
<1>8. RxShape' /\ rx'[r] = x /\ \A q \in Workers \ {r} : rx'[q] = rx[q]
  BY <1>1, <1>4, <1>6, RxNext
<1>9. Shape'
  BY <1>1, <1>7, <1>8 DEF Shape, TxShape, IpcShape
<1>10. Passed(r)' = Passed(r) /\ Pos(r)' = Pos(r)
  BY <1>1, <1>6, <1>8 DEF Passed, Pos
<1>11. Local(r)'
  <2>1. ConsumerOK(r)'
    <3>1. /\ ClonesOK(r, 0, loaded'[r]) /\ ClonesOK(r, Len(loaded'[r]), ipc'[r].clones)
          /\ MetaOK(r, Len(loaded'[r]) + Len(ipc'[r].clones), ipc'[r])
      BY <1>1 DEF Local, ConsumerOK
    <3> QED
      BY <3>1, <1>1, ConsumerNext
  <2>2. OutOK(r)'
    <3>1. rx'[r].out = << >> /\ Len(rx'[r].out) = 0
      BY <1>1, <1>6, <1>8
    <3>2. Run(rx[r].out, Passed(r))' /\ Pos(r)' <= N
      BY <3>1, <1>1, <1>10 DEF Local, OutOK, Run
    <3> QED
      BY <3>1, <3>2 DEF OutOK
  <2>3. EndOK(r)'
    <3>1. /\ rx'[r].at \in {"ended", "recv"} /\ (rx'[r].at = "ended" <=> rx[r].last)
          /\ rx'[r].out = << >> /\ rx'[r].last = rx[r].last /\ rx'[r].fly = "none"
      BY <1>1, <1>2, <1>6, <1>8 DEF MooncakeLink
    <3>2. rx[r].last => Pos(r)' = N
      BY <1>1, <1>10 DEF Local, EndOK
    <3>3. ~Nixl'
      BY <1>1, <1>2, SameVersion
    <3> QED
      BY <3>1, <3>2, <3>3 DEF EndOK
  <2> QED
    BY <2>1, <2>2, <2>3 DEF Local
<1>12. \A h \in {0, 1}, i \in 1 .. BucketSize - 1 : buf'[r - 1][h][i] = buf[r - 1][h][i]
  <2> SUFFICES ASSUME NEW h \in {0, 1}, NEW i \in 1 .. BucketSize - 1
               PROVE  buf'[r - 1][h][i] = buf[r - 1][h][i]
    OBVIOUS
  <2>1. CASE h = g
    BY <2>1, <1>5, <1>7
  <2>2. CASE h # g
    BY <2>2, <1>7
  <2> QED
    BY <2>1, <2>2
<1>13. ASSUME NEW q \in Workers PROVE Local(q)'
  <2>1. CASE q = r
    BY <2>1, <1>11
  <2>2. CASE q = r - 1
    <3>1. q # r /\ q < Receivers
      BY <2>2, <1>3, Sizing DEF Workers
    <3>2. rx'[q] = rx[q] /\ Local(q)
      BY <3>1, <1>8 DEF Moving
    <3> QED
      BY <3>1, <3>2, <2>2, <1>1, <1>12, MarkedRank
  <2>3. CASE q # r /\ q # r - 1
    <3>1. rx'[q] = rx[q] /\ buf'[q] = buf[q] /\ Local(q)
      BY <2>3, <1>7, <1>8, RankTypes DEF Moving
    <3> QED
      BY <3>1, <1>1, LocalFrame
  <2> QED
    BY <2>1, <2>2, <2>3
<1>14. Given(r - 1)' = Given(r - 1) /\ Sent(r - 1)' = Sent(r - 1)
  <2>1. CASE r = 1
    BY <2>1, <1>1, FirstRank, TxSame
  <2>2. CASE r # 1
    <3>1. r - 1 \in Workers \ {r}
      BY <2>2, <1>3, FirstRank
    <3> QED
      BY <3>1, <1>1, <1>8, RankSame
  <2> QED
    BY <2>1, <2>2
<1>15. Links(r)'
  <2>1. rx'[r].at # "yield" /\ rx'[r].idx = rx[r].idx + 1 /\ rx'[r].coming = rx[r].coming
        /\ rx'[r].fly = rx[r].fly /\ tx'.at = tx.at /\ inbox'[r] = inbox[r]
    BY <1>1, <1>6, <1>8
  <2>2. \A h \in {0, 1} : h # Hand(rx[r].idx) => buf'[r - 1][h] = buf[r - 1][h]
    BY <1>7
  <2> QED
    BY <2>1, <2>2, <1>1, <1>2, <1>10, <1>14, ChainMarked
<1>16. ASSUME r + 1 \in Workers PROVE Links(r + 1)'
  <2> DEFINE q == r + 1
  <2>1. q \in Workers /\ q # r /\ q - 1 = r /\ q # 1
    BY <1>16, NextRank, RankTypes
  <2> HIDE DEF q
  <2>2. Given(r)' = Given(r) /\ Sent(r)' = Sent(r)
    <3>1. /\ Given(r) = Pos(r) /\ Given(r)' = Pos(r)' /\ Sent(r) = Taken(r)
          /\ Sent(r)' = Taken(r)'
      <4>1. r > 0
        BY RankTypes
      <4> QED
        BY <4>1 DEF Given, Sent
    <3>2. Taken(r) = rx[r].idx + 1
      BY <1>1 DEF Taken
    <3>3. Taken(r)' = rx[r].idx + 1
      <4>1. Taken(r)' = rx'[r].idx + (IF rx'[r].at = "yield" THEN 1 ELSE 0)
        BY DEF Taken
      <4>2. rx'[r].idx = rx[r].idx + 1 /\ rx'[r].at # "yield"
        BY <1>6, <1>8
      <4> QED
        BY <4>1, <4>2, <1>3
    <3> QED
      BY <3>1, <3>2, <3>3, <1>10
  <2>3. buf'[r] = buf[r]
    BY <1>3, <1>7
  <2>4. /\ rx'[q] = rx[q] /\ ipc'[q] = ipc[q] /\ loaded'[q] = loaded[q] /\ Pos(q)' = Pos(q)
        /\ Links(q) /\ inbox'[q] = inbox[q]
    BY <2>1, <1>1, <1>8, RankSame DEF Moving
  <2>5. Links(q)'
    BY <2>1, <2>2, <2>3, <2>4, <1>1, MooncakeFrame
  <2> QED
    BY <2>5 DEF q
<1>17. TxOK'
  <2>1. ASSUME tx.at = "fill" PROVE buf'[0][Hand(tx.idx)] = buf[0][Hand(tx.idx)]
    <3>1. CASE r = 1
      <4>1. Sent(0) = tx.idx + 0 /\ tx.idx \in Nat
        BY <2>1, <1>1, TxTypes DEF Sent
      <4>2. Sent(r - 1) = tx.idx /\ Sent(r - 1) - rx[r].idx <= 1
        BY <4>1, <3>1, <2>1, <1>2, FirstRank DEF MooncakeLink
      <4>3. g # Hand(tx.idx)
        BY <4>2, <1>1, <1>2, Elsewhere
      <4>4. Hand(tx.idx) \in {0, 1}
        BY <4>1, Halving
      <4> QED
        BY <4>3, <4>4, <3>1, <1>7, FirstRank
    <3>2. CASE r # 1
      <4>1. 0 \in Ranks \ {r - 1}
        BY <3>2, FirstRank, RankTypes
      <4> QED
        BY <4>1, <1>7
    <3> QED
      BY <3>1, <3>2
  <2> QED
    BY <2>1, <1>1, TxHalf
<1>18. \A q \in Workers \ {r, r + 1} : inbox'[q] = inbox[q] /\ buf'[q - 1] = buf[q - 1]
  <2>1. \A q \in Workers \ {r, r + 1} : q - 1 \in Ranks /\ q - 1 # r - 1
    BY RankTypes, Sizing DEF Workers
  <2> QED
    BY <2>1, <1>1, <1>7
<1> QED
  BY <1>1, <1>7, <1>8, <1>9, <1>13, <1>15, <1>16, <1>17, <1>18, MooncakeMoves

-----------------------------------------------------------------------------
(* Updates begin and end; the invariant and the types.                     *)

\* The types of what an update begins with.
LEMMA FreshTypes ==
    /\ FreshRx \in RxRecord /\ FreshIpc \in IpcRecord
    /\ Halves \in [{0, 1} -> [0 .. BucketSize - 1 -> Cell]]
    /\ \A h \in {0, 1}, i \in 0 .. BucketSize - 1 : Halves[h][i] = Zero
    /\ FreshTx \in [at : {"off", "fill", "wait", "await", "done"}, idx : Nat, next : Nat,
                    offset : Nat, meta : Seq(Places)]
<1>1. << >> \in Seq(Places) /\ << >> \in Seq(Contained)
  OBVIOUS
<1>2. Zero \in Cell
  BY DEF Zero, Cell
<1>3. FreshRx \in RxRecord
  <2>1. [out |-> << >>, last |-> FALSE, src |-> 0] \in Buckets
    BY <1>1 DEF Buckets
  <2> QED
    BY <1>1, <2>1 DEF FreshRx, RxRecord, RxAt
<1>4. FreshIpc \in IpcRecord
  <2>1. Blank(LoadSize) \in [0 .. LoadSize - 1 -> Cell]
    BY <1>2 DEF Blank
  <2>2. 0 \in 0 .. LoadSize
    BY Sizing
  <2> QED
    BY <1>1, <2>1, <2>2 DEF FreshIpc, IpcRecord
<1>5. /\ Halves \in [{0, 1} -> [0 .. BucketSize - 1 -> Cell]]
      /\ \A h \in {0, 1}, i \in 0 .. BucketSize - 1 : Halves[h][i] = Zero
  BY <1>2 DEF Halves, Blank
<1> QED
  BY <1>1, <1>3, <1>4, <1>5 DEF FreshTx

\* Nothing is in the queues.
LEMMA EmptyQueues ==
    /\ [r \in Workers |-> << >>] \in [Workers -> Seq(Buckets)]
    /\ [r \in Workers |-> << >>] \in [Workers -> Seq(Contained)]
    /\ Len(<< >>) = 0 /\ \A i : i \notin 1 .. 0
  OBVIOUS

\* Before the first update every worker has version 0.
LEMMA InitRests == ASSUME TransferInit PROVE Resting
<1>1. /\ engine \in Engines /\ stage = "idle" /\ version = 0 /\ buf = [r \in Ranks |-> Halves]
      /\ tx = FreshTx /\ rx = [r \in Workers |-> FreshRx]
      /\ inbox = [r \in Workers |-> << >>] /\ unread = {} /\ joined = {}
      /\ ipc = [r \in Workers |-> FreshIpc]
      /\ loaded = [r \in Workers |-> [k \in Tensors |-> <<k, {<<0, k>>}>>]]
  BY DEF TransferInit
<1>2. TxShape /\ BufShape
  BY <1>1, FreshTypes DEF TxShape, BufShape
<1>3. RxShape /\ IpcShape
  BY <1>1, FreshTypes DEF RxShape, IpcShape, RxRecord, IpcRecord
<1>4. loaded \in [Workers -> Seq(Contained)] /\ \A r \in Workers : Len(loaded[r]) = N
  <2> DEFINE l == [k \in Tensors |-> <<k, {<<0, k>>}>>]
  <2>1. \A k \in Tensors : <<k, {<<0, k>>}>> \in Contained
    BY Sizing DEF Contained, Cell
  <2>2. l \in [1 .. N -> Contained] /\ N \in Nat
    BY <2>1, Sizing
  <2> HIDE DEF l
  <2>3. l \in Seq(Contained) /\ Len(l) = N
    BY <2>2
  <2>4. loaded = [r \in Workers |-> l]
    BY <1>1 DEF l
  <2> QED
    BY <2>3, <2>4
<1>5. Shape
  <2>1. /\ version \in Nat /\ version <= MaxUpdates /\ stage \in {"idle", "transfer"}
        /\ unread \subseteq Workers /\ joined \subseteq Workers
    BY <1>1, Sizing
  <2> QED
    BY <2>1, <1>1, <1>2, <1>3, <1>4, EmptyQueues DEF Shape
<1>6. Written
  BY <1>1, FreshTypes DEF Written
<1>7. /\ tx.at = "off" /\ tx.offset \in 0 .. BucketSize
      /\ \A r \in Workers : /\ rx[r].at = "off" /\ rx[r].fly = "none" /\ inbox[r] = << >>
                            /\ ~ipc[r].sent /\ ipc[r].meta = << >> /\ ipc[r].clones = << >>
  BY <1>1, Sizing DEF FreshTx, FreshRx, FreshIpc
<1> QED
  BY <1>1, <1>4, <1>5, <1>6, <1>7 DEF Resting

\* A new update begins: nothing is sent yet.
LEMMA UpdateWeightsStep == ASSUME Resting, UpdateWeights PROVE Moving'
<1>1. /\ Shape /\ Written /\ version < MaxUpdates
      /\ stage' = "transfer" /\ version' = version + 1 /\ buf' = Prepared
      /\ tx' = [FreshTx EXCEPT !.at = "fill"] /\ rx' = [r \in Workers |-> FreshRx]
      /\ ipc' = [r \in Workers |-> FreshIpc] /\ inbox' = [r \in Workers |-> << >>]
      /\ unread' = {} /\ joined' = {} /\ loaded' = [r \in Workers |-> << >>] /\ engine' = engine
  BY DEF Resting, UpdateWeights
<1>2. /\ tx' \in [at : {"off", "fill", "wait", "await", "done"}, idx : Nat, next : Nat,
                  offset : Nat, meta : Seq(Places)]
      /\ tx'.at = "fill" /\ tx'.idx = 0 /\ tx'.next = 1 /\ tx'.offset = 0 /\ tx'.meta = << >>
  BY <1>1, FreshTypes DEF FreshTx
<1>3. version' \in Nat /\ version' <= MaxUpdates /\ version <= version' /\ version \in Nat
  BY <1>1, Sizing DEF Shape
<1>4. BufShape'
  <2>1. CASE Mooncake
    BY <2>1, <1>1 DEF Prepared, Shape, BufShape
  <2>2. CASE ~Mooncake
    BY <2>2, <1>1, FreshTypes DEF Prepared, BufShape
  <2> QED
    BY <2>1, <2>2
<1>5. Written'
  <2>1. CASE Mooncake
    <3>1. buf' = buf
      BY <2>1, <1>1 DEF Prepared
    <3>2. 0 .. version \subseteq 0 .. version'
      BY <1>3
    <3> QED
      BY <3>1, <3>2, <1>1 DEF Written
  <2>2. CASE ~Mooncake
    <3>1. buf' = [r \in Ranks |-> Halves]
      BY <2>2, <1>1 DEF Prepared
    <3> QED
      BY <3>1, FreshTypes DEF Written
  <2> QED
    BY <2>1, <2>2
<1>6. Shape'
  <2>1. RxShape' /\ IpcShape'
    BY <1>1, FreshTypes DEF RxShape, IpcShape, RxRecord, IpcRecord
  <2>2. TxShape'
    BY <1>2 DEF TxShape
  <2> QED
    BY <2>1, <2>2, <1>1, <1>3, <1>4, EmptyQueues DEF Shape
<1>7. ASSUME NEW r \in Workers
      PROVE  /\ rx'[r].at = "off" /\ rx'[r].idx = 0 /\ rx'[r].out = << >> /\ rx'[r].last = FALSE
             /\ rx'[r].fly = "none" /\ ipc'[r].meta = << >> /\ ipc'[r].sent = FALSE
             /\ ipc'[r].clones = << >> /\ loaded'[r] = << >> /\ inbox'[r] = << >>
  BY <1>1 DEF FreshRx, FreshIpc
<1>8. ASSUME NEW r \in Workers
      PROVE  Passed(r)' = 0 /\ Pos(r)' = 0 /\ Got(r)' = 0 /\ Taken(r)' = 0
  <2>1. /\ Len(loaded'[r]) = 0 /\ Len(ipc'[r].clones) = 0 /\ Len(ipc'[r].meta) = 0
        /\ Len(rx'[r].out) = 0
    BY <1>7, EmptyQueues
  <2>2. Passed(r)' = Len(loaded'[r]) + Len(ipc'[r].clones) + Len(ipc'[r].meta)
    BY DEF Passed
  <2>3. Passed(r)' = 0
    BY <2>1, <2>2
  <2>4. Pos(r)' = 0
    BY <2>1, <2>3 DEF Pos
  <2>5. Got(r)' = Pos(r)' + 0
    BY <1>7 DEF Got
  <2>6. Taken(r)' = 0 + 0
    BY <1>7 DEF Taken
  <2> QED
    BY <2>3, <2>4, <2>5, <2>6
<1>9. Given(0)' = 0 /\ Sent(0)' = 0
  <2>1. Given(0)' = 1 - 1 - Len(tx'.meta) /\ Sent(0)' = 0 + 0
    BY <1>2 DEF Given, Sent
  <2>2. Len(tx'.meta) = 0
    BY <1>2, EmptyQueues
  <2> QED
    BY <2>1, <2>2
<1>10. ASSUME NEW q \in Workers PROVE Given(q - 1)' = 0 /\ Sent(q - 1)' = 0
  <2>1. CASE q = 1
    BY <2>1, <1>9, FirstRank
  <2>2. CASE q # 1
    <3> DEFINE s == q - 1
    <3>1. s \in Workers
      BY <2>2, FirstRank
    <3> HIDE DEF s
    <3>2. s > 0 /\ Pos(s)' = 0 /\ Taken(s)' = 0
      BY <3>1, <1>8, RankTypes
    <3>3. Given(s)' = 0 /\ Sent(s)' = 0
      BY <3>2 DEF Given, Sent
    <3> QED
      BY <3>3 DEF s
  <2> QED
    BY <2>1, <2>2
<1>11. TxOK'
  <2>1. Len(tx'.meta) = 0 /\ 1 <= N + 1 /\ 1 <= N /\ OffsetOf[1] = 0
    BY <1>2, FirstOffset, EmptyQueues, Sizing
  <2>3. Run(tx.meta, tx.next - 1 - Len(tx.meta))'
    BY <2>1, EmptyQueues DEF Run
  <2> QED
    BY <2>1, <2>3, <1>2, EmptyQueues DEF TxOK
<1>12. ASSUME NEW r \in Workers PROVE Local(r)'
  <2>1. ConsumerOK(r)'
    BY <1>7, EmptyQueues DEF ConsumerOK, ClonesOK, MetaOK
  <2>2. OutOK(r)'
    <3>1. Len(rx'[r].out) = 0 /\ Pos(r)' <= N
      <4>1. rx'[r].out = << >> /\ Pos(r)' = 0
        BY <1>7, <1>8
      <4>2. Len(rx'[r].out) = 0
        BY <4>1, EmptyQueues
      <4> QED
        BY <4>1, <4>2, Sizing
    <3>2. Run(rx[r].out, Passed(r))'
      BY <3>1, EmptyQueues DEF Run
    <3> QED
      BY <3>1, <3>2, EmptyQueues DEF OutOK
  <2>3. EndOK(r)'
    BY <1>7, <1>8 DEF EndOK
  <2> QED
    BY <2>1, <2>2, <2>3 DEF Local
<1>13. ASSUME NEW q \in Workers PROVE Links(q)'
  <2>1. NcclLink(q)'
    BY <1>1, <1>7, <1>8, <1>9 DEF NcclLink, Landed
  <2>2. NixlLink(q)'
    BY <1>1, <1>7, <1>8, <1>10 DEF NixlLink, Landed
  <2>3. MooncakeLink(q)'
    <3>1. /\ Len(inbox'[q]) = 0 /\ Sent(q - 1)' = 0 /\ Taken(q)' = 0 /\ rx'[q].idx = 0
          /\ Given(q - 1)' = 0 /\ Pos(q)' = 0
      BY <1>7, <1>8, <1>10, EmptyQueues
    <3>2. /\ Len(inbox'[q]) = Sent(q - 1)' - Taken(q)'
          /\ Sent(q - 1)' - rx'[q].idx <= (IF q = 1 /\ tx'.at = "fill" THEN 1 ELSE 2)
      BY <3>1
    <3>3. \A i : i \notin 1 .. Len(inbox'[q])
      BY <3>1, EmptyQueues
    <3> QED
      BY <3>1, <3>2, <3>3, <1>7 DEF MooncakeLink
  <2> QED
    BY <2>1, <2>2, <2>3 DEF Links
<1> QED
  BY <1>1, <1>5, <1>6, <1>11, <1>12, <1>13 DEF Moving

\* No tensor comes after the last.
LEMMA Beyond == ASSUME NEW n \in Nat, NEW k \in 1 .. n PROVE k # n + 1
  OBVIOUS

\* What is packed fits into a half.
LEMMA PackedFits == ASSUME Shape, TxOK PROVE tx.offset \in 0 .. BucketSize
<1> DEFINE m == Len(tx.meta)
           k == tx.next - 1
<1>1. m \in Nat /\ tx.next \in Nat /\ BucketSize \in Nat /\ (tx.meta # << >> <=> m > 0)
  BY TxTypes, NotEmpty, Sizing
<1>2. CASE tx.meta = << >>
  BY <1>1, <1>2 DEF TxOK
<1>3. CASE tx.meta # << >>
  <2>1. m > 0 /\ m < tx.next /\ tx.next <= N + 1 /\ tx.offset = OffsetOf[k] + Sizes[k]
    BY <1>1, <1>3 DEF TxOK
  <2> HIDE DEF m
  <2>2. k \in Tensors
    BY <2>1, <1>1, Sizing
  <2> HIDE DEF k
  <2>3. OffsetOf[k] \in Nat /\ OffsetOf[k] + Sizes[k] <= BucketSize /\ Sizes[k] \in Nat
    BY <2>2, OffsetFits, Sizing
  <2> QED
    BY <2>1, <2>3, <1>1
<1> QED
  BY <1>2, <1>3

\* An update ends when all that was sent has been read and loaded.
LEMMA UpdateReturnsStep == ASSUME Moving, UpdateReturns PROVE Resting'
<1>1. /\ Shape /\ Written /\ tx.at = "done" /\ \A r \in Workers : rx[r].at = "done"
      /\ stage' = "idle"
      /\ UNCHANGED <<engine, version, buf, tx, rx, inbox, unread, joined, ipc, loaded>>
  BY DEF Moving, UpdateReturns
<1>2. Shape' /\ Written'
  BY <1>1, WrittenFrame DEF Shape, TxShape, RxShape, IpcShape, BufShape
<1>5. tx.offset \in 0 .. BucketSize
  BY <1>1, PackedFits DEF Moving
<1>3. ASSUME NEW r \in Workers
      PROVE  /\ rx[r].fly = "none" /\ ~ipc[r].sent /\ ipc[r].meta = << >>
             /\ ipc[r].clones = << >> /\ Len(loaded[r]) = N /\ Pos(r) = N /\ Got(r) = N
  <2>1. /\ rx[r].fly = "none" /\ ~ipc[r].sent /\ ipc[r].meta = << >> /\ ipc[r].clones = << >>
        /\ rx[r].out = << >> /\ Pos(r) = N
    BY <1>1 DEF Moving, Local, EndOK
  <2>2. Len(loaded[r]) \in Nat /\ Pos(r) = Len(loaded[r]) + 0 + 0 + 0
    BY <2>1, <1>1, LengthTypes DEF Pos, Passed
  <2>3. Len(loaded[r]) = N
    BY <2>1, <2>2
  <2>4. Got(r) = N
    BY <2>1, Sizing DEF Got
  <2> QED
    BY <2>1, <2>3, <2>4
<1>4. ASSUME NEW r \in Workers PROVE inbox[r] = << >>
  <2> DEFINE b == inbox[r][1]
  <2> SUFFICES ASSUME inbox[r] # << >> PROVE FALSE
    OBVIOUS
  <2>1. b \in Buckets /\ 1 \in 1 .. Len(inbox[r])
    BY <1>1, QueueTypes, NotEmpty
  <2>2. BucketOK(b) /\ Start(b) = N + 1
    <3>1. Links(r) /\ Pos(r) = N /\ Got(r) = N
      BY <1>3 DEF Moving
    <3>2. CASE Broadcasts
      BY <3>1, <3>2 DEF Links, NcclLink, Takes, Offered
    <3>3. CASE Nixl
      BY <3>1, <3>3 DEF Links, NixlLink, Takes, Offered
    <3>4. CASE Mooncake
      BY <3>1, <3>4, <2>1 DEF Links, MooncakeLink, Offered
    <3> QED
      BY <3>2, <3>3, <3>4, <1>1, EngineKinds DEF Shape
  <2> HIDE DEF b
  <2>3. Start(b) \in 1 .. N /\ N \in Nat
    BY <2>1, <2>2, BucketRange, Sizing
  <2> QED
    BY <2>2, <2>3, Beyond
<1> QED
  BY <1>1, <1>2, <1>3, <1>4, <1>5 DEF Resting

\* Between updates nothing else can happen.
LEMMA RestingSteps == ASSUME Resting, Next PROVE UpdateWeights
<1>1. /\ tx.at \in {"off", "done"} /\ stage = "idle"
      /\ \A r \in Workers :
            /\ rx[r].at \in {"off", "done"} /\ rx[r].fly = "none" /\ inbox[r] = << >>
            /\ ~ipc[r].sent /\ ipc[r].meta = << >> /\ ipc[r].clones = << >>
  BY DEF Resting
<1>2. ~SenderStep
  BY <1>1 DEF SenderStep, Fill, NcclSender, NcclFlush, NcclLast, NcclSent, NixlSender, NixlFlush,
              NixlLast, NixlSent, MooncakeSender, MooncakeFlush, MooncakeFree, MooncakeLast,
              MooncakeSent, Flushing, Finishing, SenderDone
<1>3. ~UpdateReturns
  BY <1>1 DEF UpdateReturns
<1>4. ASSUME NEW r \in Workers PROVE ~ConsumerStep(r)
  BY <1>1 DEF ConsumerStep, StartReceiving, Yield, IpcSend, IpcClone, IpcLoad, WorkerDone,
              Yielding
<1>5. ASSUME NEW r \in Workers
      PROVE  ~NcclReceiver(r) /\ ~NixlReceiver(r) /\ ~MooncakeReceiver(r) /\ ~Subscribe(r)
  BY <1>1 DEF NcclReceiver, NcclDeliver, NcclSwap, NcclReceived, NixlReceiver, NixlBeginRead,
              NixlRead, NixlSwap, NixlReceived, MooncakeReceiver, MooncakeRead, MooncakeMark,
              Subscribe, Exhausted
<1> QED
  BY <1>2, <1>3, <1>4, <1>5 DEF Next, ManagerStep, ReceiverStep

\* A step that changes nothing.
LEMMA StutterStep ==
    ASSUME TransferInv, UNCHANGED transferVars PROVE TransferInv'
<1>1. UNCHANGED <<engine, stage, version, buf, tx, rx, inbox, unread, joined, ipc, loaded>>
  BY DEF transferVars
<1>2. ASSUME Shape PROVE Shape'
  BY <1>1, <1>2 DEF Shape, TxShape, RxShape, IpcShape, BufShape
<1>3. CASE Moving
  <2>1. Local(1)' /\ Pos(1)' = Pos(1) /\ 1 \in Workers
    BY <1>1, <1>3, FirstRank, LocalFrame, RankSame DEF Moving
  <2>2. Moving'
    BY <2>1, <1>1, <1>2, <1>3, ConsumerMoves DEF Moving
  <2> QED
    BY <2>2 DEF TransferInv
<1>4. CASE Resting
  <2>1. Shape' /\ Written'
    BY <1>1, <1>2, <1>4, WrittenFrame DEF Resting
  <2>2. Resting'
    BY <2>1, <1>1, <1>4 DEF Resting
  <2> QED
    BY <2>2 DEF TransferInv
<1> QED
  BY <1>3, <1>4 DEF TransferInv

\* Every step of rank 0.
LEMMA SenderKeeps == ASSUME Moving, SenderStep PROVE Moving'
<1>1. CASE Fill
  BY <1>1, FillStep
<1>2. CASE NcclSender
  <2>1. CASE NcclFlush
    BY <2>1, NcclFlushStep
  <2>2. CASE NcclLast
    BY <2>2, NcclLastStep
  <2>3. CASE NcclSent
    BY <2>3, SenderDoneStep DEF NcclSent
  <2> QED
    BY <1>2, <2>1, <2>2, <2>3 DEF NcclSender
<1>3. CASE NixlSender
  <2>1. CASE NixlFlush
    BY <2>1, NixlFlushStep
  <2>2. CASE NixlLast
    BY <2>2, NixlLastStep
  <2>3. CASE NixlSent
    BY <2>3, SenderDoneStep DEF NixlSent
  <2> QED
    BY <1>3, <2>1, <2>2, <2>3 DEF NixlSender
<1>4. CASE MooncakeSender
  <2>1. CASE MooncakeFlush
    BY <2>1, MooncakeFlushStep
  <2>2. CASE MooncakeLast
    BY <2>2, MooncakeLastStep
  <2>3. CASE MooncakeFree
    BY <2>3, MooncakeFreeStep
  <2>4. CASE MooncakeSent
    BY <2>4, SenderDoneStep DEF MooncakeSent
  <2> QED
    BY <1>4, <2>1, <2>2, <2>3, <2>4 DEF MooncakeSender
<1> QED
  BY <1>1, <1>2, <1>3, <1>4 DEF SenderStep

\* Every step of a worker.
LEMMA ReceiverKeeps == ASSUME Moving, NEW r \in Workers, ReceiverStep(r) PROVE Moving'
<1>1. CASE ConsumerStep(r)
  <2>1. CASE StartReceiving(r)
    BY <2>1, StartReceivingStep
  <2>2. CASE Yield(r)
    BY <2>2, YieldStep
  <2>3. CASE IpcSend(r)
    BY <2>3, IpcSendStep
  <2>4. CASE IpcClone(r)
    BY <2>4, IpcCloneStep
  <2>5. CASE IpcLoad(r)
    BY <2>5, IpcLoadStep
  <2>6. CASE WorkerDone(r)
    BY <2>6, WorkerDoneStep
  <2> QED
    BY <1>1, <2>1, <2>2, <2>3, <2>4, <2>5, <2>6 DEF ConsumerStep
<1>2. CASE NcclReceiver(r)
  <2>1. CASE NcclDeliver(r)
    BY <2>1, NcclDeliverStep
  <2>2. CASE NcclSwap(r)
    BY <2>2, NcclSwapStep
  <2>3. CASE NcclReceived(r)
    BY <2>3, NcclReceivedStep
  <2> QED
    BY <1>2, <2>1, <2>2, <2>3 DEF NcclReceiver
<1>3. CASE NixlReceiver(r)
  <2>1. CASE NixlBeginRead(r)
    BY <2>1, NixlBeginReadStep
  <2>2. CASE NixlRead(r)
    BY <2>2, NixlReadStep
  <2>3. CASE NixlSwap(r)
    BY <2>3, NixlSwapStep
  <2>4. CASE NixlReceived(r)
    BY <2>4, NixlReceivedStep
  <2> QED
    BY <1>3, <2>1, <2>2, <2>3, <2>4 DEF NixlReceiver
<1>4. CASE MooncakeReceiver(r)
  <2>1. CASE MooncakeRead(r)
    BY <2>1, MooncakeReadStep
  <2>2. CASE MooncakeMark(r)
    BY <2>2, MooncakeMarkStep
  <2> QED
    BY <1>4, <2>1, <2>2 DEF MooncakeReceiver
<1> QED
  BY <1>1, <1>2, <1>3, <1>4 DEF ReceiverStep

\* Every step keeps the invariant.
LEMMA TransferKeeps == ASSUME TransferInv, [Next]_transferVars PROVE TransferInv'
<1>1. CASE UNCHANGED transferVars
  BY <1>1, StutterStep
<1>2. CASE Moving /\ Next
  <2>1. CASE SenderStep
    BY <2>1, <1>2, SenderKeeps DEF TransferInv
  <2>2. CASE UpdateWeights
    BY <2>2, <1>2 DEF UpdateWeights, Moving
  <2>3. CASE UpdateReturns
    BY <2>3, <1>2, UpdateReturnsStep DEF TransferInv
  <2>4. CASE \E r \in Workers : ReceiverStep(r) \/ Subscribe(r)
    BY <2>4, <1>2, ReceiverKeeps, SubscribeStep DEF TransferInv
  <2> QED
    BY <1>2, <2>1, <2>2, <2>3, <2>4 DEF Next, ManagerStep
<1>3. CASE Resting /\ Next
  BY <1>3, RestingSteps, UpdateWeightsStep DEF TransferInv
<1> QED
  BY <1>1, <1>2, <1>3 DEF TransferInv

\* The invariant behind the weight transfer: while an update is under way, whatever the
\* engine, every bucket described to a rank lies whole in the half it was described in,
\* buckets follow each other without a gap, and what the workers have had is what was sent.
THEOREM TransferInvariant == Spec => []TransferInv
<1>1. TransferInit => TransferInv
  BY InitRests DEF TransferInv
<1>2. TransferInv /\ [Next]_transferVars => TransferInv'
  BY TransferKeeps
<1> QED
  BY <1>1, <1>2, PTL DEF Spec

\* The invariant has the types.
LEMMA TypesHold == ASSUME TransferInv PROVE TypeOK
<1>1. /\ Shape /\ Written /\ version \in Nat /\ version <= MaxUpdates
  BY DEF TransferInv, Moving, Resting, Shape
<1>2. version \in 0 .. MaxUpdates /\ DOMAIN buf = Ranks
  BY <1>1, Sizing DEF Shape, BufShape
<1>3. tx.offset \in 0 .. BucketSize /\ tx.at \in {"off", "fill", "wait", "await", "done"}
  BY <1>1, PackedFits, TxTypes DEF TransferInv, Moving, Resting
<1>4. ASSUME NEW r \in Workers PROVE Len(loaded[r]) <= N
  <2>1. CASE Moving
    <3> DEFINE a == Len(loaded[r])
               b == Len(ipc[r].clones)
               c == Len(ipc[r].meta)
               d == Len(rx[r].out)
    <3>1. a \in Nat /\ b \in Nat /\ c \in Nat /\ d \in Nat /\ N \in Nat
      BY <1>1, LengthTypes, Sizing
    <3>2. a + b + c + d <= N
      BY <2>1 DEF Moving, Local, OutOK, Pos, Passed
    <3> HIDE DEF a, b, c, d
    <3>3. a <= N
      BY <3>1, <3>2
    <3> QED
      BY <3>3 DEF a
  <2>2. CASE Resting
    BY <2>2, Sizing DEF Resting
  <2> QED
    BY <2>1, <2>2 DEF TransferInv
<1>5. \A r \in Ranks, h \in {0, 1} : \A i \in 0 .. BucketSize - 1 :
        buf[r][h][i] \in {Zero, Magic} \cup ((0 .. version) \X Tensors)
  BY <1>1 DEF Written
<1>6. \A r \in Workers :
        /\ rx[r].at \in RxAt /\ rx[r].fly \in {"none", "running", "done"}
        /\ ipc[r].offset \in 0 .. LoadSize
  BY <1>1, RxTypes, IpcTypes
<1>7. /\ engine \in Engines /\ stage \in {"idle", "transfer"}
      /\ unread \subseteq Workers /\ joined \subseteq Workers
  BY <1>1 DEF Shape
<1> QED
  BY <1>2, <1>3, <1>4, <1>5, <1>6, <1>7 DEF TypeOK, RxAt, N

\* Type correctness of the weight transfer: the values of the phases and flags, and no rank
\* ever holds a cell of a version that has not been sent.
THEOREM TransferTypes == Spec => []TypeOK
  BY TransferInvariant, TypesHold, PTL

-----------------------------------------------------------------------------
(* The stream of versions.                                                 *)

\* The parts of a concatenation.
LEMMA PrefixOf ==
    ASSUME NEW S, NEW s \in Seq(S), NEW t \in Seq(S)
    PROVE  /\ SubSeq(s \o t, 1, Len(s)) = s
           /\ \A i \in 1 .. Len(t) : (s \o t)[Len(s) + i] = t[i]
<1>1. /\ s \o t \in Seq(S) /\ Len(s \o t) = Len(s) + Len(t) /\ Len(s) \in Nat /\ Len(t) \in Nat
      /\ \A i \in 1 .. Len(s) : (s \o t)[i] = s[i]
  OBVIOUS
<1>2. \A i \in 1 .. Len(t) : (s \o t)[Len(s) + i] = t[i]
  OBVIOUS
<1>3. SubSeq(s \o t, 1, Len(s)) = s
  <2> DEFINE u == s \o t
  <2>1. u \in Seq(S) /\ Len(s) <= Len(u) /\ Len(u) \in Nat /\ \A i \in 1 .. Len(s) : u[i] = s[i]
    BY <1>1
  <2> HIDE DEF u
  <2>2. SubSeq(u, 1, Len(s)) \in Seq(S) /\ Len(SubSeq(u, 1, Len(s))) = Len(s)
    BY <2>1
  <2>3. \A i \in 1 .. Len(s) : SubSeq(u, 1, Len(s))[i] = s[i]
    BY <2>1
  <2> QED
    BY <2>2, <2>3 DEF u
<1> QED
  BY <1>2, <1>3

\* Which tensors are at risk depends on the engine.
LEMMA RaceSame == ASSUME UNCHANGED engine PROVE UNCHANGED MarkerRace
  BY DEF MarkerRace, Mooncake

\* What the engine does not vouch for is what the invariant does not.
LEMMA RaceUnsafe ==
    ASSUME NEW r \in Workers, NEW k \in Tensors, <<r, k>> \notin MarkerRace
    PROVE  Safe(r, k)
  BY DEF MarkerRace, Safe

\* Arithmetic of the tensors loaded next.
LEMMA Loading ==
    ASSUME NEW a \in Nat, NEW b \in Nat, NEW c \in Nat, NEW d \in Nat, NEW n \in Nat,
           a + b + c + d <= n, b > 0
    PROVE  b \in 1 .. n - a /\ \A i \in 1 .. b : a + i \in 1 .. n
  OBVIOUS

\* Loading a bucket of clones.
LEMMA LoadStep ==
    ASSUME Moving, NEW r \in Workers, IpcLoad(r) PROVE WS!LoadTensors(r)
<1> DEFINE s == loaded[r]
           t == ipc[r].clones
<1>1. /\ Shape /\ Local(r) /\ t # << >> /\ loaded' = [loaded EXCEPT ![r] = s \o t]
      /\ UNCHANGED <<engine, version>>
  BY DEF Moving, IpcLoad
<1>2. s \in Seq(Contained) /\ t \in Seq(Contained) /\ loaded \in [Workers -> Seq(Contained)]
  BY <1>1, QueueTypes, IpcTypes DEF Shape
<1>3. loaded'[r] = s \o t /\ \A q \in Workers \ {r} : loaded'[q] = loaded[q]
  BY <1>1, <1>2
<1>4. /\ Len(t) \in 1 .. Len(Sizes) - Len(s)
      /\ \A i \in 1 .. Len(t) : Len(s) + i \in Tensors
  <2> DEFINE a == Len(s)
             b == Len(t)
             c == Len(ipc[r].meta)
             d == Len(rx[r].out)
  <2>1. a \in Nat /\ b \in Nat /\ c \in Nat /\ d \in Nat /\ N \in Nat /\ b > 0
    BY <1>1, <1>2, LengthTypes, Sizing, NotEmpty
  <2>2. a + b + c + d <= N
    BY <1>1 DEF Local, OutOK, Pos, Passed
  <2> HIDE DEF a, b, c, d
  <2>3. b \in 1 .. N - a /\ \A i \in 1 .. b : a + i \in 1 .. N
    BY <2>1, <2>2, Loading
  <2> QED
    BY <2>3, Sizing DEF a, b, N
<1>5. ASSUME NEW i \in 1 .. Len(t)
      PROVE  /\ t[i][1] = Len(s) + i
             /\ <<r, Len(s) + i>> \notin MarkerRace => t[i] = WS!Tensor(Len(s) + i)
  <2>1. ClonesOK(r, Len(s), t)
    BY <1>1 DEF Local, ConsumerOK
  <2>2. Len(s) + i \in Tensors
    BY <1>4
  <2>3. t[i][1] = Len(s) + i /\ (Safe(r, Len(s) + i) => t[i] = WS!Tensor(Len(s) + i))
    BY <2>1 DEF ClonesOK
  <2> QED
    BY <2>2, <2>3, RaceUnsafe
<1> HIDE DEF s, t
<1>6. /\ SubSeq(s \o t, 1, Len(s)) = s /\ Len(s \o t) = Len(s) + Len(t)
      /\ \A i \in 1 .. Len(t) : (s \o t)[Len(s) + i] = t[i]
  BY <1>2, PrefixOf, Joined
<1>7. UNCHANGED MarkerRace
  BY <1>1, RaceSame
<1>8. LET k(i) == Len(loaded[r]) + i IN
      /\ Len(loaded'[r]) = Len(loaded[r]) + Len(t)
      /\ SubSeq(loaded'[r], 1, Len(loaded[r])) = loaded[r]
      /\ \A i \in 1 .. Len(t) :
            /\ loaded'[r][k(i)][1] = k(i)
            /\ <<r, k(i)>> \notin MarkerRace => loaded'[r][k(i)] = WS!Tensor(k(i))
  <2>1. Len(loaded'[r]) = Len(s) + Len(t) /\ SubSeq(loaded'[r], 1, Len(s)) = s
    BY <1>3, <1>6
  <2>2. ASSUME NEW i \in 1 .. Len(t)
        PROVE  /\ loaded'[r][Len(s) + i][1] = Len(s) + i
               /\ <<r, Len(s) + i>> \notin MarkerRace =>
                     loaded'[r][Len(s) + i] = WS!Tensor(Len(s) + i)
    <3>1. loaded'[r][Len(s) + i] = t[i]
      BY <1>3, <1>6
    <3> QED
      BY <3>1, <1>5
  <2> QED
    BY <2>1, <2>2 DEF s
<1> QED
  BY <1>1, <1>3, <1>4, <1>7, <1>8 DEF WS!LoadTensors, s

\* Every step of the transfer is one of the stream of versions, or changes nothing of it.
LEMMA StreamStep ==
    ASSUME TransferInv, [Next]_transferVars PROVE [WS!StreamNext]_(WS!streamVars)
<1>1. ASSUME UNCHANGED <<engine, version, loaded>> PROVE UNCHANGED WS!streamVars
  BY <1>1, RaceSame DEF WS!streamVars
<1>2. CASE UNCHANGED transferVars
  BY <1>1, <1>2 DEF transferVars
<1>3. CASE SenderStep
  <2>1. UNCHANGED <<engine, version, loaded>>
    BY <1>3 DEF SenderStep, Fill, NcclSender, NcclFlush, NcclLast, NcclSent, NixlSender,
                NixlFlush, NixlLast, NixlSent, MooncakeSender, MooncakeFlush, MooncakeFree,
                MooncakeLast, MooncakeSent
  <2> QED
    BY <1>1, <2>1
<1>4. CASE UpdateWeights
  <2>1. Resting
    BY <1>4 DEF TransferInv, Moving, UpdateWeights
  <2>2. WS!Complete
    BY <2>1 DEF Resting, WS!Complete, N
  <2>3. UNCHANGED MarkerRace
    BY <1>4, RaceSame DEF UpdateWeights
  <2> QED
    BY <1>4, <2>2, <2>3 DEF UpdateWeights, WS!StreamNext, WS!BeginUpdate
<1>5. CASE UpdateReturns
  BY <1>1, <1>5 DEF UpdateReturns
<1>6. ASSUME NEW r \in Workers, ReceiverStep(r) \/ Subscribe(r)
      PROVE  [WS!StreamNext]_(WS!streamVars)
  <2>1. CASE IpcLoad(r)
    <3>1. Moving
      BY <2>1 DEF TransferInv, Resting, IpcLoad
    <3> QED
      BY <2>1, <3>1, LoadStep DEF WS!StreamNext
  <2>2. CASE ConsumerStep(r) /\ ~IpcLoad(r)
    <3>1. UNCHANGED <<engine, version, loaded>>
      BY <2>2 DEF ConsumerStep, StartReceiving, Yield, IpcSend, IpcClone, WorkerDone
    <3> QED
      BY <1>1, <3>1
  <2>3. CASE NcclReceiver(r) \/ Subscribe(r)
    <3>1. UNCHANGED <<engine, version, loaded>>
      BY <2>3 DEF NcclReceiver, NcclDeliver, NcclSwap, NcclReceived, Subscribe
    <3> QED
      BY <1>1, <3>1
  <2>4. CASE NixlReceiver(r)
    <3>1. UNCHANGED <<engine, version, loaded>>
      BY <2>4 DEF NixlReceiver, NixlBeginRead, NixlRead, NixlSwap, NixlForward, NixlReceived
    <3> QED
      BY <1>1, <3>1
  <2>5. CASE MooncakeReceiver(r)
    <3>1. UNCHANGED <<engine, version, loaded>>
      BY <2>5 DEF MooncakeReceiver, MooncakeRead, ReadBucket, MooncakeMark
    <3> QED
      BY <1>1, <3>1
  <2> QED
    BY <1>6, <2>1, <2>2, <2>3, <2>4, <2>5 DEF ReceiverStep
<1> QED
  BY <1>2, <1>3, <1>4, <1>5, <1>6 DEF Next, ManagerStep

\* receive_weights yields each tensor of the update once, in order and untorn, and the next
\* update begins only after every worker has all of them: for every engine, any number of
\* receivers and tensors, and any sizes of the buffers.
THEOREM WeightStreamRefined == Spec => StreamRefined
<1>1. TransferInit => WS!StreamInit
  BY DEF TransferInit, WS!StreamInit, Tensors
<1>2. TransferInv /\ [Next]_transferVars => [WS!StreamNext]_(WS!streamVars)
  BY StreamStep
<1> QED
  BY <1>1, <1>2, TransferInvariant, PTL DEF Spec, StreamRefined, WS!StreamSpec

-----------------------------------------------------------------------------
(* Double buffering.                                                       *)

\* A half somebody wants is left alone.
Kept == \A r \in Ranks, h \in {0, 1} : Wanted(r, h) => buf'[r][h] = buf[r][h] \/ OnlyMarked(r, h)

\* A half nobody wants may be replaced.
LEMMA PutKeeps ==
    ASSUME Shape, NEW s \in Ranks, NEW g \in {0, 1}, NEW c, Put(s, g, c), ~Wanted(s, g)
    PROVE  Kept
<1>1. buf \in [Ranks -> [{0, 1} -> [0 .. BucketSize - 1 -> Cell]]]
  BY DEF Shape, BufShape
<1>2. \A q \in Ranks, i \in {0, 1} : q # s \/ i # g => buf'[q][i] = buf[q][i]
  BY <1>1 DEF Put
<1> QED
  BY <1>2 DEF Kept

\* Where what is described to a rank lies, unless in Mooncake's chain.
LEMMA DescribedIn ==
    ASSUME Moving, NEW q \in Workers, ~Mooncake, NEW h,
           \/ \E i \in DOMAIN inbox[q] : inbox[q][i].src = h
           \/ Nixl /\ rx[q].fly = "running" /\ rx[q].coming.src = h
    PROVE  h = Half(IF Broadcasts THEN 0 ELSE q - 1)
<1>1. Shape /\ Links(q)
  BY DEF Moving
<1>2. ASSUME Len(inbox[q]) = 1, NEW i \in DOMAIN inbox[q] PROVE inbox[q][i] = inbox[q][1]
  <2>1. inbox[q] \in Seq(Buckets)
    BY <1>1, QueueTypes
  <2>2. i \in 1 .. 1
    BY <2>1, <1>2
  <2>3. i = 1
    BY <2>2
  <2> QED
    BY <2>3
<1>3. ASSUME NEW i \in DOMAIN inbox[q] PROVE inbox[q] # << >>
  <2>1. DOMAIN << >> = 1 .. 0
    OBVIOUS
  <2> QED
    BY <2>1, <1>3
<1>4. CASE Broadcasts
  <2>1. ~Nixl /\ NcclLink(q)
    BY <1>1, <1>4, EngineKinds DEF Links, Shape
  <2>2. PICK i \in DOMAIN inbox[q] : inbox[q][i].src = h
    BY <2>1
  <2> QED
    BY <2>1, <2>2, <1>2, <1>3, <1>4 DEF NcclLink, Takes
<1>5. CASE Nixl
  <2>1. ~Broadcasts /\ NixlLink(q)
    BY <1>1, <1>5, EngineKinds DEF Links, Shape
  <2>2. CASE \E i \in DOMAIN inbox[q] : inbox[q][i].src = h
    BY <2>1, <2>2, <1>2, <1>3 DEF NixlLink, Takes
  <2>3. CASE rx[q].fly = "running" /\ rx[q].coming.src = h
    BY <2>1, <2>3 DEF NixlLink, Takes
  <2> QED
    BY <2>2, <2>3
<1> QED
  BY <1>1, <1>4, <1>5, EngineKinds DEF Shape

\* The half rank 0 fills is wanted by nobody.
LEMMA FillKeeps == ASSUME Moving, Fill PROVE Kept
<1> DEFINE g == Hand(tx.idx)
<1>1. Shape /\ tx.at = "fill"
  BY DEF Moving, Fill
<1>2. tx.idx \in Nat /\ g \in {0, 1} /\ Other(tx.idx) # g /\ 0 \in Ranks /\ 0 \notin Workers
  BY <1>1, TxTypes, Halving, RankTypes
<1>3. Half(0) = Other(tx.idx) /\ Sent(0) = tx.idx
  <2>1. Sent(0) = tx.idx + 0
    BY <1>1 DEF Sent
  <2> QED
    BY <2>1, <1>1, <1>2 DEF Half
<1>4. ASSUME Wanted(0, g) PROVE FALSE
  <2>1. PICK q \in Workers :
          /\ 0 = IF Broadcasts THEN 0 ELSE q - 1
          /\ \/ \E i \in DOMAIN inbox[q] : inbox[q][i].src = g
             \/ Nixl /\ rx[q].fly = "running" /\ rx[q].coming.src = g
    BY <1>2, <1>4 DEF Wanted
  <2>2. CASE ~Mooncake
    BY <2>1, <2>2, <1>2, <1>3, DescribedIn
  <2>3. CASE Mooncake
    <3>1. ~Broadcasts /\ ~Nixl
      BY <2>3 DEF Mooncake, Broadcasts, Nixl
    <3>2. q = 1
      <4>1. q \in Nat /\ 0 = q - 1
        BY <2>1, <3>1, RankTypes
      <4> QED
        BY <4>1
    <3>3. MooncakeLink(1) /\ Sent(1 - 1) - rx[1].idx <= 1 /\ Sent(1 - 1) = tx.idx
      BY <2>3, <1>1, <1>3, FirstRank DEF Moving, Links, MooncakeLink
    <3>4. \A i \in 1 .. Len(inbox[1]) : inbox[1][i].src # g
      BY <3>3, <1>1, FirstRank, Elsewhere
    <3>5. DOMAIN inbox[1] = 1 .. Len(inbox[1])
      BY <1>1, FirstRank, QueueTypes
    <3> QED
      BY <2>1, <3>1, <3>2, <3>4, <3>5
  <2> QED
    BY <2>2, <2>3
<1>5. \E c : Put(0, g, c)
  BY FillWrites
<1> QED
  BY <1>1, <1>2, <1>4, <1>5, PutKeeps

\* Nor is the half a broadcast is received in,
LEMMA DeliverKeeps == ASSUME Moving, NEW r \in Workers, NcclDeliver(r) PROVE Kept
<1> DEFINE g == Other(rx[r].idx)
<1>1. Shape /\ Broadcasts /\ Put(r, g, buf[0][Head(inbox[r]).src])
  BY DEF Moving, NcclDeliver, Put
<1>2. rx[r].idx \in Nat /\ r \in Ranks /\ r # 0
  BY <1>1, RxTypes, RankTypes
<1>3. g \in {0, 1} /\ Hand(rx[r].idx) # g
  BY <1>2, Halving
<1>4. ~Wanted(r, g)
  BY <1>1, <1>2, <1>3 DEF Wanted, Broadcasts, Nixl
<1> QED
  BY <1>1, <1>2, <1>3, <1>4, PutKeeps

\* nor the half a read of the chain goes to,
LEMMA NixlReadKeeps == ASSUME Moving, NEW r \in Workers, NixlRead(r) PROVE Kept
<1> DEFINE g == Other(rx[r].idx)
<1>1. Shape /\ Nixl /\ Put(r, g, buf[r - 1][rx[r].coming.src]) /\ ~Broadcasts /\ ~Mooncake
  BY DEF Moving, NixlRead, Put, Nixl, Broadcasts, Mooncake
<1>2. rx[r].idx \in Nat /\ r \in Ranks /\ r # 0 /\ r \in Nat /\ Half(r) = Hand(rx[r].idx)
  BY <1>1, RxTypes, RankTypes, RankGives
<1>3. g \in {0, 1} /\ Hand(rx[r].idx) # g
  BY <1>2, Halving
<1>4. ASSUME Wanted(r, g) PROVE FALSE
  <2>1. PICK q \in Workers :
          /\ r = q - 1
          /\ \/ \E i \in DOMAIN inbox[q] : inbox[q][i].src = g
             \/ Nixl /\ rx[q].fly = "running" /\ rx[q].coming.src = g
    BY <1>1, <1>3, <1>4 DEF Wanted
  <2>2. g = Half(q - 1)
    BY <2>1, <1>1, DescribedIn
  <2> QED
    BY <2>1, <2>2, <1>2, <1>3
<1> QED
  BY <1>1, <1>2, <1>3, <1>4, PutKeeps

\* nor the half a Mooncake rank copies to.
LEMMA MooncakeReadKeeps == ASSUME Moving, NEW r \in Workers, MooncakeRead(r) PROVE Kept
<1> DEFINE g == Hand(rx[r].idx)
           b == Head(inbox[r])
           c == CopyBucket(buf[r][g], buf[r - 1][b.src], b)
<1>1. /\ Shape /\ Mooncake /\ ~Broadcasts /\ ~Nixl /\ rx[r].at = "recv"
      /\ rx[r].idx >= 2 /\ r < Receivers => Marked(buf[r][g])
      /\ buf' = [buf EXCEPT ![r][g] = c]
  BY DEF Moving, MooncakeRead, ReadBucket, Mooncake, Broadcasts, Nixl
<1>2. rx[r].idx \in Nat /\ r \in Ranks /\ r # 0 /\ r \in Nat /\ g \in {0, 1}
  BY <1>1, RxTypes, RankTypes, Halving
<1>3. Put(r, g, c)
  BY <1>1 DEF Put
<1>4. ASSUME Wanted(r, g) PROVE FALSE
  <2>1. PICK q \in Workers : r = q - 1 /\ \E i \in DOMAIN inbox[q] : inbox[q][i].src = g
    BY <1>1, <1>4 DEF Wanted, Yielding
  <2>2. q = r + 1 /\ r < Receivers
    <3>1. q \in Nat
      BY RankTypes
    <3>2. q = r + 1
      BY <3>1, <2>1
    <3> QED
      BY <3>2, NextRank
  <2>3. MooncakeLink(r + 1) /\ r + 1 \in Workers
    BY <2>2, <1>1 DEF Moving, Links
  <2>4. \A i \in 1 .. Len(inbox[r + 1]) : inbox[r + 1][i].src # g
    BY <2>2, <2>3, <1>1, FreeToRead
  <2>5. DOMAIN inbox[r + 1] = 1 .. Len(inbox[r + 1])
    BY <2>3, <1>1, QueueTypes
  <2> QED
    BY <2>1, <2>2, <2>4, <2>5
<1> QED
  BY <1>1, <1>2, <1>3, <1>4, PutKeeps

\* The marker is written to one cell of the half that has been used up.
LEMMA MarkWrites ==
    ASSUME Moving, NEW r \in Workers, MooncakeMark(r), NEW g, g = Hand(rx[r].idx)
    PROVE  /\ \E c : Put(r - 1, g, c)
           /\ \A i \in 1 .. BucketSize - 1 : buf'[r - 1][g][i] = buf[r - 1][g][i]
<1>1. /\ Shape /\ Mooncake /\ rx[r].at = "yield"
      /\ buf' = [buf EXCEPT ![r - 1][rx[r].coming.src][0] = Magic]
  BY DEF Moving, MooncakeMark, Exhausted
<1>2. rx[r].coming.src = g
  BY <1>1 DEF Moving, Links, MooncakeLink
<1>3. rx[r].idx \in Nat /\ r - 1 \in Ranks /\ g \in {0, 1} /\ BucketSize \in Nat
  BY <1>1, RxTypes, RankTypes, Halving, Sizing
<1> DEFINE s == r - 1
<1>4. /\ s \in Ranks /\ buf \in [Ranks -> [{0, 1} -> [0 .. BucketSize - 1 -> Cell]]]
      /\ buf' = [buf EXCEPT ![s][g][0] = Magic]
  BY <1>1, <1>2, <1>3 DEF Shape, BufShape
<1> HIDE DEF s
<1>5. Put(s, g, [buf[s][g] EXCEPT ![0] = Magic])
  BY <1>3, <1>4 DEF Put
<1>6. buf'[s][g] = [buf[s][g] EXCEPT ![0] = Magic] /\ buf[s][g] \in [0 .. BucketSize - 1 -> Cell]
  BY <1>3, <1>4
<1>7. \A i \in 1 .. BucketSize - 1 : i \in 0 .. BucketSize - 1 /\ i # 0
  BY <1>3
<1>8. \A i \in 1 .. BucketSize - 1 : buf'[s][g][i] = buf[s][g][i]
  BY <1>6, <1>7
<1> QED
  BY <1>5, <1>8 DEF s

\* While Mooncake's first rank yields from a bucket, what rank 0 has sent after it lies in
\* the other half.
LEMMA SentBehind ==
    ASSUME Shape, NEW q \in Workers, MooncakeLink(q), rx[q].at = "yield"
    PROVE  \A i \in DOMAIN inbox[q] : inbox[q][i].src # Hand(rx[q].idx)
<1> DEFINE c == inbox[q]
           a == Sent(q - 1)
           j == rx[q].idx
           n == Len(c)
<1>1. c \in Seq(Buckets) /\ n \in Nat /\ a \in Nat /\ j \in Nat /\ DOMAIN c = 1 .. n
  <2>1. c \in Seq(Buckets) /\ j \in Nat /\ q - 1 \in Ranks
    BY QueueTypes, RxTypes, RankTypes
  <2> QED
    BY <2>1, SentTypes
<1>2. Taken(q) = j + 1
  BY <1>1 DEF Taken
<1>3. n = a - (j + 1) /\ a - j <= (IF q = 1 /\ tx.at = "fill" THEN 1 ELSE 2)
  BY <1>2 DEF MooncakeLink
<1> HIDE DEF c, a, j, n
<1>4. \A i \in 1 .. n : i = 1
  BY <1>1, <1>3, OneBehind
<1>5. j + 1 + 1 - 1 = j + 1 /\ Hand(j + 1) # Hand(j)
  BY <1>1, Halving
<1>6. ASSUME NEW i \in 1 .. n PROVE c[i].src # Hand(j)
  <2>1. c[i].src = Hand(Taken(q) + i - 1) /\ i = 1
    BY <1>4 DEF MooncakeLink, c, n
  <2> QED
    BY <2>1, <1>2, <1>5
<1> QED
  BY <1>1, <1>6 DEF c, j

\* A marker is written to a half that is used up.
LEMMA MarkKeeps == ASSUME Moving, NEW r \in Workers, MooncakeMark(r) PROVE Kept
<1> DEFINE g == Hand(rx[r].idx)
<1>1. Shape /\ Mooncake /\ ~Broadcasts /\ ~Nixl /\ rx[r].at = "yield"
  BY DEF Moving, MooncakeMark, Exhausted, Mooncake, Broadcasts, Nixl
<1>2. /\ rx[r].idx \in Nat /\ r - 1 \in Ranks /\ r \in Nat /\ r > 0 /\ r <= Receivers
      /\ g \in {0, 1} /\ Receivers \in Nat
  BY <1>1, RxTypes, RankTypes, Halving, Sizing
<1>3. /\ \E c : Put(r - 1, g, c)
      /\ \A i \in 1 .. BucketSize - 1 : buf'[r - 1][g][i] = buf[r - 1][g][i]
  BY MarkWrites
<1>4. CASE r = 1
  <2>1. ASSUME Wanted(r - 1, g) PROVE FALSE
    <3>1. PICK q \in Workers : r - 1 = q - 1 /\ \E i \in DOMAIN inbox[q] : inbox[q][i].src = g
      BY <2>1, <1>1, <1>4, FirstRank, RankTypes DEF Wanted
    <3>2. q = r
      <4>1. q \in Nat
        BY RankTypes
      <4> QED
        BY <4>1, <3>1, <1>2
    <3>3. MooncakeLink(r)
      BY <1>1 DEF Moving, Links
    <3> QED
      BY <3>1, <3>2, <3>3, <1>1, SentBehind
  <2> QED
    BY <2>1, <1>1, <1>2, <1>3, PutKeeps
<1>5. CASE r # 1
  <2>1. r - 1 \in 1 .. Receivers - 1
    BY <1>2, <1>5
  <2>2. OnlyMarked(r - 1, g)
    BY <2>1, <1>1, <1>3 DEF OnlyMarked
  <2> DEFINE s == r - 1
  <2>3. \A q \in Ranks, i \in {0, 1} : q # s \/ i # g => buf'[q][i] = buf[q][i]
    <3>1. buf \in [Ranks -> [{0, 1} -> [0 .. BucketSize - 1 -> Cell]]]
      BY <1>1 DEF Shape, BufShape
    <3>2. PICK c : Put(s, g, c)
      BY <1>3
    <3> HIDE DEF s
    <3> QED
      BY <3>1, <3>2 DEF Put
  <2> QED
    BY <2>2, <2>3 DEF Kept
<1> QED
  BY <1>4, <1>5

\* Between updates no half is wanted.
LEMMA UpdateKeeps == ASSUME Resting, UpdateWeights PROVE Kept
<1>1. \A r \in Workers : rx[r].at # "yield" /\ rx[r].fly # "running" /\ inbox[r] = << >>
  BY DEF Resting
<1>2. DOMAIN << >> = 1 .. 0 /\ \A i : i \notin 1 .. 0
  OBVIOUS
<1> QED
  BY <1>1, <1>2 DEF Kept, Wanted, Yielding

\* No step overwrites what is wanted.
LEMMA StepKeeps == ASSUME TransferInv, Next PROVE Kept
<1>1. ASSUME UNCHANGED buf PROVE Kept
  BY <1>1 DEF Kept
<1>2. CASE SenderStep
  <2>1. Moving
    <3>1. tx.at \notin {"off", "done"}
      BY <1>2 DEF SenderStep, Fill, NcclSender, NcclFlush, NcclLast, NcclSent, NixlSender,
                  NixlFlush, NixlLast, NixlSent, MooncakeSender, MooncakeFlush, MooncakeFree,
                  MooncakeLast, MooncakeSent, Flushing, Finishing, SenderDone
    <3> QED
      BY <3>1 DEF TransferInv, Resting
  <2>2. CASE Fill
    BY <2>1, <2>2, FillKeeps
  <2>3. CASE ~Fill
    <3>1. UNCHANGED buf
      BY <1>2, <2>3 DEF SenderStep, NcclSender, NcclFlush, NcclLast, NcclSent, NixlSender,
                NixlFlush, NixlLast, NixlSent, MooncakeSender, MooncakeFlush, MooncakeFree,
                MooncakeLast, MooncakeSent
    <3> QED
      BY <3>1, <1>1
  <2> QED
    BY <2>2, <2>3
<1>3. CASE UpdateWeights
  <2>1. Resting
    BY <1>3 DEF TransferInv, Moving, UpdateWeights
  <2> QED
    BY <2>1, <1>3, UpdateKeeps
<1>4. CASE UpdateReturns
  BY <1>1, <1>4 DEF UpdateReturns
<1>5. ASSUME NEW r \in Workers, ReceiverStep(r) \/ Subscribe(r) PROVE Kept
  <2>1. Moving
    <3>1. ~UpdateWeights
      BY <1>5 DEF ReceiverStep, ConsumerStep, StartReceiving, Yield, IpcSend, IpcClone, IpcLoad,
                  WorkerDone, NcclReceiver, NcclDeliver, NcclSwap, NcclReceived, NixlReceiver,
                  NixlBeginRead, NixlRead, NixlSwap, NixlForward, NixlReceived,
                  MooncakeReceiver, MooncakeRead, ReadBucket, MooncakeMark, Subscribe,
                  UpdateWeights
    <3> QED
      BY <3>1, <1>5, RestingSteps DEF TransferInv, Next
  <2>2. CASE ConsumerStep(r)
    <3>1. UNCHANGED buf
      BY <2>2 DEF ConsumerStep, StartReceiving, Yield, IpcSend, IpcClone, IpcLoad, WorkerDone
    <3> QED
      BY <1>1, <3>1
  <2>3. CASE NcclReceiver(r) \/ Subscribe(r)
    <3>1. NcclDeliver(r) \/ UNCHANGED buf
      BY <2>3 DEF NcclReceiver, NcclSwap, NcclReceived, Subscribe
    <3> QED
      BY <1>1, <2>1, <3>1, DeliverKeeps
  <2>4. CASE NixlReceiver(r)
    <3>1. NixlRead(r) \/ UNCHANGED buf
      BY <2>4 DEF NixlReceiver, NixlBeginRead, NixlSwap, NixlForward, NixlReceived
    <3> QED
      BY <1>1, <2>1, <3>1, NixlReadKeeps
  <2>5. CASE MooncakeReceiver(r)
    BY <2>1, <2>5, MooncakeReadKeeps, MarkKeeps DEF MooncakeReceiver
  <2> QED
    BY <1>5, <2>2, <2>3, <2>4, <2>5 DEF ReceiverStep
<1> QED
  BY <1>2, <1>3, <1>4, <1>5 DEF Next, ManagerStep

\* Double buffering is safe: no step writes to a half that somebody still wants, but for
\* Mooncake's marker on a middle rank, which is one cell.
THEOREM DoubleBuffering == Spec => NoOverwriteInUse
<1>1. ASSUME TransferInv, [Next]_transferVars
      PROVE  [\A r \in Ranks, h \in {0, 1} :
                 Wanted(r, h) => buf'[r][h] = buf[r][h] \/ OnlyMarked(r, h)]_transferVars
  BY <1>1, StepKeeps DEF Kept
<1> QED
  BY <1>1, TransferInvariant, PTL DEF Spec, NoOverwriteInUse
=============================================================================
