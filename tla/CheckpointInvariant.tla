------------------------ MODULE CheckpointInvariant -------------------------
(***************************************************************************)
(* The inductive invariant behind the weight transfer, for every checkpoint *)
(* engine, and the steps of the consumer that keep it.  It says, of every   *)
(* bucket that has been described to a rank and not been used up, that the  *)
(* half it was described in still holds all of it, and it counts: what a    *)
(* worker has loaded, what it has in its IPC buffer and in hand, what has   *)
(* come in, what is on its way, and what the rank before it has given.      *)
(***************************************************************************)
EXTENDS CheckpointEngine, WellFoundedInduction, TLAPS

N == Len(Sizes)

\* The constants, as the proofs use them.
LEMMA Sizing ==
    /\ N \in Nat /\ N > 0 /\ Tensors = 1 .. N /\ Receivers \in Nat /\ Receivers > 0
    /\ MaxUpdates \in Nat /\ BucketSize \in Nat /\ LoadSize \in Nat
    /\ \A k \in Tensors : /\ Sizes[k] \in Nat /\ Sizes[k] > 0
                          /\ Sizes[k] <= BucketSize /\ Sizes[k] <= LoadSize
  BY TransferAssumption DEF N, Tensors

\* The order of the numbers as a relation.
LEMMA LessThan == OpToRel(<, Nat) = {ss \in Nat \X Nat : ss[1] < ss[2]}
BY DEF OpToRel

\* A set of numbers has a least one.
LEMMA LeastNumber ==
    ASSUME NEW U \in SUBSET Nat, U # {}
    PROVE  \E m \in U : \A u \in U : ~(u < m)
<1> DEFINE R == {ss \in Nat \X Nat : ss[1] < ss[2]}
<1>1. IsWellFoundedOn(R, Nat)
  BY NatLessThanWellFounded, LessThan
<1> HIDE DEF R
<1>2. PICK m \in U : \A u \in U : <<u, m>> \notin R
  BY <1>1, WFMin, Zenon
<1>3. \A u \in U : ~(u < m)
  BY <1>2 DEF R
<1> QED
  BY <1>3

\* Where the tensor behind one at offset o and of size s goes, if it is of size t.
Behind(o, s, t) == IF o + s + t > BucketSize THEN 0 ELSE o + s
Greedy(f, k) == IF k = 1 THEN 0 ELSE Behind(f[k - 1], Sizes[k - 1], Sizes[k])

\* The recursion of OffsetOf has a solution: there is none only if there is a least number
\* of tensors for which there is none.
LEMMA PackingExists == \E f \in [Tensors -> Nat] : \A k \in Tensors : f[k] = Greedy(f, k)
<1> DEFINE Up(n) == \E f \in [Tensors -> Nat] :
                        \A k \in Tensors : k <= n => f[k] = Greedy(f, k)
           U == {n \in Nat : ~Up(n)}
<1>1. Up(0)
  <2>1. [k \in Tensors |-> 0] \in [Tensors -> Nat]
    OBVIOUS
  <2>2. \A k \in Tensors : ~(k <= 0)
    BY Sizing
  <2> QED
    BY <2>1, <2>2
<1>2. ASSUME NEW n \in Nat, Up(n) PROVE Up(n + 1)
  <2>1. PICK f \in [Tensors -> Nat] : \A k \in Tensors : k <= n => f[k] = Greedy(f, k)
    BY <1>2
  <2>2. CASE n + 1 \notin Tensors
    <3>1. \A k \in Tensors : k <= n + 1 => k <= n
      BY <2>2, Sizing
    <3> QED
      BY <2>1, <3>1
  <2>3. CASE n + 1 \in Tensors
    <3> DEFINE g == [f EXCEPT ![n + 1] = Greedy(f, n + 1)]
    <3>1. Greedy(f, n + 1) \in Nat
      <4>1. CASE n = 0
        BY <4>1 DEF Greedy
      <4>2. CASE n # 0
        <5>1. n \in Tensors /\ n + 1 - 1 = n
          BY <2>3, <4>2, Sizing
        <5>2. f[n] \in Nat /\ Sizes[n] \in Nat
          BY <5>1, Sizing
        <5> QED
          BY <5>1, <5>2, <4>2 DEF Greedy, Behind
      <4> QED
        BY <4>1, <4>2
    <3>2. g \in [Tensors -> Nat]
      BY <3>1
    <3>3. ASSUME NEW k \in Tensors, k <= n + 1 PROVE g[k] = Greedy(g, k)
      <4>1. k \in Nat /\ (k # 1 => k - 1 \in Tensors /\ k - 1 # n + 1)
        BY <3>3, Sizing
      <4>2. Greedy(g, k) = Greedy(f, k)
        <5>1. k # 1 => g[k - 1] = f[k - 1]
          BY <4>1
        <5> QED
          BY <5>1 DEF Greedy
      <4>3. CASE k = n + 1
        BY <4>2, <4>3, <2>3
      <4>4. CASE k # n + 1
        <5>1. k <= n /\ g[k] = f[k]
          BY <4>4, <4>1, <3>3
        <5> QED
          BY <5>1, <4>2, <2>1
      <4> QED
        BY <4>3, <4>4
    <3> HIDE DEF g
    <3> QED
      BY <3>2, <3>3
  <2> QED
    BY <2>2, <2>3
<1> HIDE DEF Up
<1>3. U = {}
  <2> SUFFICES ASSUME U # {} PROVE FALSE
    OBVIOUS
  <2>2. U \subseteq Nat
    OBVIOUS
  <2> HIDE DEF U
  <2>3. PICK m \in U : \A u \in U : ~(u < m)
    BY <2>2, LeastNumber
  <2>5. m \in Nat /\ ~Up(m)
    BY <2>3 DEF U
  <2>6. m # 0 /\ m - 1 \in Nat
    BY <1>1, <2>5
  <2>7. m - 1 \notin U
    BY <2>3, <2>6, <2>5
  <2>8. Up(m - 1)
    BY <2>7, <2>6 DEF U
  <2>9. Up((m - 1) + 1)
    BY <2>8, <2>6, <1>2
  <2>10. (m - 1) + 1 = m
    BY <2>5
  <2> QED
    BY <2>9, <2>10, <2>5
<1>4. Up(N)
  BY <1>3, Sizing
<1>5. PICK f \in [Tensors -> Nat] : \A k \in Tensors : k <= N => f[k] = Greedy(f, k)
  BY <1>4 DEF Up
<1>6. \A k \in Tensors : k <= N
  BY Sizing
<1> QED
  BY <1>5, <1>6

\* OffsetOf is what its recursion says.
LEMMA OffsetUnfolds == \A k \in Tensors : OffsetOf[k] = Greedy(OffsetOf, k)
<1> DEFINE Rhs(f) == [k \in Tensors |->
                         IF k = 1 THEN 0
                         ELSE LET end == f[k - 1] + Sizes[k - 1]
                              IN  IF end + Sizes[k] > BucketSize THEN 0 ELSE end]
<1>1. PICK f \in [Tensors -> Nat] : \A k \in Tensors : f[k] = Greedy(f, k)
  BY PackingExists
<1>2. f = Rhs(f)
  BY <1>1 DEF Greedy, Behind
<1>3. OffsetOf = CHOOSE g : g = Rhs(g)
  BY DEF OffsetOf
<1>4. OffsetOf = Rhs(OffsetOf)
  <2> HIDE DEF Rhs
  <2> QED
    BY <1>2, <1>3
<1>5. \A k \in Tensors : OffsetOf[k] = Rhs(OffsetOf)[k]
  BY <1>4
<1> QED
  BY <1>5 DEF Greedy, Behind

\* Every tensor lies within a half.
LEMMA OffsetFits ==
    \A k \in Tensors : OffsetOf[k] \in Nat /\ OffsetOf[k] + Sizes[k] <= BucketSize
<1> DEFINE U == {k \in Tensors : OffsetOf[k] \notin Nat}
<1>1. U = {}
  <2> SUFFICES ASSUME U # {} PROVE FALSE
    OBVIOUS
  <2>2. U \subseteq Nat
    BY Sizing
  <2> HIDE DEF U
  <2>3. PICK m \in U : \A u \in U : ~(u < m)
    BY <2>2, LeastNumber
  <2>5. m \in Tensors /\ m \in Nat /\ OffsetOf[m] \notin Nat
    BY <2>2, <2>3 DEF U
  <2>6. OffsetOf[m] = Greedy(OffsetOf, m)
    BY <2>5, OffsetUnfolds
  <2>7. m # 1 /\ m - 1 \in Tensors
    <3>1. m # 1
      BY <2>5, <2>6 DEF Greedy
    <3> QED
      BY <3>1, <2>5, Sizing
  <2>8. m - 1 \notin U
    BY <2>3, <2>5, <2>7
  <2>9. OffsetOf[m - 1] \in Nat /\ Sizes[m - 1] \in Nat
    BY <2>8, <2>7, Sizing DEF U
  <2> QED
    BY <2>5, <2>6, <2>7, <2>9 DEF Greedy, Behind
<1>2. ASSUME NEW k \in Tensors PROVE OffsetOf[k] \in Nat /\ OffsetOf[k] + Sizes[k] <= BucketSize
  <2>1. OffsetOf[k] \in Nat /\ Sizes[k] \in Nat /\ Sizes[k] <= BucketSize
    BY <1>1, Sizing
  <2>2. OffsetOf[k] = Greedy(OffsetOf, k)
    BY OffsetUnfolds
  <2>3. CASE k = 1
    BY <2>1, <2>2, <2>3 DEF Greedy
  <2>4. CASE k # 1
    <3>1. k - 1 \in Tensors
      BY <2>4, Sizing
    <3>2. OffsetOf[k - 1] \in Nat /\ Sizes[k - 1] \in Nat
      BY <3>1, <1>1, Sizing
    <3> QED
      BY <2>1, <2>2, <2>4, <3>2, Sizing DEF Greedy, Behind
  <2> QED
    BY <2>3, <2>4
<1> QED
  BY <1>2

-----------------------------------------------------------------------------
(* The invariant.                                                          *)

\* A tensor where greedy packing puts it, and tensors that follow the first n there.
Slot(k) == At(k, OffsetOf[k])
Run(seq, n) == \A i \in 1 .. Len(seq) : seq[i] = Slot(n + i)

\* A half holds all of tensor k of the version under way.
Intact(half, k) == \A c \in CellsOf(Slot(k)) : half[c] = <<version, k>>

\* The tensors worker r may count on.
Safe(r, k) == Mooncake /\ r < Receivers => OffsetOf[k] # 0

Cell == Nat \X Int
Places == [w : Tensors, offset : Nat]
Buckets == [out : Seq(Places), last : BOOLEAN, src : {0, 1}]
Contained == Tensors \X SUBSET Cell
RxAt == {"off", "recv", "yield", "ended", "last_sent", "done"}

TxShape == tx \in [at : {"off", "fill", "wait", "await", "done"}, idx : Nat, next : Nat,
                   offset : Nat, meta : Seq(Places)]
RxShape == rx \in [Workers -> [at : RxAt, idx : Nat, out : Seq(Places), last : BOOLEAN,
                               fly : {"none", "running", "done"}, coming : Buckets]]
IpcShape == ipc \in [Workers -> [buf : [0 .. LoadSize - 1 -> Cell], offset : 0 .. LoadSize,
                                 meta : Seq(Places), sent : BOOLEAN, clones : Seq(Contained)]]
BufShape == buf \in [Ranks -> [{0, 1} -> [0 .. BucketSize - 1 -> Cell]]]
Shape ==
    /\ TxShape /\ RxShape /\ IpcShape /\ BufShape
    /\ engine \in Engines /\ version \in Nat /\ version <= MaxUpdates
    /\ stage \in {"idle", "transfer"}
    /\ inbox \in [Workers -> Seq(Buckets)] /\ loaded \in [Workers -> Seq(Contained)]
    /\ unread \subseteq Workers /\ joined \subseteq Workers

\* No cell is of a version to come.
Written ==
    \A r \in Ranks, h \in {0, 1} : \A i \in 0 .. BucketSize - 1 :
        buf[r][h][i] \in {Zero, Magic} \cup ((0 .. version) \X Tensors)

\* How many tensors the consumer of rank r has had; those and what the rank has in hand;
\* those and what has come in.
Passed(r) == Len(loaded[r]) + Len(ipc[r].clones) + Len(ipc[r].meta)
Pos(r) == Passed(r) + Len(rx[r].out)
Got(r) == Pos(r) + (IF rx[r].fly = "done" THEN Len(rx[r].coming.out) ELSE 0)

\* Tensors that follow the first n, as they were sent.
ClonesOK(r, n, c) ==
    \A i \in 1 .. Len(c) : c[i][1] = n + i /\ (Safe(r, n + i) => c[i] = WS!Tensor(n + i))
MetaOK(r, n, p) ==
    \A i \in 1 .. Len(p.meta) :
        /\ p.meta[i].w = n + i /\ p.meta[i].offset + Sizes[n + i] <= p.offset
        /\ Safe(r, n + i) => \A c \in CellsOf(p.meta[i]) : p.buf[c] = <<version, n + i>>
ConsumerOK(r) ==
    /\ ClonesOK(r, 0, loaded[r])
    /\ ClonesOK(r, Len(loaded[r]), ipc[r].clones)
    /\ MetaOK(r, Len(loaded[r]) + Len(ipc[r].clones), ipc[r])

\* What rank r has in hand follows that, and lies in the half in hand.
OutOK(r) ==
    /\ Run(rx[r].out, Passed(r)) /\ Pos(r) <= N
    /\ \A i \in 1 .. Len(rx[r].out) :
          Safe(r, Passed(r) + i) => Intact(buf[r][Hand(rx[r].idx)], Passed(r) + i)

\* Where the generator and its consumer are.
EndOK(r) ==
    LET x == rx[r]
        p == ipc[r]
    IN  /\ x.last => Pos(r) = N /\ x.fly = "none" /\ x.at \notin {"off", "recv"}
        /\ x.at \in {"ended", "last_sent", "done"} => x.last /\ x.out = << >>
        /\ x.at = "last_sent" /\ ~p.sent => p.meta = << >>
        /\ x.at = "done" => p.meta = << >> /\ p.clones = << >> /\ ~p.sent
        /\ x.at = "off" => x.idx = 0 /\ x.fly = "none" /\ x.out = << >> /\ ~p.sent
        /\ x.at = "recv" /\ ~Nixl => x.out = << >>
        /\ x.fly # "none" /\ Nixl => x.at = "yield"

Local(r) == ConsumerOK(r) /\ OutOK(r) /\ EndOK(r)

\* Rank 0 packs the tensors that follow those it has sent into the half in hand.
TxOK ==
    LET m == Len(tx.meta) IN
    /\ tx.at # "off" /\ (tx.at = "wait" => Mooncake /\ tx.meta = << >>)
    /\ tx.next <= N + 1 /\ m < tx.next /\ Run(tx.meta, tx.next - 1 - m)
    /\ tx.meta = << >> => tx.offset = 0 /\ tx.next <= N /\ OffsetOf[tx.next] = 0
    /\ tx.meta # << >> => /\ tx.offset = OffsetOf[tx.next - 1] + Sizes[tx.next - 1]
                          /\ OffsetOf[tx.next - m] = 0
    /\ \A i \in 1 .. m :
          LET k == tx.next - 1 - m + i IN
          /\ OffsetOf[k] + Sizes[k] <= tx.offset
          /\ tx.at = "fill" => Intact(buf[0][Hand(tx.idx)], k)
    /\ tx.at \in {"await", "done"} => tx.next = N + 1

\* A bucket on its way: tensors Start to End, packed from the beginning of a half.
Start(b) == b.out[1].w
End(b) == Start(b) + Len(b.out) - 1
BucketOK(b) ==
    /\ b.out # << >> /\ Run(b.out, Start(b) - 1) /\ OffsetOf[Start(b)] = 0
    /\ End(b) <= N /\ (b.last => End(b) = N)
Offered(b, half) == BucketOK(b) /\ \A k \in Start(b) .. End(b) : Intact(half, k)

\* How many tensors rank s has offered to the ranks that read from it, and the half that
\* holds the last of them.
Given(s) == IF s > 0 THEN Pos(s)
            ELSE IF tx.at \in {"await", "done"} THEN N ELSE tx.next - 1 - Len(tx.meta)
Half(s) == IF s > 0 THEN Hand(rx[s].idx)
           ELSE IF tx.at \in {"await", "done"} THEN Hand(tx.idx) ELSE Other(tx.idx)

\* What rank q will read from rank s is the last that rank s offered.
Takes(q, s, b) ==
    /\ Offered(b, buf[s][b.src]) /\ b.src = Half(s)
    /\ Start(b) = Got(q) + 1 /\ End(b) = Given(s)

\* What has come in lies in the half that is not in hand.
Landed(q) ==
    rx[q].fly = "done" => /\ Offered(rx[q].coming, buf[q][Other(rx[q].idx)])
                          /\ Start(rx[q].coming) = Pos(q) + 1

NcclLink(q) ==
    /\ Landed(q)
    /\ inbox[q] # << >> => q \in unread /\ Len(inbox[q]) = 1 /\ Takes(q, 0, inbox[q][1])
    /\ q \notin unread => Got(q) = Given(0)

NixlLink(q) ==
    /\ Landed(q)
    /\ inbox[q] # << >> => /\ Len(inbox[q]) = 1 /\ rx[q].fly # "running"
                           /\ Takes(q, q - 1, inbox[q][1])
    /\ rx[q].fly = "running" => Takes(q, q - 1, rx[q].coming)
    /\ q \in unread <=> inbox[q] # << >> \/ rx[q].fly = "running"
    /\ q \notin unread => Got(q) = Given(q - 1)

\* Buckets rank s has read, or sent.
Taken(s) == rx[s].idx + (IF rx[s].at = "yield" THEN 1 ELSE 0)
Sent(s) == IF s > 0 THEN Taken(s)
           ELSE tx.idx + (IF tx.at \in {"await", "done"} THEN 1 ELSE 0)

\* Mooncake's ranks are at most two buckets apart, and a half is marked only when the
\* next rank has used it up.
MooncakeLink(q) ==
    /\ rx[q].fly = "none"
    /\ Len(inbox[q]) = Sent(q - 1) - Taken(q)
    /\ Sent(q - 1) - rx[q].idx <= (IF q = 1 /\ tx.at = "fill" THEN 1 ELSE 2)
    /\ \A i \in 1 .. Len(inbox[q]) :
          /\ inbox[q][i].src = Hand(Taken(q) + i - 1)
          /\ Offered(inbox[q][i], buf[q - 1][inbox[q][i].src])
          /\ i > 1 => Start(inbox[q][i]) = End(inbox[q][i - 1]) + 1
    /\ inbox[q] = << >> => Pos(q) = Given(q - 1)
    /\ inbox[q] # << >> => /\ Start(inbox[q][1]) = Pos(q) + 1
                           /\ End(inbox[q][Len(inbox[q])]) = Given(q - 1)
    /\ rx[q].at = "yield" => /\ rx[q].coming.src = Hand(rx[q].idx)
                             /\ ~Marked(buf[q - 1][rx[q].coming.src])

Links(q) ==
    /\ Broadcasts => NcclLink(q)
    /\ Nixl => NixlLink(q)
    /\ Mooncake => MooncakeLink(q)

\* During an update.
Moving ==
    /\ stage = "transfer" /\ Shape /\ Written /\ TxOK
    /\ \A r \in Workers : Local(r) /\ Links(r)

\* Between updates nothing is on its way and every worker has the whole model.
Resting ==
    /\ stage = "idle" /\ Shape /\ Written
    /\ tx.at \in {"off", "done"} /\ tx.offset \in 0 .. BucketSize
    /\ \A r \in Workers :
          /\ rx[r].at \in {"off", "done"} /\ rx[r].fly = "none" /\ inbox[r] = << >>
          /\ ~ipc[r].sent /\ ipc[r].meta = << >> /\ ipc[r].clones = << >>
          /\ Len(loaded[r]) = N

TransferInv == Moving \/ Resting
-----------------------------------------------------------------------------
(* Its parts, and what leaves them alone.                                  *)

\* The engines are of three kinds.
LEMMA EngineKinds ==
    ASSUME engine \in Engines
    PROVE  /\ Broadcasts \/ Nixl \/ Mooncake
           /\ ~(Broadcasts /\ Nixl) /\ ~(Broadcasts /\ Mooncake) /\ ~(Nixl /\ Mooncake)
<1>1. engine \in {"nccl", "hccl", "nixl", "mooncake"}
  BY TransferAssumption
<1> QED
  BY <1>1 DEF Broadcasts, Nixl, Mooncake

\* The two halves alternate.
LEMMA Halving ==
    ASSUME NEW i \in Nat
    PROVE  /\ Hand(i) \in {0, 1} /\ Other(i) \in {0, 1} /\ Hand(i) # Other(i)
           /\ Hand(i + 1) = Other(i) /\ Other(i + 1) = Hand(i) /\ Hand(i + 2) = Hand(i)
  BY DEF Hand, Other

\* The cells of a tensor in a half.
LEMMA SlotCells ==
    ASSUME NEW k \in Tensors
    PROVE  /\ Slot(k) \in Places /\ Slot(k).w = k /\ Slot(k).offset = OffsetOf[k]
           /\ CellsOf(Slot(k)) = OffsetOf[k] .. OffsetOf[k] + Sizes[k] - 1
           /\ CellsOf(Slot(k)) \subseteq 0 .. BucketSize - 1 /\ OffsetOf[k] \in CellsOf(Slot(k))
<1>1. /\ OffsetOf[k] \in Nat /\ OffsetOf[k] + Sizes[k] <= BucketSize /\ Sizes[k] \in Nat
      /\ Sizes[k] > 0 /\ BucketSize \in Nat
  BY OffsetFits, Sizing
<1>2. Slot(k) = [w |-> k, offset |-> OffsetOf[k]]
  BY DEF Slot, At
<1>3. CellsOf(Slot(k)) = OffsetOf[k] .. OffsetOf[k] + Sizes[k] - 1
  BY <1>2 DEF CellsOf
<1> QED
  BY <1>1, <1>2, <1>3 DEF Places

\* A cell of a tensor that ends by n is below n.
LEMMA CellWithin ==
    ASSUME NEW o \in Nat, NEW s \in Nat, NEW n \in Nat, o + s <= n, NEW c \in o .. o + s - 1
    PROVE  c \in 0 .. n - 1 /\ c - o \in 0 .. s - 1
  OBVIOUS

\* Copying a tensor to place u of a buffer of n cells.
Copied(n, b, u, cells) ==
    /\ Write(b, u, cells) \in [0 .. n - 1 -> Cell]
    /\ \A c \in CellsOf(u) : c \in 0 .. n - 1 /\ c - u.offset \in 0 .. Sizes[u.w] - 1
                             /\ Write(b, u, cells)[c] = cells[c - u.offset]
    /\ \A c \in (0 .. n - 1) \ CellsOf(u) : Write(b, u, cells)[c] = b[c]

\* Writing a tensor into a buffer changes that tensor's cells.
LEMMA WriteCells ==
    ASSUME NEW n \in Nat, NEW b \in [0 .. n - 1 -> Cell], NEW u \in Places,
           u.offset + Sizes[u.w] <= n, NEW cells \in [0 .. Sizes[u.w] - 1 -> Cell]
    PROVE  Copied(n, b, u, cells)
<1>1. u.w \in Tensors /\ u.offset \in Nat /\ Sizes[u.w] \in Nat
  BY Sizing DEF Places
<1>2. CellsOf(u) = u.offset .. u.offset + Sizes[u.w] - 1
  BY DEF CellsOf
<1>3. \A c \in CellsOf(u) : c \in 0 .. n - 1 /\ c - u.offset \in 0 .. Sizes[u.w] - 1
  BY <1>1, <1>2, CellWithin
<1>4. Write(b, u, cells) = [i \in 0 .. n - 1 |-> IF i \in CellsOf(u) THEN cells[i - u.offset] ELSE b[i]]
  <2>1. DOMAIN b = 0 .. n - 1
    OBVIOUS
  <2> QED
    BY <2>1 DEF Write
<1>5. \A c \in 0 .. n - 1 : (IF c \in CellsOf(u) THEN cells[c - u.offset] ELSE b[c]) \in Cell
  BY <1>3
<1> QED
  BY <1>3, <1>4, <1>5 DEF Copied

\* Local(q) rests on the rank's own state.
LEMMA LocalFrame ==
    ASSUME NEW q \in Workers, Local(q), UNCHANGED <<engine, version>>, buf'[q] = buf[q],
           rx'[q] = rx[q], ipc'[q] = ipc[q], loaded'[q] = loaded[q]
    PROVE  Local(q)'
<1>1. Passed(q)' = Passed(q) /\ Pos(q)' = Pos(q)
  BY DEF Passed, Pos
<1>2. \A k : Safe(q, k)' = Safe(q, k)
  BY DEF Safe, Mooncake
<1>3. \A h, k : Intact(h, k)' = Intact(h, k)
  BY DEF Intact
<1>4. ConsumerOK(q)'
  BY <1>2 DEF Local, ConsumerOK, ClonesOK, MetaOK, WS!Tensor
<1>5. OutOK(q)'
  BY <1>1, <1>2, <1>3 DEF Local, OutOK
<1>6. EndOK(q)'
  BY <1>1 DEF Local, EndOK, Nixl
<1> QED
  BY <1>4, <1>5, <1>6 DEF Local

\* Links(q) rests on what the two ranks have passed on and on the half it was read from.
LEMMA LinksFrame ==
    ASSUME NEW q \in Workers, Links(q), UNCHANGED <<engine, version, buf>>,
           inbox'[q] = inbox[q], q \in unread' <=> q \in unread,
           rx'[q].fly = rx[q].fly, rx'[q].coming = rx[q].coming, rx'[q].idx = rx[q].idx,
           Pos(q)' = Pos(q), Mooncake => (rx'[q].at = "yield" <=> rx[q].at = "yield"),
           Given(0)' = Given(0), Half(0)' = Half(0),
           Given(q - 1)' = Given(q - 1), Half(q - 1)' = Half(q - 1),
           Mooncake => Sent(q - 1)' = Sent(q - 1) /\ (tx'.at = "fill" <=> tx.at = "fill")
    PROVE  Links(q)'
<1>1. Got(q)' = Got(q)
  BY DEF Got
<1>2. \A h, b : Offered(b, h)' = Offered(b, h)
  BY DEF Offered, Intact, BucketOK, Run
<1>3. \A b : Takes(q, 0, b)' = Takes(q, 0, b) /\ Takes(q, q - 1, b)' = Takes(q, q - 1, b)
  BY <1>1, <1>2 DEF Takes
<1>4. Landed(q)' = Landed(q)
  BY <1>2 DEF Landed
<1>5. Broadcasts' = Broadcasts /\ Nixl' = Nixl /\ Mooncake' = Mooncake
  BY DEF Broadcasts, Nixl, Mooncake
<1>6. CASE Broadcasts
  BY <1>1, <1>3, <1>4, <1>5, <1>6 DEF Links, NcclLink, Broadcasts, Nixl, Mooncake
<1>7. CASE Nixl
  BY <1>1, <1>3, <1>4, <1>5, <1>7 DEF Links, NixlLink, Broadcasts, Nixl, Mooncake
<1>8. CASE Mooncake
  <2>1. MooncakeLink(q)
    BY <1>8 DEF Links
  <2>2. Taken(q)' = Taken(q) /\ Sent(q - 1)' = Sent(q - 1)
    BY <1>8 DEF Taken
  <2>3. \A i : Offered(inbox[q][i], buf[q - 1][inbox[q][i].src])'
               = Offered(inbox[q][i], buf[q - 1][inbox[q][i].src])
    BY <1>2
  <2> QED
    BY <1>5, <1>8, <2>1, <2>2, <2>3 DEF Links, MooncakeLink, Broadcasts, Nixl, Mooncake
<1>9. CASE ~Broadcasts /\ ~Nixl /\ ~Mooncake
  BY <1>5, <1>9 DEF Links
<1> QED
  BY <1>6, <1>7, <1>8, <1>9

\* Rank 0 is undisturbed as long as its buffer is.
LEMMA TxFrame ==
    ASSUME TxOK, UNCHANGED <<engine, version, tx>>, buf'[0] = buf[0]
    PROVE  TxOK'
  BY DEF TxOK, Intact, Run, Mooncake

\* A step of rank r's consumer, as far as its links go.
LEMMA ConsumerLinks ==
    ASSUME Shape, NEW r \in Workers, UNCHANGED <<engine, version, buf, tx, inbox, unread>>,
           \A q \in Workers : Links(q), Pos(r)' = Pos(r),
           \A q \in Workers \ {r} :
               rx'[q] = rx[q] /\ ipc'[q] = ipc[q] /\ loaded'[q] = loaded[q],
           rx'[r].fly = rx[r].fly, rx'[r].coming = rx[r].coming, rx'[r].idx = rx[r].idx,
           Mooncake => (rx'[r].at = "yield" <=> rx[r].at = "yield")
    PROVE  \A q \in Workers : Links(q)'
<1>1. ASSUME NEW q \in Workers
      PROVE  /\ rx'[q].fly = rx[q].fly /\ rx'[q].coming = rx[q].coming /\ rx'[q].idx = rx[q].idx
             /\ Pos(q)' = Pos(q) /\ (Mooncake => (rx'[q].at = "yield" <=> rx[q].at = "yield"))
             /\ Mooncake => Taken(q)' = Taken(q)
  BY DEF Pos, Passed, Taken
<1>2. Given(0)' = Given(0) /\ Half(0)' = Half(0) /\ Sent(0)' = Sent(0)
  BY DEF Given, Half, Sent
<1>3. ASSUME NEW q \in Workers
      PROVE  /\ Given(q - 1)' = Given(q - 1) /\ Half(q - 1)' = Half(q - 1)
             /\ Mooncake => Sent(q - 1)' = Sent(q - 1)
  <2>1. CASE q = 1
    BY <2>1, <1>2
  <2>2. CASE q # 1
    <3>1. q - 1 \in Workers /\ q - 1 > 0
      BY <2>2, Sizing DEF Workers
    <3> QED
      BY <3>1, <1>1 DEF Given, Half, Sent
  <2> QED
    BY <2>1, <2>2
<1>4. ASSUME NEW q \in Workers PROVE Links(q)'
  BY <1>1, <1>2, <1>3, LinksFrame
<1> QED
  BY <1>4

\* The other workers are not disturbed.
LEMMA LocalOthers ==
    ASSUME NEW r \in Workers, \A q \in Workers : Local(q), UNCHANGED <<engine, version>>,
           \A q \in Workers \ {r} :
               /\ rx'[q] = rx[q] /\ ipc'[q] = ipc[q] /\ loaded'[q] = loaded[q]
               /\ buf'[q] = buf[q],
           Local(r)'
    PROVE  \A q \in Workers : Local(q)'
<1>1. ASSUME NEW q \in Workers \ {r} PROVE Local(q)'
  BY LocalFrame
<1> QED
  BY <1>1

\* A cell of a tensor that ends by m is before m.
LEMMA CellBefore ==
    ASSUME NEW o \in Nat, NEW s \in Nat, NEW m \in Nat, NEW n \in Nat, o + s <= m,
           m \in 0 .. n, NEW c \in o .. o + s - 1
    PROVE  c \in 0 .. n - 1 /\ c < m
  OBVIOUS

\* A tensor is copied into the IPC buffer behind those that are there.
CopiedBehind(r, n, p, k, b) ==
    /\ b \in [0 .. LoadSize - 1 -> Cell]
    /\ \A i \in 1 .. Len(p.meta) : Safe(r, n + i) =>
          \A c \in CellsOf(p.meta[i]) : b[c] = <<version, n + i>>
    /\ Safe(r, k) => \A c \in CellsOf(At(k, p.offset)) : b[c] = <<version, k>>

\* The tensor yielded next is copied behind those in the IPC buffer.
LEMMA YieldCells ==
    ASSUME NEW r \in Workers, NEW n \in Nat, NEW p, NEW half, NEW k,
           p.buf \in [0 .. LoadSize - 1 -> Cell], p.offset \in 0 .. LoadSize,
           p.meta \in Seq(Places), half \in [0 .. BucketSize - 1 -> Cell],
           MetaOK(r, n, p), k = n + Len(p.meta) + 1, k \in Tensors,
           p.offset + Sizes[k] <= LoadSize, Safe(r, k) => Intact(half, k)
    PROVE  CopiedBehind(r, n, p, k, Write(p.buf, At(k, p.offset), Read(half, Slot(k))))
<1> DEFINE u == At(k, p.offset)
           cells == Read(half, Slot(k))
           b == Write(p.buf, u, cells)
<1>1. /\ Sizes[k] \in Nat /\ LoadSize \in Nat /\ p.offset \in Nat
      /\ u \in Places /\ u.w = k /\ u.offset = p.offset
  BY Sizing DEF At, Places
<1>2. cells \in [0 .. Sizes[k] - 1 -> Cell]
      /\ \A i \in 0 .. Sizes[k] - 1 : cells[i] = half[OffsetOf[k] + i]
                                        /\ OffsetOf[k] + i \in CellsOf(Slot(k))
  <2>1. /\ Slot(k).w = k /\ Slot(k).offset = OffsetOf[k] /\ OffsetOf[k] \in Nat
        /\ CellsOf(Slot(k)) = OffsetOf[k] .. OffsetOf[k] + Sizes[k] - 1
        /\ CellsOf(Slot(k)) \subseteq 0 .. BucketSize - 1
    BY SlotCells, OffsetFits
  <2>2. \A i \in 0 .. Sizes[k] - 1 : OffsetOf[k] + i \in CellsOf(Slot(k))
    BY <2>1, <1>1
  <2>3. cells = [i \in 0 .. Sizes[k] - 1 |-> half[OffsetOf[k] + i]]
    BY <2>1 DEF Read
  <2> QED
    BY <2>1, <2>2, <2>3
<1> HIDE DEF u, cells
<1>3. /\ b \in [0 .. LoadSize - 1 -> Cell]
      /\ \A c \in CellsOf(u) : c - u.offset \in 0 .. Sizes[k] - 1
                                /\ b[c] = cells[c - u.offset]
      /\ \A c \in (0 .. LoadSize - 1) \ CellsOf(u) : b[c] = p.buf[c]
  <2>1. u.offset + Sizes[u.w] <= LoadSize /\ cells \in [0 .. Sizes[u.w] - 1 -> Cell]
    BY <1>1, <1>2
  <2>2. LoadSize \in Nat /\ u \in Places /\ p.buf \in [0 .. LoadSize - 1 -> Cell]
    BY <1>1
  <2>3. Copied(LoadSize, p.buf, u, cells)
    BY <2>1, <2>2, WriteCells
  <2> QED
    BY <2>3, <1>1 DEF Copied
<1>4. CellsOf(u) = p.offset .. p.offset + Sizes[k] - 1
  BY <1>1 DEF CellsOf
<1> HIDE DEF b
<1>5. ASSUME NEW i \in 1 .. Len(p.meta), Safe(r, n + i), NEW c \in CellsOf(p.meta[i])
      PROVE  b[c] = <<version, n + i>>
  <2>1. /\ p.meta[i] \in Places /\ p.meta[i].w = n + i
        /\ p.meta[i].offset + Sizes[n + i] <= p.offset /\ p.buf[c] = <<version, n + i>>
    BY <1>5 DEF MetaOK
  <2>2. p.meta[i].offset \in Nat /\ n + i \in Tensors /\ Sizes[n + i] \in Nat
    BY <2>1, Sizing DEF Places
  <2>3. c \in p.meta[i].offset .. p.meta[i].offset + Sizes[n + i] - 1
    BY <2>1 DEF CellsOf
  <2>4. c \in 0 .. LoadSize - 1 /\ c < p.offset
    <3>1. p.meta[i].offset + Sizes[n + i] <= p.offset /\ p.offset \in 0 .. LoadSize
      BY <2>1
    <3> HIDE <2>1
    <3> QED
      BY <3>1, <2>2, <2>3, <1>1, CellBefore
  <2>5. c \notin CellsOf(u)
    BY <2>4, <1>1, <1>4
  <2> QED
    BY <2>1, <2>4, <2>5, <1>3
<1>6. ASSUME Safe(r, k), NEW c \in CellsOf(u) PROVE b[c] = <<version, k>>
  BY <1>1, <1>2, <1>3, <1>6 DEF Intact
<1> QED
  BY <1>3, <1>5, <1>6 DEF b, u, cells, CopiedBehind

-----------------------------------------------------------------------------
(* Types and counts, and the steps of the consumer.                        *)

\* The types of a bucket.
LEMMA BucketTypes ==
    ASSUME NEW b \in Buckets
    PROVE  /\ b.out \in Seq(Places) /\ b.last \in BOOLEAN /\ b.src \in {0, 1}
           /\ Len(b.out) \in Nat
  BY DEF Buckets

\* Arithmetic of offsets and of counts.
LEMMA FitsMore ==
    ASSUME NEW a \in Nat, NEW b \in Nat, NEW c \in Nat, NEW d \in Nat, a + b <= c
    PROVE  a + b <= c + d
  OBVIOUS

LEMMA NextNumber ==
    ASSUME NEW a \in Nat, NEW b \in Nat PROVE a + (b + 1) = a + b + 1
  OBVIOUS

LEMMA ZeroMoves == ASSUME NEW a \in Nat, NEW b \in Nat PROVE a + b + 0 = a + 0 + b
  OBVIOUS

LEMMA AddOne ==
    ASSUME NEW a \in Nat, NEW b \in Nat, NEW c \in Nat
    PROVE  a + b + (c + 1) = a + b + c + 1 /\ a + b + c \in Nat
  OBVIOUS

LEMMA Adding2 == ASSUME NEW a \in Nat, NEW b \in Nat PROVE a + b \in Nat
  OBVIOUS

LEMMA Adding == ASSUME NEW a \in Nat, NEW b \in Nat, NEW c \in Nat PROVE a + b + c \in Nat
  OBVIOUS

\* The types of a worker's state.
LEMMA RxTypes ==
    ASSUME Shape, NEW r \in Workers
    PROVE  /\ rx[r].at \in RxAt /\ rx[r].idx \in Nat /\ rx[r].out \in Seq(Places)
           /\ rx[r].last \in BOOLEAN /\ rx[r].fly \in {"none", "running", "done"}
           /\ rx[r].coming \in Buckets
  BY DEF Shape, RxShape

\* The types of an IPC transfer.
LEMMA IpcTypes ==
    ASSUME Shape, NEW r \in Workers
    PROVE  /\ ipc[r].buf \in [0 .. LoadSize - 1 -> Cell] /\ ipc[r].offset \in 0 .. LoadSize
           /\ ipc[r].meta \in Seq(Places) /\ ipc[r].sent \in BOOLEAN
           /\ ipc[r].clones \in Seq(Contained)
  BY DEF Shape, IpcShape

\* The types of a worker's queues.
LEMMA QueueTypes ==
    ASSUME Shape, NEW r \in Workers
    PROVE  loaded[r] \in Seq(Contained) /\ inbox[r] \in Seq(Buckets)
  BY DEF Shape

\* The lengths that are counted.
LEMMA LengthTypes ==
    ASSUME Shape, NEW r \in Workers
    PROVE  /\ Len(loaded[r]) \in Nat /\ Len(ipc[r].clones) \in Nat /\ Len(ipc[r].meta) \in Nat
           /\ Len(rx[r].out) \in Nat /\ Len(rx[r].coming.out) \in Nat
<1>1. rx[r].out \in Seq(Places) /\ ipc[r].meta \in Seq(Places)
  BY RxTypes, IpcTypes
<1>2. ipc[r].clones \in Seq(Contained) /\ loaded[r] \in Seq(Contained)
  BY IpcTypes, QueueTypes
<1>3. Len(rx[r].coming.out) \in Nat
  BY RxTypes, BucketTypes
<1>4. Len(loaded[r]) \in Nat /\ Len(ipc[r].clones) \in Nat
  BY <1>2
<1>5. Len(ipc[r].meta) \in Nat /\ Len(rx[r].out) \in Nat
  BY <1>1
<1> QED
  BY <1>3, <1>4, <1>5

\* The counts are numbers.
LEMMA CountTypes ==
    ASSUME Shape, NEW r \in Workers
    PROVE  /\ Passed(r) \in Nat /\ Pos(r) \in Nat /\ Got(r) \in Nat
           /\ Pos(r) = Passed(r) + Len(rx[r].out)
<1>1. Passed(r) \in Nat /\ Pos(r) = Passed(r) + Len(rx[r].out)
  BY LengthTypes, Adding DEF Passed, Pos
<1>2. Pos(r) \in Nat /\ Got(r) \in Nat
  <2> DEFINE a == Len(rx[r].out)
             b == Len(rx[r].coming.out)
  <2>1. a \in Nat /\ b \in Nat /\ Pos(r) = Passed(r) + a
    BY <1>1, LengthTypes
  <2> HIDE DEF a
  <2>2. Pos(r) \in Nat
    BY <2>1, <1>1
  <2>3. Got(r) = IF rx[r].fly = "done" THEN Pos(r) + b ELSE Pos(r) + 0
    BY DEF Got
  <2> HIDE DEF b
  <2> QED
    BY <2>1, <2>2, <2>3
<1> QED
  BY <1>1, <1>2

\* The halves of a rank's buffer.
LEMMA HalfTypes ==
    ASSUME Shape, NEW s \in Ranks, NEW h \in {0, 1}
    PROVE  buf[s][h] \in [0 .. BucketSize - 1 -> Cell]
  BY DEF Shape, BufShape

\* Ranks and workers.
LEMMA RankTypes ==
    /\ 0 \in Ranks
    /\ \A r \in Workers : r \in Ranks /\ r # 0 /\ r > 0 /\ r \in Nat /\ r <= Receivers
                           /\ r - 1 \in Ranks /\ (r # 1 => r - 1 \in Workers)
    /\ \A s \in Ranks : s = 0 \/ s \in Workers
  BY Sizing DEF Ranks, Workers

\* Nothing of the buffers is written.
LEMMA WrittenFrame == ASSUME Written, UNCHANGED <<version, buf>> PROVE Written'
  BY DEF Written

\* What Append does to a sequence.
LEMMA Appending ==
    ASSUME NEW S, NEW s \in Seq(S), NEW e \in S
    PROVE  /\ Append(s, e) \in Seq(S) /\ Len(Append(s, e)) = Len(s) + 1 /\ Len(s) \in Nat
           /\ \A i \in 1 .. Len(Append(s, e)) :
                 \/ i \in 1 .. Len(s) /\ Append(s, e)[i] = s[i]
                 \/ i = Len(s) + 1 /\ Append(s, e)[i] = e
  OBVIOUS

\* The head and the tail of a sequence.
LEMMA NotEmpty ==
    ASSUME NEW S, NEW s \in Seq(S)
    PROVE  /\ Len(s) \in Nat /\ (s # << >> <=> Len(s) > 0)
           /\ s # << >> => /\ Head(s) = s[1] /\ Head(s) \in S /\ 1 \in 1 .. Len(s)
                           /\ Tail(s) \in Seq(S) /\ Len(Tail(s)) = Len(s) - 1
                           /\ \A i \in 1 .. Len(Tail(s)) :
                                 Tail(s)[i] = s[i + 1] /\ i + 1 \in 1 .. Len(s)
  OBVIOUS

\* What worker r yields next.
LEMMA NextOut ==
    ASSUME Shape, NEW r \in Workers, OutOK(r), rx[r].out # << >>
    PROVE  /\ Passed(r) + 1 \in Tensors /\ Head(rx[r].out) = Slot(Passed(r) + 1)
           /\ Head(rx[r].out).w = Passed(r) + 1
           /\ Tail(rx[r].out) \in Seq(Places) /\ Len(Tail(rx[r].out)) = Len(rx[r].out) - 1
           /\ \A i \in 1 .. Len(Tail(rx[r].out)) :
                 /\ Tail(rx[r].out)[i] = Slot(Passed(r) + 1 + i)
                 /\ i + 1 \in 1 .. Len(rx[r].out)
           /\ Len(rx[r].out) > 0
<1> DEFINE q == rx[r].out
<1>1. q \in Seq(Places) /\ Passed(r) \in Nat /\ q # << >>
  BY RxTypes, CountTypes
<1>2. Passed(r) + Len(q) <= N /\ \A i \in 1 .. Len(q) : q[i] = Slot(Passed(r) + i)
  BY DEF OutOK, Pos, Run
<1> HIDE DEF q
<1>8. /\ Len(q) \in Nat /\ Len(q) > 0 /\ 1 \in 1 .. Len(q)
      /\ Head(q) = q[1] /\ Tail(q) \in Seq(Places) /\ Len(Tail(q)) = Len(q) - 1
      /\ \A i \in 1 .. Len(Tail(q)) : Tail(q)[i] = q[i + 1] /\ i + 1 \in 1 .. Len(q)
  BY <1>1, NotEmpty
<1>3. Passed(r) + 1 \in Tensors
  BY <1>1, <1>2, <1>8, Sizing
<1>4. Head(q) = Slot(Passed(r) + 1) /\ Head(q).w = Passed(r) + 1
  BY <1>2, <1>3, <1>8, SlotCells
<1>5. ASSUME NEW i \in 1 .. Len(Tail(q)) PROVE Tail(q)[i] = Slot(Passed(r) + 1 + i)
  <2>1. i + 1 \in 1 .. Len(q) /\ Tail(q)[i] = q[i + 1] /\ i \in Nat
    BY <1>8
  <2>2. q[i + 1] = Slot(Passed(r) + (i + 1))
    BY <2>1, <1>2
  <2>3. Passed(r) + (i + 1) = Passed(r) + 1 + i
    BY <1>1, <2>1
  <2> QED
    BY <2>1, <2>2, <2>3
<1> QED
  BY <1>3, <1>4, <1>5, <1>8 DEF q

\* The consumer copies the tensor it was given.
LEMMA YieldStep == ASSUME Moving, NEW r \in Workers, Yield(r) PROVE Moving'
<1> DEFINE x == rx[r]
           p == ipc[r]
           k == Passed(r) + 1
           u == At(k, p.offset)
           b == Write(p.buf, u, Read(buf[r][Hand(x.idx)], Slot(k)))
<1>1. Shape /\ Local(r) /\ x.out # << >> /\ x.at = "yield" /\ ~p.sent
  BY DEF Moving, Yield, Yielding
<1>2. /\ k \in Tensors /\ Head(x.out) = Slot(k) /\ Slot(k).w = k
      /\ p.offset + Sizes[k] <= LoadSize
  BY <1>1, NextOut, SlotCells DEF Local, Yield, IpcFits
<1>3. /\ rx' = [rx EXCEPT ![r].out = Tail(@)]
      /\ ipc' = [ipc EXCEPT ![r].buf = b, ![r].offset = @ + Sizes[k], ![r].meta = Append(@, u)]
      /\ UNCHANGED <<engine, stage, version, buf, tx, inbox, unread, joined, loaded>>
  BY <1>2 DEF Yield
<1>4. /\ b \in [0 .. LoadSize - 1 -> Cell]
      /\ \A i \in 1 .. Len(p.meta) : Safe(r, Len(loaded[r]) + Len(p.clones) + i) =>
            \A c \in CellsOf(p.meta[i]) :
                b[c] = <<version, Len(loaded[r]) + Len(p.clones) + i>>
      /\ Safe(r, k) => \A c \in CellsOf(u) : b[c] = <<version, k>>
  <2> DEFINE n == Len(loaded[r]) + Len(p.clones)
             half == buf[r][Hand(x.idx)]
  <2>1. n \in Nat /\ MetaOK(r, n, p) /\ k = n + Len(p.meta) + 1
    <3>1. Len(loaded[r]) \in Nat /\ Len(p.clones) \in Nat
      BY <1>1, LengthTypes
    <3>2. n \in Nat
      BY <3>1, Adding2
    <3> QED
      BY <3>2, <1>1 DEF Local, ConsumerOK, Passed
  <2>2. half \in [0 .. BucketSize - 1 -> Cell]
    <3>1. Hand(x.idx) \in {0, 1} /\ r \in Ranks
      BY <1>1, RxTypes, Halving, RankTypes
    <3> QED
      BY <3>1, <1>1, HalfTypes
  <2>3. Safe(r, k) => Intact(half, k)
    <3>1. 1 \in 1 .. Len(x.out)
      BY <1>1, RxTypes, NotEmpty
    <3> QED
      BY <3>1, <1>1 DEF Local, OutOK
  <2>4. /\ p.buf \in [0 .. LoadSize - 1 -> Cell] /\ p.offset \in 0 .. LoadSize
        /\ p.meta \in Seq(Places)
    BY <1>1, IpcTypes
  <2>5. b = Write(p.buf, u, Read(half, Slot(k)))
    OBVIOUS
  <2> HIDE DEF n, half, p, k, b
  <2>6. CopiedBehind(r, n, p, k, Write(p.buf, At(k, p.offset), Read(half, Slot(k))))
    BY <2>1, <2>2, <2>3, <2>4, <1>2, YieldCells
  <2> QED
    BY <2>5, <2>6 DEF n, CopiedBehind
<1> HIDE DEF b
<1>5. u \in Places /\ u.w = k /\ u.offset = p.offset /\ p.offset \in Nat /\ Sizes[k] \in Nat
  <2>1. p.offset \in Nat /\ Sizes[k] \in Nat
    BY <1>1, <1>2, IpcTypes, Sizing
  <2> QED
    BY <2>1, <1>2 DEF At, Places
<1> HIDE DEF u
<1>6. /\ rx'[r].out = Tail(x.out) /\ rx'[r].at = x.at /\ rx'[r].idx = x.idx
      /\ rx'[r].last = x.last /\ rx'[r].fly = x.fly /\ rx'[r].coming = x.coming
      /\ \A q \in Workers \ {r} : rx'[q] = rx[q]
  BY <1>1, <1>3 DEF Shape, RxShape
<1>7. /\ ipc'[r].buf = b /\ ipc'[r].offset = p.offset + Sizes[k]
      /\ ipc'[r].meta = Append(p.meta, u) /\ ipc'[r].sent = p.sent /\ ipc'[r].clones = p.clones
      /\ \A q \in Workers \ {r} : ipc'[q] = ipc[q]
  BY <1>1, <1>3 DEF Shape, IpcShape
<1>8. Shape'
  <2>1. RxShape'
    <3>1. Tail(x.out) \in Seq(Places)
      BY <1>1, NextOut DEF Local
    <3> QED
      BY <3>1, <1>1, <1>3 DEF Shape, RxShape
  <2>2. IpcShape'
    <3>1. p.offset + Sizes[k] \in 0 .. LoadSize /\ Append(p.meta, u) \in Seq(Places)
      BY <1>2, <1>5, <1>1, IpcTypes, Sizing
    <3> QED
      BY <3>1, <1>1, <1>3, <1>4 DEF Shape, IpcShape
  <2> QED
    BY <2>1, <2>2, <1>1, <1>3 DEF Shape, TxShape, BufShape
<1>9. Passed(r)' = Passed(r) + 1 /\ Pos(r)' = Pos(r) /\ loaded'[r] = loaded[r]
  <2>1. Len(Append(p.meta, u)) = Len(p.meta) + 1 /\ Len(Tail(x.out)) = Len(x.out) - 1
    BY <1>1, <1>5, IpcTypes, NextOut DEF Local
  <2>2. /\ Len(loaded[r]) \in Nat /\ Len(p.clones) \in Nat /\ Len(p.meta) \in Nat
        /\ Len(x.out) \in Nat
    BY <1>1, LengthTypes
  <2>3. Passed(r)' = Len(loaded[r]) + Len(p.clones) + (Len(p.meta) + 1)
    BY <2>1, <1>3, <1>7 DEF Passed
  <2>4. Passed(r)' = Passed(r) + 1 /\ Passed(r) \in Nat
    BY <2>2, <2>3, AddOne DEF Passed
  <2>5. Pos(r)' = Passed(r)' + (Len(x.out) - 1) /\ Pos(r) = Passed(r) + Len(x.out)
    BY <2>1, <1>6 DEF Pos
  <2> QED
    BY <2>2, <2>4, <2>5, <1>3
<1>10. Local(r)'
  <2>1. \A i : Safe(r, i)' = Safe(r, i)
    BY <1>3 DEF Safe, Mooncake
  <2> DEFINE n == Len(loaded[r]) + Len(p.clones)
  <2>2. ConsumerOK(r)'
    <3>1. ClonesOK(r, 0, loaded[r])' /\ ClonesOK(r, Len(loaded[r]), p.clones)'
      BY <1>1, <1>3, <1>7, <2>1 DEF Local, ConsumerOK, ClonesOK, WS!Tensor
    <3>2. n \in Nat /\ Len(p.meta) \in Nat /\ k = n + Len(p.meta) + 1
      BY <1>1, LengthTypes, Adding2 DEF Passed
    <3>3. MetaOK(r, n, p)
      BY <1>1 DEF Local, ConsumerOK
    <3>4. ASSUME NEW i \in 1 .. Len(Append(p.meta, u))
          PROVE  LET t == Append(p.meta, u)[i]
                 IN  /\ t.w = n + i /\ t.offset + Sizes[n + i] <= p.offset + Sizes[k]
                     /\ Safe(r, n + i) => \A c \in CellsOf(t) : b[c] = <<version, n + i>>
      <4> HIDE DEF n, k
      <4>3. \/ i \in 1 .. Len(p.meta) /\ Append(p.meta, u)[i] = p.meta[i]
            \/ i = Len(p.meta) + 1 /\ Append(p.meta, u)[i] = u
        <5>1. p.meta \in Seq(Places)
          BY <1>1, IpcTypes
        <5> QED
          BY <5>1, <1>5, Appending
      <4>1. CASE i \in 1 .. Len(p.meta) /\ Append(p.meta, u)[i] = p.meta[i]
        <5>1. Append(p.meta, u)[i] = p.meta[i]
          BY <4>1
        <5>2. /\ p.meta[i].w = n + i /\ p.meta[i].offset + Sizes[n + i] <= p.offset
              /\ p.meta[i] \in Places
          BY <4>1, <3>3, <1>1, IpcTypes DEF MetaOK
        <5>3. p.meta[i].offset \in Nat /\ n + i \in Tensors
          BY <5>2 DEF Places
        <5>4. Sizes[n + i] \in Nat
          BY <5>3, Sizing
        <5>5. p.meta[i].offset + Sizes[n + i] <= p.offset + Sizes[k]
          BY <5>2, <5>3, <5>4, <1>5, FitsMore
        <5> QED
          BY <5>1, <5>2, <5>5, <1>4, <4>1 DEF n
      <4>2. CASE i = Len(p.meta) + 1 /\ Append(p.meta, u)[i] = u
        <5>1. Append(p.meta, u)[i] = u /\ n + i = k
          BY <4>2, <3>2, NextNumber
        <5> QED
          BY <5>1, <1>4, <1>5
      <4> QED
        BY <4>1, <4>2, <4>3
    <3>5. MetaOK(r, n, ipc[r])'
      <4>1. \A t : CellsOf(t)' = CellsOf(t)
        BY DEF CellsOf
      <4>2. n' = n
        BY <1>3, <1>7
      <4> HIDE DEF n
      <4>3. SUFFICES ASSUME NEW i \in 1 .. Len(ipc'[r].meta)
                     PROVE  LET t == ipc'[r].meta[i]
                            IN  /\ t.w = n + i /\ t.offset + Sizes[n + i] <= ipc'[r].offset
                                /\ Safe(r, n + i) =>
                                      \A c \in CellsOf(t) : ipc'[r].buf[c] = <<version, n + i>>
        BY <2>1, <1>3, <4>1, <4>2 DEF MetaOK
      <4> QED
        BY <3>4, <1>7
    <3> QED
      BY <3>1, <3>5, <1>3, <1>7 DEF ConsumerOK
  <2>3. OutOK(r)'
    <3>1. Passed(r) \in Nat /\ Passed(r)' = Passed(r) + 1 /\ Pos(r)' = Pos(r)
      BY <1>1, <1>9, CountTypes
    <3>2. Run(rx[r].out, Passed(r))'
      BY <3>1, <1>1, <1>6, NextOut DEF Local, Run
    <3>3. ASSUME NEW i \in 1 .. Len(Tail(x.out)), Safe(r, Passed(r) + 1 + i)
          PROVE  Intact(buf[r][Hand(x.idx)], Passed(r) + 1 + i)
      <4>1. i \in Nat /\ i + 1 \in 1 .. Len(x.out)
        BY <1>1, NextOut DEF Local
      <4>2. Passed(r) + (i + 1) = Passed(r) + 1 + i
        BY <3>1, <4>1
      <4> QED
        BY <4>1, <4>2, <3>3, <1>1 DEF Local, OutOK
    <3>4. \A i \in 1 .. Len(rx'[r].out) : Safe(r, Passed(r) + i)' =>
             Intact(buf[r][Hand(rx[r].idx)], Passed(r) + i)'
      <4>1. \A h, j : Intact(h, j)' = Intact(h, j)
        BY <1>3 DEF Intact
      <4>2. buf'[r][Hand(rx'[r].idx)] = buf[r][Hand(x.idx)]
        BY <1>3, <1>6
      <4> QED
        BY <3>1, <3>3, <2>1, <4>1, <4>2, <1>6
    <3> QED
      BY <3>1, <3>2, <3>4, <1>1 DEF Local, OutOK
  <2>4. EndOK(r)'
    BY <1>1, <1>3, <1>6, <1>7, <1>9 DEF Local, EndOK, Nixl
  <2> QED
    BY <2>2, <2>3, <2>4 DEF Local
<1>11. \A q \in Workers : Local(q)'
  BY <1>3, <1>6, <1>7, <1>10, LocalOthers DEF Moving
<1>12. \A q \in Workers : Links(q)'
  BY <1>1, <1>3, <1>6, <1>7, <1>9, ConsumerLinks DEF Moving
<1> QED
  BY <1>3, <1>8, <1>11, <1>12, TxFrame, WrittenFrame DEF Moving

RxRecord == [at : RxAt, idx : Nat, out : Seq(Places), last : BOOLEAN,
             fly : {"none", "running", "done"}, coming : Buckets]
IpcRecord == [buf : [0 .. LoadSize - 1 -> Cell], offset : 0 .. LoadSize,
              meta : Seq(Places), sent : BOOLEAN, clones : Seq(Contained)]

\* The state of one worker is replaced.
LEMMA RxNext ==
    ASSUME Shape, NEW r \in Workers, NEW x \in RxRecord, rx' = [rx EXCEPT ![r] = x]
    PROVE  /\ RxShape' /\ rx'[r] = x /\ \A q \in Workers \ {r} : rx'[q] = rx[q]
<1>1. rx \in [Workers -> RxRecord]
  BY DEF Shape, RxShape, RxRecord
<1>2. rx' \in [Workers -> RxRecord]
  <2> HIDE DEF RxRecord
  <2> QED
    BY <1>1
<1> QED
  BY <1>1, <1>2 DEF RxShape, RxRecord

\* What replacing the record of an IPC transfer does.
LEMMA IpcNext ==
    ASSUME Shape, NEW r \in Workers, NEW x \in IpcRecord, ipc' = [ipc EXCEPT ![r] = x]
    PROVE  /\ IpcShape' /\ ipc'[r] = x /\ \A q \in Workers \ {r} : ipc'[q] = ipc[q]
<1>1. ipc \in [Workers -> IpcRecord]
  BY DEF Shape, IpcShape, IpcRecord
<1>2. ipc' \in [Workers -> IpcRecord]
  <2> HIDE DEF IpcRecord
  <2> QED
    BY <1>1
<1> QED
  BY <1>1, <1>2 DEF IpcShape, IpcRecord

\* The generator moves on with what it has.
LEMMA RxAtNext ==
    ASSUME Shape, NEW r \in Workers, NEW a \in RxAt, rx' = [rx EXCEPT ![r].at = a]
    PROVE  /\ RxShape' /\ rx'[r].at = a /\ rx'[r].idx = rx[r].idx /\ rx'[r].out = rx[r].out
           /\ rx'[r].last = rx[r].last /\ rx'[r].fly = rx[r].fly
           /\ rx'[r].coming = rx[r].coming /\ \A q \in Workers \ {r} : rx'[q] = rx[q]
<1> DEFINE x == [rx[r] EXCEPT !.at = a]
<1>1. rx[r] \in RxRecord
  BY DEF Shape, RxShape, RxRecord
<1>2. /\ x \in RxRecord /\ x.at = a /\ x.idx = rx[r].idx /\ x.out = rx[r].out
      /\ x.last = rx[r].last /\ x.fly = rx[r].fly /\ x.coming = rx[r].coming
  BY <1>1 DEF RxRecord
<1>3. rx' = [rx EXCEPT ![r] = x]
  OBVIOUS
<1> HIDE DEF x
<1> QED
  BY <1>2, <1>3, RxNext

\* A tensor has a first cell.
LEMMA FirstOf == ASSUME NEW o \in Nat, NEW s \in Nat, s > 0 PROVE o \in o .. o + s - 1
  OBVIOUS

\* A step of rank r's consumer that passes nothing on between the ranks.
LEMMA ConsumerMoves ==
    ASSUME Moving, NEW r \in Workers,
           UNCHANGED <<engine, stage, version, buf, tx, inbox, unread>>, Pos(r)' = Pos(r),
           \A q \in Workers \ {r} :
               rx'[q] = rx[q] /\ ipc'[q] = ipc[q] /\ loaded'[q] = loaded[q],
           rx'[r].fly = rx[r].fly, rx'[r].coming = rx[r].coming, rx'[r].idx = rx[r].idx,
           Mooncake => (rx'[r].at = "yield" <=> rx[r].at = "yield"),
           Shape', Local(r)'
    PROVE  Moving'
<1>1. \A q \in Workers : Local(q)'
  BY LocalOthers DEF Moving
<1>2. \A q \in Workers : Links(q)'
  BY ConsumerLinks DEF Moving
<1> QED
  BY <1>1, <1>2, TxFrame, WrittenFrame DEF Moving

\* What the operators of Local say does not depend on what a step leaves.
LEMMA SameVersion ==
    ASSUME UNCHANGED <<engine, version>>
    PROVE  /\ \A r, k : Safe(r, k)' = Safe(r, k)
           /\ \A h, k : Intact(h, k)' = Intact(h, k)
           /\ \A r, n, c : ClonesOK(r, n, c)' = ClonesOK(r, n, c)
           /\ \A r, n, p : MetaOK(r, n, p)' = MetaOK(r, n, p)
           /\ Broadcasts' = Broadcasts /\ Nixl' = Nixl /\ Mooncake' = Mooncake
  BY DEF Safe, Intact, ClonesOK, MetaOK, WS!Tensor, Broadcasts, Nixl, Mooncake

\* What is in the IPC buffer depends on three of its fields.
LEMMA MetaFrame ==
    ASSUME NEW r, NEW n, NEW p, NEW q, MetaOK(r, n, p),
           q.meta = p.meta, q.offset = p.offset, q.buf = p.buf
    PROVE  MetaOK(r, n, q)
  BY DEF MetaOK

\* The consumer's part of the invariant in the next state.
LEMMA ConsumerNext ==
    ASSUME NEW r, UNCHANGED <<engine, version>>,
           ClonesOK(r, 0, loaded'[r]), ClonesOK(r, Len(loaded'[r]), ipc'[r].clones),
           MetaOK(r, Len(loaded'[r]) + Len(ipc'[r].clones), ipc'[r])
    PROVE  ConsumerOK(r)'
  BY SameVersion DEF ConsumerOK

\* The consumer sends what it has packed.
LEMMA IpcSendStep == ASSUME Moving, NEW r \in Workers, IpcSend(r) PROVE Moving'
<1>1. Shape /\ Local(r) /\ ~ipc[r].sent
  BY DEF Moving, IpcSend
<1>2. /\ ipc' = [ipc EXCEPT ![r].sent = TRUE]
      /\ UNCHANGED <<engine, stage, version, buf, tx, inbox, unread, joined, loaded>>
  BY DEF IpcSend
<1>3. /\ ipc'[r].buf = ipc[r].buf /\ ipc'[r].offset = ipc[r].offset
      /\ ipc'[r].meta = ipc[r].meta /\ ipc'[r].clones = ipc[r].clones /\ ipc'[r].sent
      /\ \A q \in Workers \ {r} : ipc'[q] = ipc[q]
  BY <1>1, <1>2 DEF Shape, IpcShape
<1>4. /\ rx'[r].idx = rx[r].idx /\ rx'[r].out = rx[r].out /\ rx'[r].last = rx[r].last
      /\ rx'[r].fly = rx[r].fly /\ rx'[r].coming = rx[r].coming
      /\ \A q \in Workers \ {r} : rx'[q] = rx[q]
      /\ \/ rx[r].at = "yield" /\ rx'[r].at = "yield"
         \/ rx[r].at = "ended" /\ rx'[r].at = "last_sent"
  BY <1>1 DEF Shape, RxShape, IpcSend, Yielding
<1>8. RxShape'
  <2>1. CASE UNCHANGED rx
    BY <2>1, <1>1 DEF Shape, RxShape
  <2>2. CASE rx' = [rx EXCEPT ![r].at = "last_sent"]
    <3>1. "last_sent" \in RxAt
      BY DEF RxAt
    <3> QED
      BY <3>1, <2>2, <1>1, RxAtNext
  <2> QED
    BY <2>1, <2>2 DEF IpcSend
<1>5. Shape'
  <2>1. IpcShape'
    BY <1>1, <1>2 DEF Shape, IpcShape
  <2> QED
    BY <2>1, <1>1, <1>2, <1>8 DEF Shape, TxShape, BufShape
<1>6. Passed(r)' = Passed(r) /\ Pos(r)' = Pos(r)
  BY <1>2, <1>3, <1>4 DEF Passed, Pos
<1>7. Local(r)'
  <2>1. ConsumerOK(r)'
    <3>1. MetaOK(r, Len(loaded[r]) + Len(ipc[r].clones), ipc'[r])
      BY <1>1, <1>3, MetaFrame DEF Local, ConsumerOK
    <3>2. ClonesOK(r, 0, loaded[r]) /\ ClonesOK(r, Len(loaded[r]), ipc[r].clones)
      BY <1>1 DEF Local, ConsumerOK
    <3> QED
      BY <3>1, <3>2, <1>2, <1>3, ConsumerNext
  <2>2. OutOK(r)'
    BY <1>1, <1>2, <1>4, <1>6, SameVersion DEF Local, OutOK
  <2>3. EndOK(r)'
    BY <1>1, <1>2, <1>3, <1>4, <1>6, SameVersion DEF Local, EndOK
  <2> QED
    BY <2>1, <2>2, <2>3 DEF Local
<1> QED
  BY <1>2, <1>3, <1>4, <1>5, <1>6, <1>7, ConsumerMoves

\* The worker's update returns.
LEMMA WorkerDoneStep == ASSUME Moving, NEW r \in Workers, WorkerDone(r) PROVE Moving'
<1>1. /\ Shape /\ Local(r) /\ rx[r].at = "last_sent" /\ ~ipc[r].sent /\ ipc[r].clones = << >>
      /\ rx' = [rx EXCEPT ![r].at = "done"]
      /\ UNCHANGED <<engine, stage, version, buf, tx, inbox, unread, joined, ipc, loaded>>
  BY DEF Moving, WorkerDone
<1>2. /\ rx'[r].idx = rx[r].idx /\ rx'[r].out = rx[r].out /\ rx'[r].last = rx[r].last
      /\ rx'[r].fly = rx[r].fly /\ rx'[r].coming = rx[r].coming /\ rx'[r].at = "done"
      /\ \A q \in Workers \ {r} : rx'[q] = rx[q]
  BY <1>1 DEF Shape, RxShape
<1>6. RxShape'
  <2>1. "done" \in RxAt
    BY DEF RxAt
  <2> QED
    BY <2>1, <1>1, RxAtNext
<1>3. Shape'
  BY <1>1, <1>6 DEF Shape, TxShape, BufShape, IpcShape
<1>4. Passed(r)' = Passed(r) /\ Pos(r)' = Pos(r)
  BY <1>1, <1>2 DEF Passed, Pos
<1>5. Local(r)'
  <2>1. ConsumerOK(r)'
    BY <1>1, SameVersion DEF Local, ConsumerOK
  <2>2. OutOK(r)'
    BY <1>1, <1>2, <1>4, SameVersion DEF Local, OutOK
  <2>3. EndOK(r)'
    BY <1>1, <1>2, <1>4, SameVersion DEF Local, EndOK
  <2> QED
    BY <2>1, <2>2, <2>3 DEF Local
<1> QED
  BY <1>1, <1>2, <1>3, <1>4, <1>5, ConsumerMoves

\* What the inference process clones is what was copied.
Cloned(r, t, k, contents) ==
    /\ t.w = k /\ k \in Tensors /\ contents \in SUBSET Cell
    /\ Safe(r, k) => <<t.w, contents>> = WS!Tensor(k)

\* A clone has the contents of the tensor it was made from.
LEMMA CloneContents ==
    ASSUME Shape, NEW r \in Workers, ConsumerOK(r), NEW i \in 1 .. Len(ipc[r].meta),
           NEW k, k = Len(loaded[r]) + Len(ipc[r].clones) + i
    PROVE  Cloned(r, ipc[r].meta[i], k, Contents(ipc[r].buf, ipc[r].meta[i]))
<1> DEFINE p == ipc[r]
           t == p.meta[i]
           n == Len(loaded[r]) + Len(p.clones)
<1>1. MetaOK(r, n, p) /\ k = n + i
  BY DEF ConsumerOK
<1>2. /\ t.w = k /\ t.offset + Sizes[k] <= p.offset
      /\ Safe(r, k) => \A c \in CellsOf(t) : p.buf[c] = <<version, k>>
  <2> HIDE DEF n, p
  <2> QED
    BY <1>1 DEF MetaOK, p
<1>3. t \in Places /\ p.offset \in 0 .. LoadSize /\ p.buf \in [0 .. LoadSize - 1 -> Cell]
  BY IpcTypes
<1> HIDE DEF t
<1>4. k \in Tensors /\ t.offset \in Nat /\ Sizes[k] \in Nat /\ Sizes[k] > 0 /\ LoadSize \in Nat
  BY <1>2, <1>3, Sizing DEF Places
<1>5. CellsOf(t) = t.offset .. t.offset + Sizes[k] - 1
  BY <1>2 DEF CellsOf
<1> HIDE DEF p
<1>6. CellsOf(t) \subseteq 0 .. LoadSize - 1
  <2>1. \A c \in t.offset .. t.offset + Sizes[k] - 1 : c \in 0 .. LoadSize - 1
    <3>1. p.offset \in Nat
      BY <1>3, <1>4
    <3> QED
      BY <3>1, <1>2, <1>3, <1>4, CellBefore
  <2> QED
    BY <2>1, <1>5
<1>7. Contents(p.buf, t) \in SUBSET Cell
  BY <1>3, <1>6 DEF Contents
<1>8. ASSUME Safe(r, k) PROVE Contents(p.buf, t) = {<<version, k>>}
  <2>1. t.offset \in CellsOf(t)
    BY <1>4, <1>5, FirstOf
  <2>2. \A c \in CellsOf(t) : p.buf[c] = <<version, k>>
    BY <1>2, <1>8
  <2> QED
    BY <2>1, <2>2 DEF Contents
<1> QED
  BY <1>2, <1>4, <1>7, <1>8 DEF t, p, WS!Tensor, Cloned

\* The inference process clones a bucket.
LEMMA IpcCloneStep == ASSUME Moving, NEW r \in Workers, IpcClone(r) PROVE Moving'
<1> DEFINE p == ipc[r]
           c == [i \in DOMAIN p.meta |-> <<p.meta[i].w, Contents(p.buf, p.meta[i])>>]
<1>1. /\ Shape /\ Local(r) /\ p.sent /\ p.clones = << >>
      /\ ipc' = [ipc EXCEPT ![r].sent = FALSE, ![r].offset = 0, ![r].meta = << >>,
                            ![r].clones = c]
      /\ UNCHANGED <<engine, stage, version, buf, tx, rx, inbox, unread, joined, loaded>>
  BY DEF Moving, IpcClone
<1>2. /\ c \in Seq(Contained) /\ Len(c) = Len(p.meta)
      /\ ClonesOK(r, Len(loaded[r]), c)
  <2>1. DOMAIN p.meta = 1 .. Len(p.meta) /\ Len(p.meta) \in Nat
    BY <1>1, IpcTypes
  <2>2. Len(loaded[r]) \in Nat /\ Len(p.clones) = 0 /\ Len(loaded[r]) + Len(p.clones) = Len(loaded[r])
    BY <1>1, LengthTypes
  <2>3. ASSUME NEW i \in 1 .. Len(p.meta)
        PROVE  /\ c[i] \in Contained /\ c[i][1] = Len(loaded[r]) + i
               /\ Safe(r, Len(loaded[r]) + i) => c[i] = WS!Tensor(Len(loaded[r]) + i)
    <3>1. Cloned(r, p.meta[i], Len(loaded[r]) + Len(p.clones) + i, Contents(p.buf, p.meta[i]))
      BY <1>1, CloneContents DEF Local
    <3>2. Cloned(r, p.meta[i], Len(loaded[r]) + i, Contents(p.buf, p.meta[i]))
      BY <3>1, <2>2
    <3>3. c[i] = <<p.meta[i].w, Contents(p.buf, p.meta[i])>>
      BY <2>1
    <3> HIDE DEF c
    <3>4. p.meta[i].w = Len(loaded[r]) + i /\ c[i][1] = Len(loaded[r]) + i
      BY <3>2, <3>3 DEF Cloned
    <3>5. c[i] \in Contained
      BY <3>2, <3>3 DEF Cloned, Contained
    <3>6. Safe(r, Len(loaded[r]) + i) => c[i] = WS!Tensor(Len(loaded[r]) + i)
      BY <3>2, <3>3 DEF Cloned
    <3> QED
      BY <3>4, <3>5, <3>6
  <2>4. c = [i \in 1 .. Len(p.meta) |-> c[i]]
    BY <2>1
  <2> HIDE DEF c
  <2>5. c \in [1 .. Len(p.meta) -> Contained]
    BY <2>3, <2>4
  <2>6. c \in Seq(Contained) /\ Len(c) = Len(p.meta)
    BY <2>1, <2>5
  <2> QED
    BY <2>3, <2>6 DEF ClonesOK
<1> HIDE DEF c
<1> DEFINE e == [p EXCEPT !.sent = FALSE, !.offset = 0, !.meta = << >>, !.clones = c]
<1>7. p \in IpcRecord
  BY <1>1 DEF Shape, IpcShape, IpcRecord
<1>8. /\ e \in IpcRecord /\ e.buf = p.buf /\ e.offset = 0 /\ e.meta = << >> /\ e.clones = c
      /\ e.sent = FALSE
  <2>1. 0 \in 0 .. LoadSize /\ << >> \in Seq(Places)
    BY Sizing
  <2> QED
    BY <2>1, <1>2, <1>7 DEF IpcRecord
<1>9. ipc' = [ipc EXCEPT ![r] = e]
  BY <1>1
<1> HIDE DEF e
<1>10. IpcShape' /\ ipc'[r] = e /\ \A q \in Workers \ {r} : ipc'[q] = ipc[q]
  BY <1>1, <1>8, <1>9, IpcNext
<1>3. /\ ipc'[r].buf = p.buf /\ ipc'[r].offset = 0 /\ ipc'[r].meta = << >>
      /\ ipc'[r].clones = c /\ ~ipc'[r].sent
      /\ \A q \in Workers \ {r} : ipc'[q] = ipc[q]
  BY <1>8, <1>10
<1>4. Shape'
  BY <1>10, <1>1 DEF Shape, TxShape, BufShape, RxShape
<1>5. Passed(r)' = Passed(r) /\ Pos(r)' = Pos(r) /\ loaded'[r] = loaded[r]
  <2>1. /\ Len(loaded[r]) \in Nat /\ Len(p.meta) \in Nat /\ Len(<< >>) = 0 /\ Len(p.clones) = 0
    BY <1>1, LengthTypes
  <2>2. Passed(r)' = Len(loaded[r]) + Len(p.meta) + 0
    BY <2>1, <1>1, <1>2, <1>3 DEF Passed
  <2>3. Passed(r) = Len(loaded[r]) + 0 + Len(p.meta)
    BY <2>1 DEF Passed
  <2>4. Passed(r)' = Passed(r)
    BY <2>1, <2>2, <2>3, ZeroMoves
  <2> QED
    BY <2>4, <1>1 DEF Pos
<1>6. Local(r)'
  <2>1. ConsumerOK(r)'
    <3>1. MetaOK(r, Len(loaded[r]) + Len(c), ipc'[r])
      <4>1. 1 .. Len(ipc'[r].meta) = {}
        BY <1>3
      <4> QED
        BY <4>1 DEF MetaOK
    <3>2. ClonesOK(r, 0, loaded[r])
      BY <1>1 DEF Local, ConsumerOK
    <3> QED
      BY <3>1, <3>2, <1>1, <1>2, <1>3, ConsumerNext
  <2>2. OutOK(r)'
    BY <1>1, <1>5, SameVersion DEF Local, OutOK
  <2>3. EndOK(r)'
    BY <1>1, <1>3, <1>5, SameVersion DEF Local, EndOK
  <2> QED
    BY <2>1, <2>2, <2>3 DEF Local
<1> QED
  BY <1>1, <1>3, <1>4, <1>5, <1>6, ConsumerMoves

\* A term of a sum that is zero.
LEMMA SumZero == ASSUME NEW a \in Nat, NEW b \in Nat, NEW c \in Nat PROVE a + b + 0 + c = a + b + c
  OBVIOUS

\* What concatenation does to two sequences.
LEMMA Joined ==
    ASSUME NEW S, NEW s \in Seq(S), NEW t \in Seq(S)
    PROVE  /\ s \o t \in Seq(S) /\ Len(s \o t) = Len(s) + Len(t)
           /\ Len(s) \in Nat /\ Len(t) \in Nat
           /\ \A i \in 1 .. Len(s \o t) :
                 \/ i \in 1 .. Len(s) /\ (s \o t)[i] = s[i]
                 \/ /\ i - Len(s) \in 1 .. Len(t) /\ (s \o t)[i] = t[i - Len(s)]
                    /\ Len(s) + (i - Len(s)) = i
  OBVIOUS

\* Loading what follows what is loaded.
LEMMA ClonesJoined ==
    ASSUME NEW r, NEW s \in Seq(Contained), NEW t \in Seq(Contained),
           ClonesOK(r, 0, s), ClonesOK(r, Len(s), t)
    PROVE  ClonesOK(r, 0, s \o t)
<1> DEFINE u == s \o t
<1>1. /\ Len(s) \in Nat /\ Len(t) \in Nat
      /\ \A i \in 1 .. Len(u) :
            \/ i \in 1 .. Len(s) /\ u[i] = s[i]
            \/ i - Len(s) \in 1 .. Len(t) /\ u[i] = t[i - Len(s)] /\ Len(s) + (i - Len(s)) = i
  BY Joined
<1> HIDE DEF u
<1>2. ASSUME NEW i \in 1 .. Len(u) PROVE u[i][1] = 0 + i /\ (Safe(r, 0 + i) => u[i] = WS!Tensor(0 + i))
  <2>1. CASE i \in 1 .. Len(s) /\ u[i] = s[i]
    BY <2>1 DEF ClonesOK
  <2>2. CASE i - Len(s) \in 1 .. Len(t) /\ u[i] = t[i - Len(s)] /\ Len(s) + (i - Len(s)) = i
    <3>1. 0 + i = i
      OBVIOUS
    <3>2. /\ t[i - Len(s)][1] = Len(s) + (i - Len(s))
          /\ Safe(r, Len(s) + (i - Len(s))) => t[i - Len(s)] = WS!Tensor(Len(s) + (i - Len(s)))
      BY <2>2 DEF ClonesOK
    <3> QED
      BY <3>1, <3>2, <2>2
  <2> QED
    BY <1>1, <2>1, <2>2
<1> QED
  BY <1>2 DEF ClonesOK, u

\* The clones are loaded.
LEMMA IpcLoadStep == ASSUME Moving, NEW r \in Workers, IpcLoad(r) PROVE Moving'
<1> DEFINE p == ipc[r]
           e == [p EXCEPT !.clones = << >>]
           l == loaded[r] \o p.clones
<1>1. /\ Shape /\ Local(r) /\ p.clones # << >>
      /\ ipc' = [ipc EXCEPT ![r] = e] /\ loaded' = [loaded EXCEPT ![r] = l]
      /\ UNCHANGED <<engine, stage, version, buf, tx, rx, inbox, unread, joined>>
  BY DEF Moving, IpcLoad
<1>2. p \in IpcRecord
  BY <1>1 DEF Shape, IpcShape, IpcRecord
<1>3. /\ e \in IpcRecord /\ e.buf = p.buf /\ e.offset = p.offset /\ e.meta = p.meta
      /\ e.clones = << >> /\ e.sent = p.sent
  <2>1. << >> \in Seq(Contained)
    OBVIOUS
  <2> QED
    BY <2>1, <1>2 DEF IpcRecord
<1>4. IpcShape' /\ ipc'[r] = e /\ \A q \in Workers \ {r} : ipc'[q] = ipc[q]
  <2> HIDE DEF e
  <2> QED
    BY <1>1, <1>3, IpcNext
<1>5. /\ loaded[r] \in Seq(Contained) /\ p.clones \in Seq(Contained)
      /\ l \in Seq(Contained) /\ Len(l) = Len(loaded[r]) + Len(p.clones)
      /\ Len(loaded[r]) \in Nat /\ Len(p.clones) \in Nat /\ Len(p.meta) \in Nat
      /\ Len(<< >>) = 0
  <2>1. loaded[r] \in Seq(Contained) /\ p.clones \in Seq(Contained)
    BY <1>1, QueueTypes, IpcTypes
  <2>2. Len(p.meta) \in Nat
    BY <1>1, LengthTypes
  <2> HIDE DEF p
  <2> QED
    BY <2>1, <2>2, Joined
<1> HIDE DEF e, l
<1>6. /\ loaded' \in [Workers -> Seq(Contained)] /\ loaded'[r] = l
      /\ \A q \in Workers \ {r} : loaded'[q] = loaded[q]
  BY <1>1, <1>5 DEF Shape
<1>7. Shape'
  BY <1>1, <1>4, <1>6 DEF Shape, TxShape, RxShape, BufShape
<1>8. Passed(r)' = Passed(r) /\ Pos(r)' = Pos(r)
  <2>1. Passed(r)' = Len(loaded[r]) + Len(p.clones) + 0 + Len(p.meta)
    BY <1>3, <1>4, <1>5, <1>6 DEF Passed
  <2>2. Passed(r)' = Passed(r)
    BY <2>1, <1>5, SumZero DEF Passed
  <2> QED
    BY <2>2, <1>1 DEF Pos
<1>9. Local(r)'
  <2>1. ConsumerOK(r)'
    <3>1. ClonesOK(r, 0, l)
      BY <1>1, <1>5, ClonesJoined DEF Local, ConsumerOK, l
    <3>2. ClonesOK(r, Len(l), ipc'[r].clones)
      <4>1. 1 .. Len(ipc'[r].clones) = {}
        BY <1>3, <1>4
      <4> QED
        BY <4>1 DEF ClonesOK
    <3>3. Len(l) + Len(ipc'[r].clones) = Len(loaded[r]) + Len(p.clones)
      <4>1. Len(ipc'[r].clones) = 0
        BY <1>3, <1>4
      <4> QED
        BY <4>1, <1>5
    <3>4. MetaOK(r, Len(loaded[r]) + Len(p.clones), ipc'[r])
      BY <1>1, <1>3, <1>4, MetaFrame DEF Local, ConsumerOK
    <3> QED
      BY <3>1, <3>2, <3>3, <3>4, <1>1, <1>6, ConsumerNext
  <2>2. OutOK(r)'
    BY <1>1, <1>8, SameVersion DEF Local, OutOK
  <2>3. EndOK(r)'
    BY <1>1, <1>3, <1>4, <1>8, SameVersion DEF Local, EndOK
  <2> QED
    BY <2>1, <2>2, <2>3 DEF Local
<1> QED
  BY <1>1, <1>4, <1>6, <1>7, <1>8, <1>9, ConsumerMoves

\* An offer depends on the version and on nothing else of the state.
LEMMA SameOffers ==
    ASSUME UNCHANGED version
    PROVE  \A b, h : Offered(b, h)' = Offered(b, h)
  BY DEF Offered, Intact, BucketOK, Run

\* A worker's link rests on its own progress and on the halves it will read.
LEMMA NcclFrame ==
    ASSUME NEW q \in Workers, Broadcasts, Links(q), UNCHANGED <<engine, version>>,
           inbox'[q] = inbox[q], q \in unread' <=> q \in unread,
           buf'[q][Other(rx[q].idx)] = buf[q][Other(rx[q].idx)],
           buf'[0][Half(0)] = buf[0][Half(0)],
           rx'[q].fly = rx[q].fly, rx'[q].coming = rx[q].coming, rx'[q].idx = rx[q].idx,
           Pos(q)' = Pos(q), Given(0)' = Given(0), Half(0)' = Half(0)
    PROVE  Links(q)'
<1>1. Got(q)' = Got(q)
  BY DEF Got
<1>2. ASSUME NEW b, Takes(q, 0, b) PROVE Takes(q, 0, b)'
  BY <1>1, <1>2, SameOffers DEF Takes
<1>3. Landed(q)'
  BY SameOffers DEF Links, NcclLink, Landed
<1>4. Broadcasts' /\ ~Nixl' /\ ~Mooncake'
  BY DEF Broadcasts, Nixl, Mooncake
<1> QED
  BY <1>1, <1>2, <1>3, <1>4 DEF Links, NcclLink

\* Nixl's link depends on the half that holds the last offer.
LEMMA NixlFrame ==
    ASSUME NEW q \in Workers, Nixl, Links(q), UNCHANGED <<engine, version>>,
           inbox'[q] = inbox[q], q \in unread' <=> q \in unread,
           buf'[q][Other(rx[q].idx)] = buf[q][Other(rx[q].idx)],
           buf'[q - 1][Half(q - 1)] = buf[q - 1][Half(q - 1)],
           rx'[q].fly = rx[q].fly, rx'[q].coming = rx[q].coming, rx'[q].idx = rx[q].idx,
           Pos(q)' = Pos(q), Given(q - 1)' = Given(q - 1), Half(q - 1)' = Half(q - 1)
    PROVE  Links(q)'
<1>1. Got(q)' = Got(q)
  BY DEF Got
<1>2. ASSUME NEW b, Takes(q, q - 1, b) PROVE Takes(q, q - 1, b)'
  BY <1>1, <1>2, SameOffers DEF Takes
<1>3. Landed(q)'
  BY SameOffers DEF Links, NixlLink, Landed
<1>4. Nixl' /\ ~Broadcasts' /\ ~Mooncake'
  BY DEF Broadcasts, Nixl, Mooncake
<1> QED
  BY <1>1, <1>2, <1>3, <1>4 DEF Links, NixlLink

\* Mooncake's link depends on the halves that hold what is on its way.
LEMMA MooncakeFrame ==
    ASSUME NEW q \in Workers, Mooncake, Links(q), UNCHANGED <<engine, version>>,
           inbox'[q] = inbox[q],
           \A i \in 1 .. Len(inbox[q]) :
               buf'[q - 1][inbox[q][i].src] = buf[q - 1][inbox[q][i].src],
           rx[q].at = "yield" => buf'[q - 1][rx[q].coming.src] = buf[q - 1][rx[q].coming.src],
           rx'[q].fly = rx[q].fly, rx'[q].coming = rx[q].coming, rx'[q].idx = rx[q].idx,
           rx'[q].at = "yield" <=> rx[q].at = "yield",
           Pos(q)' = Pos(q), Given(q - 1)' = Given(q - 1), Sent(q - 1)' = Sent(q - 1),
           q = 1 => (tx'.at = "fill" <=> tx.at = "fill")
    PROVE  Links(q)'
<1>1. Taken(q)' = Taken(q)
  BY DEF Taken
<1>2. Mooncake' /\ ~Broadcasts' /\ ~Nixl'
  BY DEF Broadcasts, Nixl, Mooncake
<1>3. MooncakeLink(q)
  BY DEF Links
<1>4. \A i \in 1 .. Len(inbox[q]) : Offered(inbox[q][i], buf[q - 1][inbox[q][i].src])'
  <2>1. ASSUME NEW i \in 1 .. Len(inbox[q]), NEW b, b = inbox[q][i]
        PROVE  Offered(inbox[q][i], buf[q - 1][inbox[q][i].src])'
    <3>1. Offered(b, buf[q - 1][b.src])
      BY <1>3, <2>1 DEF MooncakeLink
    <3>2. inbox'[q][i] = b /\ buf'[q - 1][b.src] = buf[q - 1][b.src]
      BY <2>1
    <3> QED
      BY <3>1, <3>2, SameOffers
  <2> QED
    BY <2>1
<1> QED
  BY <1>1, <1>2, <1>3, <1>4 DEF Links, MooncakeLink

\* What a rank has passed on, when nothing of it changes.
LEMMA RankSame ==
    ASSUME NEW q \in Workers, rx'[q] = rx[q], ipc'[q] = ipc[q], loaded'[q] = loaded[q]
    PROVE  /\ Passed(q)' = Passed(q) /\ Pos(q)' = Pos(q) /\ Got(q)' = Got(q)
           /\ Taken(q)' = Taken(q) /\ Given(q)' = Given(q) /\ Half(q)' = Half(q)
           /\ Sent(q)' = Sent(q)
<1>1. q > 0
  BY RankTypes
<1>2. Passed(q)' = Passed(q) /\ Pos(q)' = Pos(q) /\ Got(q)' = Got(q) /\ Taken(q)' = Taken(q)
  BY DEF Passed, Pos, Got, Taken
<1> QED
  BY <1>1, <1>2 DEF Given, Half, Sent

\* What rank 0 has given depends on its generator.
LEMMA TxSame ==
    ASSUME UNCHANGED tx
    PROVE  Given(0)' = Given(0) /\ Half(0)' = Half(0) /\ Sent(0)' = Sent(0)
  BY DEF Given, Half, Sent

\* What a worker has given.
LEMMA RankGives ==
    ASSUME NEW r \in Workers
    PROVE  Given(r) = Pos(r) /\ Half(r) = Hand(rx[r].idx) /\ Sent(r) = Taken(r)
  BY RankTypes DEF Given, Half, Sent

\* A receiver's step in a broadcast disturbs no other rank.
LEMMA NcclMoves ==
    ASSUME Moving, NEW r \in Workers, Broadcasts, UNCHANGED <<engine, stage, version, tx>>,
           \A q \in Workers \ {r} :
               /\ rx'[q] = rx[q] /\ ipc'[q] = ipc[q] /\ loaded'[q] = loaded[q]
               /\ buf'[q] = buf[q] /\ inbox'[q] = inbox[q] /\ (q \in unread' <=> q \in unread),
           buf'[0] = buf[0], Shape', Written', Local(r)', Links(r)'
    PROVE  Moving'
<1>1. \A q \in Workers : Local(q)'
  BY LocalOthers DEF Moving
<1>2. ASSUME NEW q \in Workers \ {r} PROVE Links(q)'
  <2>1. Given(0)' = Given(0) /\ Half(0)' = Half(0) /\ Pos(q)' = Pos(q)
    BY TxSame, RankSame
  <2>2. Links(q)
    BY DEF Moving
  <2> QED
    BY <2>1, <2>2, NcclFrame
<1> QED
  BY <1>1, <1>2, TxFrame DEF Moving

\* A worker begins to receive.
LEMMA StartReceivingStep == ASSUME Moving, NEW r \in Workers, StartReceiving(r) PROVE Moving'
<1> DEFINE f == IF engine \in {"nccl", "hccl"} THEN "running" ELSE "none"
           x == [rx[r] EXCEPT !.at = "recv", !.fly = f]
<1>1. /\ Shape /\ Local(r) /\ Links(r) /\ Written /\ rx[r].at = "off" /\ rx' = [rx EXCEPT ![r] = x]
      /\ UNCHANGED <<engine, stage, version, buf, tx, inbox, unread, joined, ipc, loaded>>
  BY DEF Moving, StartReceiving
<1>2. rx[r] \in RxRecord
  BY <1>1 DEF Shape, RxShape, RxRecord
<1>3. /\ x \in RxRecord /\ x.at = "recv" /\ x.fly = f /\ x.idx = rx[r].idx
      /\ x.out = rx[r].out /\ x.last = rx[r].last /\ x.coming = rx[r].coming
  BY <1>2 DEF RxRecord, RxAt
<1>4. RxShape' /\ rx'[r] = x /\ \A q \in Workers \ {r} : rx'[q] = rx[q]
  <2> HIDE DEF x
  <2> QED
    BY <1>1, <1>3, RxNext
<1> HIDE DEF x
<1>5. Shape'
  BY <1>1, <1>4 DEF Shape, TxShape, IpcShape, BufShape
<1>6. Passed(r)' = Passed(r) /\ Pos(r)' = Pos(r)
  BY <1>1, <1>3, <1>4 DEF Passed, Pos
<1>7. rx[r].idx = 0 /\ rx[r].fly = "none" /\ rx[r].out = << >> /\ ~ipc[r].sent /\ ~rx[r].last
  BY <1>1 DEF Local, EndOK
<1>8. Local(r)'
  <2>1. ConsumerOK(r)'
    BY <1>1, SameVersion DEF Local, ConsumerOK
  <2>2. OutOK(r)'
    BY <1>1, <1>3, <1>4, <1>6, SameVersion DEF Local, OutOK
  <2>3. EndOK(r)'
    <3>1. x.fly # "none" => ~Nixl
      BY <1>3 DEF Nixl
    <3> QED
      BY <3>1, <1>1, <1>3, <1>4, <1>6, <1>7, SameVersion DEF EndOK
  <2> QED
    BY <2>1, <2>2, <2>3 DEF Local
<1>9. CASE Broadcasts
  <2>1. NcclLink(r)
    BY <1>1, <1>9 DEF Links
  <2>2. Got(r)' = Got(r) /\ Given(0)' = Given(0) /\ Half(0)' = Half(0)
    <3>1. rx[r].fly # "done" /\ rx'[r].fly # "done"
      BY <1>3, <1>4, <1>7
    <3> QED
      BY <3>1, <1>1, <1>6, TxSame DEF Got
  <2>3. Landed(r)'
    BY <1>3, <1>4 DEF Landed
  <2>4. Takes(r, 0, inbox[r][1]) => Takes(r, 0, inbox[r][1])'
    BY <1>1, <2>2, SameOffers DEF Takes
  <2>5. NcclLink(r)'
    BY <2>1, <2>2, <2>3, <2>4, <1>1 DEF NcclLink
  <2>6. Links(r)'
    BY <2>5, <1>1, <1>9 DEF Links, Broadcasts, Nixl, Mooncake
  <2> QED
    BY <2>6, <1>1, <1>4, <1>5, <1>8, <1>9, NcclMoves, WrittenFrame
<1>10. CASE ~Broadcasts
  <2>1. x.fly = rx[r].fly
    BY <1>3, <1>7, <1>10 DEF Broadcasts
  <2> QED
    BY <2>1, <1>1, <1>3, <1>4, <1>5, <1>6, <1>8, ConsumerMoves
<1> QED
  BY <1>9, <1>10

\* Its generator ends: every tensor of the last bucket is yielded.
LEMMA ReceivedStep ==
    ASSUME Moving, NEW r \in Workers, ~Mooncake, Exhausted(r), rx[r].last,
           rx' = [rx EXCEPT ![r].at = "ended"],
           UNCHANGED <<engine, stage, version, buf, tx, inbox, unread, joined, ipc, loaded>>
    PROVE  Moving'
<1>1. Shape /\ Local(r) /\ rx[r].at = "yield" /\ rx[r].out = << >>
  BY DEF Moving, Exhausted
<1>2. /\ RxShape' /\ rx'[r].at = "ended" /\ rx'[r].idx = rx[r].idx /\ rx'[r].out = rx[r].out
      /\ rx'[r].last = rx[r].last /\ rx'[r].fly = rx[r].fly
      /\ rx'[r].coming = rx[r].coming /\ \A q \in Workers \ {r} : rx'[q] = rx[q]
  <2>1. "ended" \in RxAt
    BY DEF RxAt
  <2> QED
    BY <2>1, <1>1, RxAtNext
<1>3. Shape'
  BY <1>1, <1>2 DEF Shape, TxShape, BufShape, IpcShape
<1>4. Passed(r)' = Passed(r) /\ Pos(r)' = Pos(r)
  BY <1>1, <1>2 DEF Passed, Pos
<1>5. Local(r)'
  <2>1. ConsumerOK(r)'
    BY <1>1, SameVersion DEF Local, ConsumerOK
  <2>2. OutOK(r)'
    BY <1>1, <1>2, <1>4, SameVersion DEF Local, OutOK
  <2>3. EndOK(r)'
    BY <1>1, <1>2, <1>4, SameVersion DEF Local, EndOK
  <2> QED
    BY <2>1, <2>2, <2>3 DEF Local
<1> QED
  BY <1>1, <1>2, <1>3, <1>4, <1>5, ConsumerMoves

-----------------------------------------------------------------------------
(* Buckets, and the halves they are put into.                              *)

\* A sequence of one element.
LEMMA OnlyOne ==
    ASSUME NEW S, NEW s \in Seq(S), Len(s) = 1
    PROVE  /\ s # << >> /\ Head(s) = s[1] /\ s[1] \in S /\ Tail(s) \in Seq(S) /\ Tail(s) = << >>
<1>1. s # << >>
  OBVIOUS
<1>2. Head(s) = s[1] /\ s[1] \in S /\ Tail(s) \in Seq(S) /\ Len(Tail(s)) = 0
  BY <1>1
<1>3. Tail(s) = << >>
  <2> DEFINE t == Tail(s)
  <2>1. t \in Seq(S) /\ Len(t) = 0
    BY <1>2
  <2> HIDE DEF t
  <2>2. t = << >>
    BY <2>1, NotEmpty
  <2> QED
    BY <2>2 DEF t
<1> QED
  BY <1>1, <1>2, <1>3

\* Arithmetic of the range of a bucket.
LEMMA Before == ASSUME NEW s \in Nat, NEW n \in Nat, s > 0
                PROVE  /\ s + n - 1 = s - 1 + n /\ s - 1 \in Nat /\ s - 1 + n \in Nat
                       /\ \A i \in 1 .. n : s - 1 + i \in s .. s + n - 1
                       /\ n > 0 => s \in s .. s + n - 1
  OBVIOUS

\* The tensors of a bucket.
LEMMA BucketRange ==
    ASSUME NEW b \in Buckets, BucketOK(b)
    PROVE  /\ Start(b) \in Tensors /\ End(b) \in Nat /\ End(b) <= N
           /\ Len(b.out) \in Nat /\ Len(b.out) > 0 /\ End(b) = Start(b) - 1 + Len(b.out)
           /\ Start(b) \in Start(b) .. End(b) /\ Start(b) - 1 \in Nat
           /\ \A i \in 1 .. Len(b.out) :
                 /\ b.out[i] = Slot(Start(b) - 1 + i)
                 /\ Start(b) - 1 + i \in Start(b) .. End(b)
<1>1. b.out \in Seq(Places) /\ b.out # << >>
  BY BucketTypes DEF BucketOK
<1>2. Len(b.out) \in Nat /\ Len(b.out) > 0 /\ 1 \in 1 .. Len(b.out)
  BY <1>1, NotEmpty
<1>3. b.out[1] \in Places
  BY <1>1, <1>2
<1>4. Start(b) \in Tensors /\ Start(b) \in Nat /\ Start(b) > 0
  BY <1>3, Sizing DEF Start, Places
<1>5. End(b) = Start(b) + Len(b.out) - 1
  BY DEF End
<1> DEFINE s == Start(b)
           n == Len(b.out)
<1>6. s \in Nat /\ s > 0 /\ n \in Nat /\ n > 0 /\ End(b) = s + n - 1
  BY <1>2, <1>4, <1>5
<1>7. /\ \A i \in 1 .. n : b.out[i] = Slot(s - 1 + i)
      /\ End(b) <= N
  BY DEF BucketOK, Run
<1> HIDE DEF s, n
<1>8. /\ s + n - 1 = s - 1 + n /\ s - 1 \in Nat /\ s - 1 + n \in Nat
      /\ \A i \in 1 .. n : s - 1 + i \in s .. s + n - 1
      /\ s \in s .. s + n - 1
  BY <1>6, Before
<1>9. End(b) \in Nat /\ End(b) = s - 1 + n /\ s \in s .. End(b)
  BY <1>6, <1>8
<1>10. \A i \in 1 .. n : s - 1 + i \in s .. End(b)
  BY <1>6, <1>8
<1> QED
  BY <1>2, <1>4, <1>7, <1>8, <1>9, <1>10 DEF s, n

\* A bucket's first tensor lies where the marker would be.
LEMMA Unmarked ==
    ASSUME NEW b \in Buckets, NEW h, Offered(b, h)
    PROVE  ~Marked(h)
<1>1. BucketOK(b) /\ \A k \in Start(b) .. End(b) : Intact(h, k)
  BY DEF Offered
<1>2. Start(b) \in Tensors /\ Start(b) \in Start(b) .. End(b) /\ OffsetOf[Start(b)] = 0
  BY <1>1, BucketRange DEF BucketOK
<1>3. 0 \in CellsOf(Slot(Start(b))) /\ Intact(h, Start(b))
  BY <1>1, <1>2, SlotCells
<1>4. h[0] = <<version, Start(b)>>
  BY <1>3 DEF Intact
<1>5. Start(b) # -1
  BY <1>2, Sizing
<1> QED
  BY <1>4, <1>5 DEF Marked, Magic

\* The generator takes the bucket that follows what it has had.
LEMMA TakeBucket ==
    ASSUME Shape, NEW r \in Workers, Local(r), rx[r].out = << >>, NEW b \in Buckets,
           UNCHANGED <<engine, version>>, ipc'[r] = ipc[r], loaded'[r] = loaded[r],
           rx[r].at \in {"recv", "yield"}, rx'[r].at \in {"recv", "yield"},
           rx'[r].out = b.out, rx'[r].last = b.last,
           rx'[r].at = "recv" => Nixl /\ ~b.last,
           b.last => rx'[r].fly = "none", Nixl => rx'[r].fly = "none",
           NEW h, h = buf'[r][Hand(rx'[r].idx)], Offered(b, h), Start(b) = Pos(r) + 1
    PROVE  Local(r)' /\ Pos(r)' = Pos(r) + Len(b.out) /\ Pos(r)' = End(b)
<1>1. /\ Start(b) - 1 + Len(b.out) = End(b) /\ End(b) <= N /\ Len(b.out) \in Nat
      /\ \A i \in 1 .. Len(b.out) :
            /\ b.out[i] = Slot(Start(b) - 1 + i) /\ Start(b) - 1 + i \in Start(b) .. End(b)
  BY BucketRange DEF Offered
<1>2. /\ Passed(r) = Pos(r) /\ Pos(r) \in Nat /\ Start(b) - 1 = Pos(r)
  <2>1. Len(rx[r].out) = 0 /\ Passed(r) \in Nat /\ Pos(r) = Passed(r) + Len(rx[r].out)
    BY CountTypes
  <2>2. Pos(r) = Passed(r) /\ Pos(r) \in Nat
    BY <2>1
  <2> QED
    BY <2>2
<1>3. Passed(r)' = Passed(r) /\ Pos(r)' = Pos(r) + Len(b.out)
  BY <1>2 DEF Passed, Pos
<1>4. Pos(r)' = End(b)
  BY <1>1, <1>2, <1>3
<1>5. ConsumerOK(r)'
  <2>1. /\ ClonesOK(r, 0, loaded'[r]) /\ ClonesOK(r, Len(loaded'[r]), ipc'[r].clones)
        /\ MetaOK(r, Len(loaded'[r]) + Len(ipc'[r].clones), ipc'[r])
    BY DEF Local, ConsumerOK
  <2> QED
    BY <2>1, ConsumerNext
<1>6. OutOK(r)'
  <2>1. Run(rx[r].out, Passed(r))'
    BY <1>1, <1>2, <1>3 DEF Run
  <2>2. \A i \in 1 .. Len(b.out) : Intact(h, Passed(r) + i)
    BY <1>1, <1>2 DEF Offered
  <2> QED
    BY <2>1, <2>2, <1>1, <1>3, <1>4, SameVersion DEF OutOK
<1>7. EndOK(r)'
  <2>1. b.last => End(b) = N
    BY DEF Offered, BucketOK
  <2> QED
    BY <2>1, <1>4, SameVersion DEF EndOK
<1> QED
  BY <1>3, <1>4, <1>5, <1>6, <1>7 DEF Local

\* A half of a rank's buffer is replaced.
Put(r, h, c) == buf' = [buf EXCEPT ![r][h] = c]
Known(c) == \A i \in 0 .. BucketSize - 1 : c[i] \in {Zero, Magic} \cup ((0 .. version) \X Tensors)

\* The other halves are as they were.
LEMMA PutHalf ==
    ASSUME Shape, NEW r \in Ranks, NEW h \in {0, 1}, NEW c, c \in [0 .. BucketSize - 1 -> Cell],
           Put(r, h, c)
    PROVE  /\ BufShape' /\ buf'[r][h] = c
           /\ \A q \in Ranks, i \in {0, 1} : q # r \/ i # h => buf'[q][i] = buf[q][i]
           /\ \A q \in Ranks \ {r} : buf'[q] = buf[q]
<1>1. buf \in [Ranks -> [{0, 1} -> [0 .. BucketSize - 1 -> Cell]]]
  BY DEF Shape, BufShape
<1>2. buf' \in [Ranks -> [{0, 1} -> [0 .. BucketSize - 1 -> Cell]]]
  BY <1>1 DEF Put
<1>3. /\ buf'[r][h] = c
      /\ \A q \in Ranks, i \in {0, 1} : q # r \/ i # h => buf'[q][i] = buf[q][i]
      /\ \A q \in Ranks \ {r} : buf'[q] = buf[q]
  BY <1>1 DEF Put
<1> QED
  BY <1>2, <1>3 DEF BufShape

\* No cell of a version to come is written.
LEMMA PutWritten ==
    ASSUME Shape, Written, NEW r \in Ranks, NEW h \in {0, 1}, NEW c,
           c \in [0 .. BucketSize - 1 -> Cell], Put(r, h, c), UNCHANGED version, Known(c)
    PROVE  Written'
<1>1. /\ buf'[r][h] = c
      /\ \A q \in Ranks, i \in {0, 1} : q # r \/ i # h => buf'[q][i] = buf[q][i]
  BY PutHalf
<1>2. ASSUME NEW q \in Ranks, NEW g \in {0, 1}, NEW i \in 0 .. BucketSize - 1
      PROVE  buf'[q][g][i] \in {Zero, Magic} \cup ((0 .. version) \X Tensors)
  <2>1. CASE q = r /\ g = h
    BY <2>1, <1>1 DEF Known
  <2>2. CASE q # r \/ g # h
    BY <2>2, <1>1 DEF Written
  <2> QED
    BY <2>1, <2>2
<1> QED
  BY <1>2 DEF Written

\* A half of the buffers has no such cell.
LEMMA KnownHalf ==
    ASSUME Written, NEW s \in Ranks, NEW g \in {0, 1} PROVE Known(buf[s][g])
  BY DEF Written, Known
=============================================================================
