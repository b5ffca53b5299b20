--------------------------- MODULE KLTrainerProofs ---------------------------
(* Theorems about KLTrainer: its types, its counters and its schedule, which   *)
(* checkpoints are on disk, when one is removed, and which one is exported.    *)
EXTENDS KLTrainer, SequenceTheorems, WellFoundedInduction, TLAPS

-----------------------------------------------------------------------------
(* Arithmetic of the schedule.                                             *)

\* Euclid's division, and its uniqueness.
LEMMA DivMod ==
    ASSUME NEW s \in Nat, NEW p \in Nat \ {0}
    PROVE  /\ s = (s \div p) * p + (s % p)
           /\ s % p \in 0 .. p - 1 /\ s \div p \in Nat
OBVIOUS

LEMMA DivisionUnique ==
    ASSUME NEW e \in Int, NEW q \in Int, NEW k \in Nat, NEW j \in Nat,
           NEW p \in Nat \ {0}, k < p, j < p, e * p + k = q * p + j
    PROVE  e = q /\ k = j
<1>1. (e - q) * p = j - k
  OBVIOUS
<1>2. CASE e - q >= 1
  <2>1. (e - q) * p >= p
    BY <1>2
  <2> QED
    BY <1>1, <2>1
<1>3. CASE e - q <= -1
  <2>1. (q - e) * p >= p
    BY <1>3
  <2>2. (q - e) * p = k - j
    BY <1>1
  <2> QED
    BY <2>1, <2>2
<1>4. CASE e = q
  BY <1>4
<1> QED
  BY <1>2, <1>3, <1>4

LEMMA DivModOfSum ==
    ASSUME NEW e \in Nat, NEW k \in Nat, NEW p \in Nat \ {0}, k < p
    PROVE  (e * p + k) \div p = e /\ (e * p + k) % p = k
<1> DEFINE s == e * p + k
<1>1. s \in Nat
  OBVIOUS
<1> HIDE DEF s
<1>2. s = (s \div p) * p + (s % p) /\ s % p \in 0 .. p - 1 /\ s \div p \in Nat
  BY <1>1, DivMod
<1>3. s = e * p + k
  BY DEF s
<1>4. e = s \div p /\ k = s % p
  BY <1>2, <1>3, DivisionUnique
<1> QED
  BY <1>4 DEF s

\* optim_steps_per_epoch is the number of accumulation windows of an epoch: the
\* last of them starts before the end of the epoch and reaches it.
LEMMA StepsPerEpoch ==
    /\ OptimStepsPerEpoch \in Nat \ {0}
    /\ BatchesPerEpoch > 0 =>
         /\ (OptimStepsPerEpoch - 1) * GradAccum < BatchesPerEpoch
         /\ BatchesPerEpoch <= OptimStepsPerEpoch * GradAccum
<1> DEFINE a == BatchesPerEpoch + GradAccum - 1
           c == a \div GradAccum
<1>1. GradAccum \in Nat \ {0} /\ BatchesPerEpoch \in Nat
  BY ConstantsAssumption
<1>2. a \in Nat
  BY <1>1
<1>3. a = c * GradAccum + (a % GradAccum) /\ a % GradAccum \in 0 .. GradAccum - 1 /\ c \in Nat
  BY <1>1, <1>2, DivMod
<1>4. OptimStepsPerEpoch = IF c > 1 THEN c ELSE 1
  BY DEF OptimStepsPerEpoch, CeilDiv
<1> HIDE DEF c
<1>5. OptimStepsPerEpoch \in Nat \ {0}
  BY <1>3, <1>4
<1>6. ASSUME BatchesPerEpoch > 0
      PROVE  /\ (OptimStepsPerEpoch - 1) * GradAccum < BatchesPerEpoch
             /\ BatchesPerEpoch <= OptimStepsPerEpoch * GradAccum
  <2>1. c * GradAccum <= a /\ a < c * GradAccum + GradAccum
    BY <1>1, <1>3
  <2>2. c # 0
    BY <1>1, <1>6, <2>1
  <2>3. OptimStepsPerEpoch = c
    BY <1>3, <1>4, <2>2
  <2>4. (c - 1) * GradAccum = c * GradAccum - GradAccum /\ c * GradAccum \in Nat
    BY <1>1, <1>3
  <2> HIDE DEF a
  <2>5. a = BatchesPerEpoch + GradAccum - 1
    BY DEF a
  <2> QED
    BY <1>1, <2>1, <2>3, <2>4, <2>5
<1> QED
  BY <1>5, <1>6

\* The resume plan for k < optim_steps_per_epoch steps after epoch e.
LEMMA ResumePlan ==
    ASSUME NEW e \in Nat, NEW k \in Nat, k < OptimStepsPerEpoch
    PROVE  /\ StartEpoch(e * OptimStepsPerEpoch + k) = e
           /\ SkipBatches(e * OptimStepsPerEpoch + k) = k * GradAccum
BY StepsPerEpoch, DivModOfSum DEF StartEpoch, SkipBatches

LEMMA ResumePlanTypes ==
    ASSUME NEW s \in Nat
    PROVE  /\ StartEpoch(s) \in Nat /\ s % OptimStepsPerEpoch \in Nat
           /\ s % OptimStepsPerEpoch < OptimStepsPerEpoch
           /\ s = StartEpoch(s) * OptimStepsPerEpoch + (s % OptimStepsPerEpoch)
           /\ SkipBatches(s) \in Nat
           /\ BatchesPerEpoch > 0 => SkipBatches(s) < BatchesPerEpoch
<1> DEFINE p == OptimStepsPerEpoch
           m == s % p
<1>1. p \in Nat \ {0} /\ GradAccum \in Nat \ {0} /\ BatchesPerEpoch \in Nat
  BY StepsPerEpoch, ConstantsAssumption
<1>2. s = (s \div p) * p + m /\ m \in 0 .. p - 1 /\ s \div p \in Nat
  BY <1>1, DivMod
<1>3. SkipBatches(s) = m * GradAccum /\ StartEpoch(s) = s \div p
  BY DEF SkipBatches, StartEpoch
<1> HIDE DEF m
<1>4. m * GradAccum \in Nat
  BY <1>1, <1>2
<1>5. ASSUME BatchesPerEpoch > 0 PROVE m * GradAccum < BatchesPerEpoch
  <2> HIDE DEF p
  <2>1. (p - 1) * GradAccum < BatchesPerEpoch
    BY <1>5, StepsPerEpoch DEF p
  <2>2. m * GradAccum <= (p - 1) * GradAccum
    <3>1. m <= p - 1
      BY <1>1, <1>2
    <3> QED
      BY <1>1, <1>2, <3>1
  <2> QED
    BY <1>1, <1>4, <2>1, <2>2, (p - 1) * GradAccum \in Int
<1>6. s = StartEpoch(s) * p + m /\ StartEpoch(s) \in Nat /\ m \in Nat /\ m < p
  BY <1>1, <1>2, <1>3
<1>7. SkipBatches(s) \in Nat /\ (BatchesPerEpoch > 0 => SkipBatches(s) < BatchesPerEpoch)
  BY <1>3, <1>4, <1>5
<1> QED
  BY <1>6, <1>7, Zenon DEF m
-----------------------------------------------------------------------------
(* Lineages.                                                               *)

\* Nothing trained yet: the schedule starts at its first batch.
LEMMA ChainEmpty == Chain(<< >>) /\ After(<< >>) = <<0, 0>>
BY EmptySeq DEF Chain, After

\* A lineage extended by the batch that comes next follows the schedule.
LEMMA ChainAppend ==
    ASSUME NEW w \in Seq(Batch), Chain(w), NEW b \in Batch, b = After(w)
    PROVE  Chain(Append(w, b)) /\ After(Append(w, b)) = NextBatch(b)
<1> DEFINE v == Append(w, b)
<1>1. /\ v \in Seq(Batch) /\ v # << >> /\ Len(v) = Len(w) + 1 /\ Len(w) \in Nat
      /\ \A i \in 1 .. Len(w) : v[i] = w[i]
      /\ v[Len(w) + 1] = b
  BY AppendProperties, LenProperties
<1> HIDE DEF v
<1>2. After(v) = NextBatch(b)
  BY <1>1 DEF After
<1>3. v[1] = <<0, 0>>
  <2>1. CASE w = << >>
    BY <1>1, <2>1, EmptySeq DEF After
  <2>2. CASE w # << >>
    <3>1. Len(w) >= 1
      BY <1>1, <2>2, EmptySeq
    <3> QED
      BY <1>1, <2>2, <3>1 DEF Chain
  <2> QED
    BY <2>1, <2>2
<1>4. ASSUME NEW i \in 1 .. Len(v) - 1 PROVE v[i + 1] = NextBatch(v[i])
  <2>1. i \in 1 .. Len(w)
    BY <1>1
  <2>2. CASE i = Len(w)
    <3>1. w # << >>
      BY <1>1, <2>1, <2>2, EmptySeq
    <3> QED
      BY <1>1, <2>1, <2>2, <3>1 DEF After
  <2>3. CASE i # Len(w)
    <3>1. i \in 1 .. Len(w) - 1 /\ i + 1 \in 1 .. Len(w)
      BY <1>1, <2>1, <2>3
    <3> QED
      BY <1>1, <2>1, <3>1 DEF Chain
  <2> QED
    BY <2>2, <2>3
<1> QED
  BY <1>2, <1>3, <1>4 DEF Chain, v

\* What was applied since the load grows by what an optimizer step applies.
LEMMA LiveAppend ==
    ASSUME NEW w \in Seq(Batch), NEW a \in Seq(Batch), NEW n \in Nat, n <= Len(w)
    PROVE  SubSeq(w \o a, n + 1, Len(w \o a)) = SubSeq(w, n + 1, Len(w)) \o a
<1> DEFINE c == w \o a
           l == SubSeq(c, n + 1, Len(c))
           h == SubSeq(w, n + 1, Len(w))
<1>1. /\ c \in Seq(Batch) /\ Len(c) = Len(w) + Len(a) /\ Len(w) \in Nat /\ Len(a) \in Nat
      /\ \A i \in 1 .. Len(w) + Len(a) : c[i] = IF i <= Len(w) THEN w[i] ELSE a[i - Len(w)]
  BY ConcatProperties, LenProperties
<1> HIDE DEF c
<1>2. /\ l \in Seq(Batch) /\ Len(l) = Len(c) - n
      /\ \A i \in 1 .. Len(c) - n : l[i] = c[n + i]
  <2>1. \A i \in n + 1 .. Len(c) : c[i] \in Batch
    BY <1>1, ElementOfSeq
  <2>2. n + 1 \in Int /\ Len(c) \in Int
    BY <1>1
  <2>3. /\ l \in Seq(Batch) /\ Len(l) = IF n + 1 <= Len(c) THEN Len(c) - (n + 1) + 1 ELSE 0
        /\ \A i \in 1 .. Len(c) - (n + 1) + 1 : l[i] = c[(n + 1) + i - 1]
    BY <2>1, <2>2, SubSeqProperties
  <2> QED
    BY <1>1, <2>3
<1>3. /\ h \in Seq(Batch) /\ Len(h) = Len(w) - n
      /\ \A i \in 1 .. Len(w) - n : h[i] = w[n + i]
  <2>1. \A i \in n + 1 .. Len(w) : w[i] \in Batch
    BY <1>1, ElementOfSeq
  <2>2. n + 1 \in Int /\ Len(w) \in Int
    BY <1>1
  <2>3. /\ h \in Seq(Batch) /\ Len(h) = IF n + 1 <= Len(w) THEN Len(w) - (n + 1) + 1 ELSE 0
        /\ \A i \in 1 .. Len(w) - (n + 1) + 1 : h[i] = w[(n + 1) + i - 1]
    BY <2>1, <2>2, SubSeqProperties
  <2> QED
    BY <1>1, <2>3
<1> HIDE DEF l, h
<1>4. /\ h \o a \in Seq(Batch) /\ Len(h \o a) = Len(h) + Len(a)
      /\ \A i \in 1 .. Len(h) + Len(a) :
            (h \o a)[i] = IF i <= Len(h) THEN h[i] ELSE a[i - Len(h)]
  BY <1>3, ConcatProperties
<1>5. Len(l) = Len(h \o a)
  BY <1>1, <1>2, <1>3, <1>4
<1>6. ASSUME NEW i \in 1 .. Len(l) PROVE l[i] = (h \o a)[i]
  <2>1. l[i] = c[n + i] /\ n + i \in 1 .. Len(c)
    BY <1>1, <1>2
  <2>2. CASE i <= Len(h)
    BY <1>1, <1>2, <1>3, <1>4, <1>5, <2>1, <2>2
  <2>3. CASE i > Len(h)
    <3>1. ~(i <= Len(h)) /\ ~(n + i <= Len(w)) /\ (n + i) - Len(w) = i - Len(h)
      BY <1>1, <1>2, <1>3, <2>3
    <3>2. i \in 1 .. Len(h) + Len(a)
      BY <1>4, <1>5
    <3>3. (h \o a)[i] = a[i - Len(h)]
      BY <1>4, <3>1, <3>2
    <3>4. c[n + i] = a[(n + i) - Len(w)]
      BY <1>1, <2>1, <3>1
    <3> QED
      BY <2>1, <3>1, <3>3, <3>4
  <2> QED
    BY <1>1, <1>2, <1>3, <2>2, <2>3
<1>7. l = h \o a
  BY <1>2, <1>4, <1>5, <1>6, SeqEqual
<1> QED
  BY <1>7 DEF l, h, c
-----------------------------------------------------------------------------
(* Types.                                                                  *)

\* What TypeOK says of disk.
DiskType(f) == DOMAIN f \subseteq Nat /\ \A s \in DOMAIN f : f[s] \in Dir

LEMMA ShardTypes ==
    /\ Torn \in Shard /\ EmptyDir \in Dir
    /\ \A w \in Seq(Batch) : Full(w) \in Shard
BY EmptySeq DEF Torn, Absent, Full, Shard, EmptyDir, Dir

\* Every change a save makes to the disk keeps its type.
LEMMA PutShardType ==
    ASSUME DiskType(disk), NEW g \in Nat, NEW r \in Ranks, NEW v \in Shard
    PROVE  DiskType([disk EXCEPT ![g].shard[r] = v])
<1> DEFINE f == [disk EXCEPT ![g].shard[r] = v]
<1>1. DOMAIN f = DOMAIN disk
  OBVIOUS
<1>2. ASSUME NEW s \in DOMAIN disk PROVE f[s] \in Dir
  BY <1>2 DEF DiskType, Dir
<1> QED
  BY <1>1, <1>2 DEF DiskType

LEMMA PutAssetsType ==
    ASSUME DiskType(disk), NEW g \in Nat
    PROVE  DiskType([disk EXCEPT ![g].assets = TRUE])
<1> DEFINE f == [disk EXCEPT ![g].assets = TRUE]
<1>1. DOMAIN f = DOMAIN disk
  OBVIOUS
<1>2. ASSUME NEW s \in DOMAIN disk PROVE f[s] \in Dir
  BY <1>2 DEF DiskType, Dir
<1> QED
  BY <1>1, <1>2 DEF DiskType

LEMMA MakeDirType ==
    ASSUME DiskType(disk), global_step \in Nat
    PROVE  DiskType(MakeDir(disk))
BY ShardTypes DEF DiskType, MakeDir, With

LEMMA RotateType ==
    ASSUME DiskType(disk), NEW q \in Seq(Nat), NEW n \in 0 .. Len(q), Rotate(q, disk, n)
    PROVE  DiskType(disk') /\ previous_saved_paths' \in Seq(Nat)
<1>1. DiskType(disk')
  BY DEF Rotate, Without, DiskType
<1>2. SubSeq(q, n + 1, Len(q)) \in Seq(Nat)
  <2>1. Len(q) \in Int /\ n + 1 \in Int
    BY LenProperties
  <2>2. \A i \in n + 1 .. Len(q) : q[i] \in Nat
    BY <2>1, ElementOfSeq
  <2> QED
    BY <2>1, <2>2, SubSeqProperties
<1> QED
  BY <1>1, <1>2 DEF Rotate

\* Never more paths are removed than are tracked.
LEMMA DropTypes ==
    ASSUME conf \in Configs, NEW q \in Seq(Nat), previous_saved_paths \in Seq(Nat)
    PROVE  /\ EnsureCapacityDrop \in 0 .. Len(previous_saved_paths)
           /\ RegisterDrop(q) \in 0 .. Len(q)
<1>1. conf.keep \in Int
  BY ConstantsAssumption DEF ConfigType
<1>2. Len(q) \in Nat /\ Len(previous_saved_paths) \in Nat
  BY LenProperties
<1> QED
  BY <1>1, <1>2 DEF EnsureCapacityDrop, RegisterDrop, Limited

-----------------------------------------------------------------------------
(* max(glob(...)): the newest of the directories on disk.                  *)

\* The order of the numbers as a relation.
LEMMA LessThan == OpToRel(<, Nat) = {ss \in Nat \X Nat : ss[1] < ss[2]}
BY DEF OpToRel

\* A non-empty set of numbers with an upper bound has a largest element: the
\* least of its upper bounds.
LEMMA MaxExists ==
    ASSUME NEW S \in SUBSET Nat, S # {}, NEW n \in Nat, \A t \in S : t <= n
    PROVE  \E m \in S : \A t \in S : t <= m
<1> DEFINE U == {u \in Nat : \A t \in S : t <= u}
           R == {ss \in Nat \X Nat : ss[1] < ss[2]}
<1>1. U \subseteq Nat /\ U # {}
  OBVIOUS
<1>2. IsWellFoundedOn(R, Nat)
  BY NatLessThanWellFounded, LessThan
<1> HIDE DEF R
<1>3. PICK m \in U : \A u \in U : <<u, m>> \notin R
  BY <1>1, <1>2, WFMin, Zenon
<1>4. \A u \in U : ~(u < m)
  BY <1>3 DEF R
<1>5. m \in S
  <2>1. SUFFICES ASSUME m \notin S PROVE FALSE
    OBVIOUS
  <2>2. PICK t \in S : t <= m
    BY <1>3
  <2>3. m - 1 \in U
    BY <1>3, <2>1, <2>2
  <2> QED
    BY <1>3, <1>4, <2>3
<1> QED
  BY <1>3, <1>5

\* The directories on disk have a largest number; a save adds one directory.
Bounded(f) == \E n \in Nat : \A s \in DOMAIN f : s <= n

LEMMA LatestExists ==
    ASSUME NEW f, DOMAIN f \subseteq Nat, DOMAIN f # {}, Bounded(f)
    PROVE  Latest(f) \in DOMAIN f /\ \A t \in DOMAIN f : t <= Latest(f)
<1>1. PICK n \in Nat : \A s \in DOMAIN f : s <= n
  BY DEF Bounded
<1>2. \E m \in DOMAIN f : \A t \in DOMAIN f : t <= m
  BY <1>1, MaxExists
<1> QED
  BY <1>2 DEF Latest

LEMMA DiskBounded ==
    ASSUME TypeOK, Bounded(disk), [Next]_vars
    PROVE  Bounded(disk')
<1>1. PICK n \in Nat : \A s \in DOMAIN disk : s <= n
  BY DEF Bounded
<1>2. global_step \in Nat /\ DOMAIN disk \subseteq Nat
  BY DEF TypeOK
<1>3. DOMAIN disk' \subseteq DOMAIN disk \cup {global_step}
  <2>1. CASE JobStep
    BY <2>1 DEF JobStep, ResumeExplicit, ResumeMissing, StartFromScratch, ResumeLatest,
       BeginTraining, Fail, TrainBatch, NextEpoch, FinishTraining, EnterSave, EnsureCapacity,
       Rotate, Without, WriteAssets, Barrier, RankStep, LocalMkdir, MakeDir, With, OpenShard,
       CloseShard, PutShard, RegisterCheckpoint, WriteLoraMeta, ExportNothing, ExportSync,
       LaunchExportAsync, saveVars
  <2>2. CASE ~JobStep
    BY <2>2 DEF Next, MergerEnds, Restart, vars, saveVars
  <2> QED
    BY <2>1, <2>2
<1>4. PICK k \in Nat : n <= k /\ global_step <= k
  <2>1. n <= n + global_step /\ global_step <= n + global_step /\ n + global_step \in Nat
    BY <1>2
  <2> QED
    BY <2>1
<1>5. \A s \in DOMAIN disk' : s <= k
  BY <1>1, <1>2, <1>3, <1>4
<1> QED
  BY <1>5 DEF Bounded
-----------------------------------------------------------------------------
(* Type correctness.                                                       *)

\* TypeOK is inductive together with the bound on the directories' numbers, which
\* makes max(glob(...)) one of them.
TypeInv == TypeOK /\ Bounded(disk)

\* The inductive invariant holds in every reachable state.
LEMMA TypeInvariance == Spec => []TypeInv
<1>1. Init => TypeInv
  <2> SUFFICES ASSUME Init PROVE TypeInv
    OBVIOUS
  <2>1. << >> \in Seq(Batch) /\ << >> \in Seq(Nat) /\ EmptyDir \in Dir
    BY EmptySeq, ShardTypes
  <2>2. Identity \in [0 .. BatchesPerEpoch - 1 -> 0 .. BatchesPerEpoch - 1]
    BY DEF Identity
  <2>3. DOMAIN disk = {}
    BY DEF Init
  <2>4. Bounded(disk)
    BY <2>3, 0 \in Nat DEF Bounded
  <2>5. TypeOK
    BY <2>1, <2>2, <2>3 DEF Init, TypeOK, Phases
  <2> QED
    BY <2>4, <2>5 DEF TypeInv
<1>2. TypeInv /\ [Next]_vars => TypeInv'
  <2> SUFFICES ASSUME TypeOK, Bounded(disk), [Next]_vars PROVE TypeOK'
    BY DiskBounded DEF TypeInv
  <2> USE DEF TypeOK
  <2>1. /\ << >> \in Seq(Batch) /\ << >> \in Seq(Nat) /\ EmptyDir \in Dir
        /\ Identity \in [0 .. BatchesPerEpoch - 1 -> 0 .. BatchesPerEpoch - 1]
        /\ 0 \in Ranks /\ DiskType(disk)
    BY EmptySeq, ShardTypes, ConstantsAssumption DEF Identity, DiskType
  <2>2. Orders \subseteq [0 .. BatchesPerEpoch - 1 -> 0 .. BatchesPerEpoch - 1]
    BY <2>1 DEF Orders
  <2>3. ASSUME NEW w \in [Ranks -> Seq(Batch)], NEW s \in Nat, BeginTraining(w, s)
        PROVE TypeOK'
    <3>1. StartEpoch(s) \in Nat /\ SkipBatches(s) \in Nat
      BY ResumePlanTypes
    <3>2. [r \in Ranks |-> Len(w[r])] \in [Ranks -> Nat]
      BY LenProperties
    <3> QED
      BY <2>1, <2>2, <2>3, <3>1, <3>2
      DEF BeginTraining, saveVars, mergeVars, hostVars, Phases
  <2>4. ASSUME Fail PROVE TypeOK'
    BY <2>4 DEF Fail, jobVars, saveVars, mergeVars, hostVars, Phases
  <2>5. ASSUME NEW s \in Nat PROVE ResumedStep(s) \in Nat
    BY DEF ResumedStep
  <2>6. CASE ResumeExplicit
    <3>1. [r \in Ranks |-> ExplicitWeights] \in [Ranks -> Seq(Batch)] /\ ExplicitStep \in Nat
      BY ExplicitAssumption
    <3> QED
      BY <2>3, <2>5, <2>6, <3>1 DEF ResumeExplicit
  <2>7. CASE ResumeMissing
    BY <2>4, <2>7 DEF ResumeMissing
  <2>8. CASE StartFromScratch
    BY <2>1, <2>3, <2>8 DEF StartFromScratch
  <2>9. CASE ResumeLatest
    <3>1. PICK s : s = Latest(disk) /\ IF Loadable(disk[s])
             THEN BeginTraining([r \in Ranks |-> disk[s].shard[r].lineage], ResumedStep(s))
             ELSE Fail
      BY <2>9 DEF ResumeLatest
    <3>2. s \in DOMAIN disk
      BY <2>9, <3>1, LatestExists DEF ResumeLatest
    <3>3. s \in Nat /\ disk[s] \in Dir
      BY <3>2
    <3>4. [r \in Ranks |-> disk[s].shard[r].lineage] \in [Ranks -> Seq(Batch)]
      BY <3>3 DEF Dir, Shard
    <3> QED
      BY <2>3, <2>4, <2>5, <3>1, <3>3, <3>4
  <2>10. ASSUME NEW b \in BOOLEAN, EnterSave(b), UNCHANGED <<mergeVars, hostVars>>
         PROVE  /\ phase' \in Phases /\ final' \in BOOLEAN
                /\ at' \in [Ranks -> {"idle", "mkdir", "made_room", "dump", "writing",
                                      "assets", "barrier"}]
                /\ previous_saved_paths' \in Seq(Nat)
                /\ DOMAIN disk' \subseteq Nat /\ \A s \in DOMAIN disk' : disk'[s] \in Dir
    BY <2>10 DEF EnterSave, Phases
  <2>11. CASE TrainBatch
    <3> DEFINE acc == Append(accum, <<epoch, order[batch_idx]>>)
    <3>1. batch_idx \in 0 .. BatchesPerEpoch - 1 /\ BatchesPerEpoch \in Nat
      BY <2>11, ConstantsAssumption DEF TrainBatch
    <3>2. <<epoch, order[batch_idx]>> \in Batch
      BY <3>1 DEF Batch
    <3>3. acc \in Seq(Batch)
      BY <3>2, AppendProperties
    <3>4. [r \in Ranks |-> weights[r] \o acc] \in [Ranks -> Seq(Batch)]
      BY <3>3, ConcatProperties
    <3> HIDE DEF acc
    <3>5. /\ accum' \in {acc, << >>}
          /\ weights' \in {weights, [r \in Ranks |-> weights[r] \o acc]}
          /\ global_step' \in {global_step, global_step + 1}
          /\ batch_idx' = batch_idx + 1
          /\ UNCHANGED <<epoch, order, base, mergeVars, hostVars>>
          /\ UNCHANGED <<phase, saveVars>> \/ EnterSave(FALSE)
      BY <2>11 DEF TrainBatch, acc
    <3>6. /\ accum' \in Seq(Batch) /\ weights' \in [Ranks -> Seq(Batch)]
          /\ global_step' \in Nat /\ batch_idx' \in Nat
      <4>1. accum' \in Seq(Batch)
        BY <2>1, <3>3, <3>5, Zenon
      <4>2. weights' \in [Ranks -> Seq(Batch)]
        BY <3>4, <3>5, Zenon
      <4>3. global_step' \in Nat /\ batch_idx' \in Nat
        BY <3>5
      <4> QED
        BY <4>1, <4>2, <4>3
    <3>7. UNCHANGED <<epoch, order, base, conf, inherited, restarts, merged, exporter>>
      BY <3>5 DEF mergeVars, hostVars
    <3>8. CASE UNCHANGED <<phase, saveVars>>
      BY <3>6, <3>7, <3>8 DEF saveVars
    <3>9. CASE EnterSave(FALSE)
      <4>1. UNCHANGED <<mergeVars, hostVars>>
        BY <3>5
      <4>2. /\ phase' \in Phases /\ final' \in BOOLEAN
            /\ at' \in [Ranks -> {"idle", "mkdir", "made_room", "dump", "writing",
                                  "assets", "barrier"}]
            /\ previous_saved_paths' \in Seq(Nat)
            /\ DOMAIN disk' \subseteq Nat /\ \A s \in DOMAIN disk' : disk'[s] \in Dir
        BY <2>10, <3>9, <4>1
      <4> QED
        BY <3>6, <3>7, <4>2
    <3> QED
      BY <3>5, <3>8, <3>9
  <2>12. CASE NextEpoch
    BY <2>1, <2>2, <2>12 DEF NextEpoch, mergeVars, hostVars, saveVars
  <2>13. CASE FinishTraining
    <3>1. CASE UNCHANGED saveVars
      BY <2>13, <3>1 DEF FinishTraining, EnterSave, saveVars, jobVars, mergeVars, hostVars, Phases
    <3>2. CASE EnterSave(TRUE)
      BY <2>10, <2>13, <3>2 DEF FinishTraining, jobVars, mergeVars, hostVars
    <3> QED
      BY <2>13, <3>1, <3>2 DEF FinishTraining
  <2>14. CASE EnsureCapacity
    <3>1. DiskType(disk') /\ previous_saved_paths' \in Seq(Nat)
      BY <2>1, <2>14, RotateType, DropTypes DEF EnsureCapacity
    <3>2. at' \in [Ranks -> {"idle", "mkdir", "made_room", "dump", "writing",
                             "assets", "barrier"}]
      BY <2>14 DEF EnsureCapacity
    <3> QED
      BY <2>14, <3>1, <3>2 DEF EnsureCapacity, DiskType, jobVars, mergeVars, hostVars
  <2>15. ASSUME NEW r \in Ranks, LocalMkdir(r) PROVE TypeOK'
    <3>1. DiskType(disk')
      BY <2>1, <2>15, MakeDirType DEF LocalMkdir
    <3> QED
      BY <2>15, <3>1 DEF LocalMkdir, DiskType, jobVars, mergeVars, hostVars
  <2>16. ASSUME NEW r \in Ranks, OpenShard(r) PROVE TypeOK'
    <3>1. DiskType(disk')
      BY <2>1, <2>16, PutShardType, ShardTypes DEF OpenShard, PutShard
    <3> QED
      BY <2>16, <3>1 DEF OpenShard, DiskType, jobVars, mergeVars, hostVars
  <2>17. ASSUME NEW r \in Ranks, CloseShard(r) PROVE TypeOK'
    <3>1. Full(weights[r]) \in Shard
      BY ShardTypes
    <3>2. DiskType(disk')
      BY <2>1, <2>17, <3>1, PutShardType DEF CloseShard, PutShard
    <3>3. at' \in [Ranks -> {"idle", "mkdir", "made_room", "dump", "writing",
                             "assets", "barrier"}]
      BY <2>17 DEF CloseShard
    <3> QED
      BY <2>17, <3>2, <3>3 DEF CloseShard, DiskType, jobVars, mergeVars, hostVars
  <2>18. CASE WriteAssets
    <3>1. DiskType(disk')
      BY <2>1, <2>18, PutAssetsType DEF WriteAssets
    <3> QED
      BY <2>18, <3>1 DEF WriteAssets, DiskType, jobVars, mergeVars, hostVars
  <2>19. CASE Barrier
    BY <2>1, <2>19 DEF Barrier, jobVars, mergeVars, hostVars, Phases
  <2>20. CASE RegisterCheckpoint
    <3> DEFINE q == Append(previous_saved_paths, global_step)
    <3>1. q \in Seq(Nat)
      BY AppendProperties
    <3>2. RegisterDrop(q) \in 0 .. Len(q)
      BY <3>1, DropTypes
    <3>3. Rotate(q, disk, RegisterDrop(q))
      BY <2>20 DEF RegisterCheckpoint
    <3> HIDE DEF q
    <3>4. DiskType(disk') /\ previous_saved_paths' \in Seq(Nat)
      BY <2>1, <3>1, <3>2, <3>3, RotateType
    <3> QED
      BY <2>20, <3>4 DEF RegisterCheckpoint, DiskType, jobVars, mergeVars, hostVars, Phases
  <2>21. CASE WriteLoraMeta
    <3>1. DiskType(disk')
      BY <2>1, <2>21, MakeDirType DEF WriteLoraMeta
    <3>2. phase' \in Phases
      BY <2>21 DEF WriteLoraMeta, Phases
    <3> QED
      BY <2>21, <3>1, <3>2 DEF WriteLoraMeta, DiskType, jobVars, mergeVars, hostVars
  <2>22. [merged EXCEPT !.assets = FALSE] \in Dir
    BY DEF Dir
  <2>23. DOMAIN disk # {} => Latest(disk) \in Nat
    BY LatestExists
  <2>24. CASE ExportNothing
    BY <2>4, <2>24 DEF ExportNothing
  <2>25. CASE ExportSync
    BY <2>22, <2>23, <2>25 DEF ExportSync, jobVars, saveVars, hostVars, Phases
  <2>26. CASE LaunchExportAsync
    BY <2>22, <2>23, <2>26 DEF LaunchExportAsync, jobVars, saveVars, hostVars, Phases
  <2>27. CASE MergerEnds
    <3>1. merged' \in Dir /\ exporter' = 0
      BY <2>27 DEF MergerEnds, MergerSucceeds
    <3>2. phase' \in Phases
      BY <2>27 DEF MergerEnds, Phases
    <3> QED
      BY <2>27, <3>1, <3>2 DEF MergerEnds, jobVars, saveVars, hostVars
  <2>28. CASE Restart
    <3>1. /\ phase' \in Phases /\ final' \in BOOLEAN
          /\ at' \in [Ranks -> {"idle", "mkdir", "made_room", "dump", "writing",
                                "assets", "barrier"}]
      BY <2>28 DEF Restart, Phases
    <3>2. /\ weights' \in [Ranks -> Seq(Batch)] /\ base' \in [Ranks -> Nat]
          /\ accum' \in Seq(Batch) /\ previous_saved_paths' \in Seq(Nat)
      BY <2>1, <2>28 DEF Restart
    <3>3. exporter' \in Nat /\ restarts' \in Nat /\ inherited' \subseteq Nat
      BY <2>28 DEF Restart
    <3> QED
      BY <2>1, <2>28, <3>1, <3>2, <3>3 DEF Restart
  <2>29. CASE UNCHANGED vars
    BY <2>29 DEF vars, jobVars, saveVars, mergeVars, hostVars
  <2>30. CASE JobStep
    BY <2>6, <2>7, <2>8, <2>9, <2>11, <2>12, <2>13, <2>14, <2>15, <2>16, <2>17, <2>18, <2>19,
       <2>20, <2>21, <2>24, <2>25, <2>26, <2>30 DEF JobStep, RankStep
  <2> QED
    BY <2>27, <2>28, <2>29, <2>30 DEF Next
<1> QED
  BY <1>1, <1>2, PTL DEF Spec

\* Every reachable state has its type: no step of a rank, of the merger or of a
\* restart leaves the disk, the lineages or the counters malformed.
THEOREM Types == Spec => []TypeOK
<1>1. TypeInv => TypeOK
  BY DEF TypeInv
<1> QED
  BY <1>1, TypeInvariance, PTL
-----------------------------------------------------------------------------
(* What the weights and the checkpoints contain, for every crash and resume. *)

\* Where an epoch stands by its step count k: between two windows or inside one
\* while batches are left, and with all its steps made once none is.
AlignedAt(k) ==
    /\ global_step = epoch * OptimStepsPerEpoch + k
    /\ \/ batch_idx = BatchesPerEpoch /\ k = OptimStepsPerEpoch /\ accum = << >>
       \/ /\ batch_idx < BatchesPerEpoch /\ k < OptimStepsPerEpoch
          /\ batch_idx = k * GradAccum + Len(accum) /\ Len(accum) < GradAccum

Aligned == \E k \in 0 .. OptimStepsPerEpoch : AlignedAt(k)

\* No gradient is pending in a save, nor once the epochs are over.
NothingPending == phase \in SavePhases \/ epoch >= TotalEpochs => accum = << >>

\* The live weights are the schedule up to the place where the loop stands.
OnSchedule(r) ==
    /\ base[r] <= Len(weights[r])
    /\ Chain(Accountable(r)) /\ After(Accountable(r)) = Position

\* A complete shard in directory s is what a resume at step s expects.
ShardOnSchedule(sh, s) ==
    sh.state = "full" =>
        /\ Chain(sh.lineage)
        /\ After(sh.lineage) = <<StartEpoch(s), SkipBatches(s)>>

LineageInv ==
    conf.sharded /\ BatchesPerEpoch > 0 =>
        /\ order = Identity
        /\ Running => Aligned /\ NothingPending /\ \A r \in Ranks : OnSchedule(r)
        /\ conf.mode = "continue" =>
              \A s \in DOMAIN disk, r \in Ranks : ShardOnSchedule(disk[s].shard[r], s)
-----------------------------------------------------------------------------
(* The step counter and the place in the epoch.                            *)

\* An accumulation window closes with its GradAccum-th batch.
LEMMA WindowCloses ==
    ASSUME NEW k \in Nat, NEW n \in Nat, n < GradAccum
    PROVE  (k * GradAccum + n + 1) % GradAccum = 0 <=> n + 1 = GradAccum
<1>1. GradAccum \in Nat \ {0} /\ k * GradAccum \in Nat
  BY ConstantsAssumption
<1>2. CASE n + 1 = GradAccum
  <2>1. k * GradAccum + n + 1 = (k + 1) * GradAccum + 0
    BY <1>1, <1>2
  <2>2. ((k + 1) * GradAccum + 0) % GradAccum = 0
    BY <1>1, DivModOfSum
  <2> QED
    BY <1>2, <2>1, <2>2
<1>3. CASE n + 1 < GradAccum
  <2>1. (k * GradAccum + (n + 1)) % GradAccum = n + 1
    BY <1>1, <1>3, DivModOfSum
  <2>2. k * GradAccum + n + 1 = k * GradAccum + (n + 1)
    BY <1>1
  <2> QED
    BY <1>3, <2>1, <2>2
<1> QED
  BY <1>1, <1>2, <1>3

\* With nothing pending, the place the loop stands at is the one a resume
\* computes from global_step alone.
LEMMA ResumePosition ==
    ASSUME TypeOK, BatchesPerEpoch > 0, Aligned, accum = << >>
    PROVE  Position = <<StartEpoch(global_step), SkipBatches(global_step)>>
<1>1. PICK k \in 0 .. OptimStepsPerEpoch : AlignedAt(k)
  BY DEF Aligned
<1>2. epoch \in Nat /\ OptimStepsPerEpoch \in Nat \ {0} /\ GradAccum \in Nat /\ Len(accum) = 0
  BY StepsPerEpoch, ConstantsAssumption, EmptySeq DEF TypeOK
<1>3. CASE batch_idx = BatchesPerEpoch
  <2>1. k = OptimStepsPerEpoch
    BY <1>1, <1>3, ConstantsAssumption DEF AlignedAt, TypeOK
  <2>2. global_step = (epoch + 1) * OptimStepsPerEpoch + 0
    BY <1>1, <1>2, <2>1 DEF AlignedAt
  <2>3. StartEpoch(global_step) = epoch + 1 /\ SkipBatches(global_step) = 0 * GradAccum
    <3>1. epoch + 1 \in Nat /\ 0 \in Nat /\ 0 < OptimStepsPerEpoch
      BY <1>2
    <3> QED
      BY <2>2, <3>1, ResumePlan, Zenon
  <2> QED
    BY <1>2, <1>3, <2>3 DEF Position
<1>4. CASE batch_idx # BatchesPerEpoch
  <2>1. k < OptimStepsPerEpoch /\ batch_idx = k * GradAccum + 0
    BY <1>1, <1>2, <1>4 DEF AlignedAt
  <2>2. StartEpoch(global_step) = epoch /\ SkipBatches(global_step) = k * GradAccum
    BY <1>1, <1>2, <2>1, ResumePlan DEF AlignedAt
  <2>3. k * GradAccum \in Nat
    BY <1>1, <1>2
  <2> QED
    BY <1>4, <2>1, <2>2, <2>3 DEF Position
<1> QED
  BY <1>3, <1>4

\* After a resume, or at the start of an epoch.
LEMMA AlignedAfterLoad ==
    ASSUME NEW s \in Nat, BatchesPerEpoch > 0,
           global_step' = s, epoch' = StartEpoch(s), batch_idx' = SkipBatches(s), accum' = << >>
    PROVE  Aligned' /\ Position' = <<StartEpoch(s), SkipBatches(s)>>
<1> DEFINE k == s % OptimStepsPerEpoch
<1>1. /\ k \in Nat /\ k < OptimStepsPerEpoch /\ s = StartEpoch(s) * OptimStepsPerEpoch + k
      /\ SkipBatches(s) \in Nat /\ SkipBatches(s) < BatchesPerEpoch
  BY ResumePlanTypes
<1>2. SkipBatches(s) = k * GradAccum
  BY DEF SkipBatches
<1>3. OptimStepsPerEpoch \in Nat /\ GradAccum \in Nat \ {0} /\ BatchesPerEpoch \in Nat /\ Len(<< >>) = 0
  BY StepsPerEpoch, ConstantsAssumption, EmptySeq
<1> HIDE DEF k
<1>4. AlignedAt(k)'
  BY <1>1, <1>2, <1>3 DEF AlignedAt
<1>5. k \in 0 .. OptimStepsPerEpoch
  BY <1>1, <1>3
<1>6. Position' = <<StartEpoch(s), SkipBatches(s)>>
  BY <1>1, <1>3 DEF Position
<1> QED
  BY <1>4, <1>5, <1>6 DEF Aligned

\* One batch: the loop's place advances by it, and the counters stay aligned.
LEMMA AlignedAfterBatch ==
    ASSUME TypeOK, BatchesPerEpoch > 0, Aligned, TrainBatch
    PROVE  Aligned' /\ Position = <<epoch, batch_idx>> /\ Position' = NextBatch(Position)
<1>1. PICK k \in 0 .. OptimStepsPerEpoch : AlignedAt(k)
  BY DEF Aligned
<1> DEFINE n == Len(accum)
<1>2. /\ epoch \in Nat /\ batch_idx \in Nat /\ global_step \in Nat /\ n \in Nat /\ k \in Nat
      /\ OptimStepsPerEpoch \in Nat \ {0} /\ GradAccum \in Nat \ {0} /\ BatchesPerEpoch \in Nat
  BY StepsPerEpoch, ConstantsAssumption, LenProperties DEF TypeOK
<1>3. batch_idx < BatchesPerEpoch /\ batch_idx' = batch_idx + 1 /\ epoch' = epoch
  BY DEF TrainBatch
<1>4. /\ global_step = epoch * OptimStepsPerEpoch + k /\ k < OptimStepsPerEpoch
      /\ batch_idx = k * GradAccum + n /\ n < GradAccum
  BY <1>1, <1>2, <1>3 DEF AlignedAt
<1>5. (batch_idx + 1) % GradAccum = 0 <=> n + 1 = GradAccum
  BY <1>2, <1>4, WindowCloses
<1>6. Position = <<epoch, batch_idx>>
  BY <1>2, <1>3 DEF Position
<1>7. Position' = NextBatch(Position)
  BY <1>2, <1>3, <1>6 DEF Position, NextBatch
<1>8. CASE ~ShouldStep(batch_idx)
  <2>1. batch_idx + 1 # BatchesPerEpoch /\ n + 1 # GradAccum
    BY <1>5, <1>8 DEF ShouldStep
  <2>2. accum' = Append(accum, <<epoch, order[batch_idx]>>) /\ global_step' = global_step
    BY <1>8 DEF TrainBatch
  <2>3. Len(accum') = n + 1
    BY <2>2, LenProperties DEF TypeOK
  <2>4. k * GradAccum + (n + 1) = batch_idx + 1
    BY <1>2, <1>4
  <2>5. AlignedAt(k)'
    BY <1>2, <1>3, <1>4, <2>1, <2>2, <2>3, <2>4 DEF AlignedAt
  <2> QED
    BY <1>1, <1>6, <1>7, <2>5 DEF Aligned
<1>9. CASE ShouldStep(batch_idx)
  <2>1. accum' = << >> /\ global_step' = global_step + 1 /\ Len(accum') = 0
    BY <1>9, EmptySeq DEF TrainBatch
  <2>2. global_step' = epoch' * OptimStepsPerEpoch + (k + 1) /\ k + 1 \in 0 .. OptimStepsPerEpoch
    BY <1>2, <1>3, <1>4, <2>1
  <2>3. /\ (OptimStepsPerEpoch - 1) * GradAccum < BatchesPerEpoch
        /\ BatchesPerEpoch <= OptimStepsPerEpoch * GradAccum
    BY StepsPerEpoch
  <2>4. (k + 1) * GradAccum = k * GradAccum + GradAccum
    BY <1>2
  <2>5. CASE batch_idx + 1 = BatchesPerEpoch
    <3>1. k + 1 = OptimStepsPerEpoch
      <4>1. SUFFICES ASSUME k + 1 <= OptimStepsPerEpoch - 1 PROVE FALSE
        BY <1>2, <1>4
      <4>2. (k + 1) * GradAccum <= (OptimStepsPerEpoch - 1) * GradAccum
        BY <1>2, <4>1
      <4>3. k * GradAccum + n + 1 < k * GradAccum + GradAccum
        BY <1>4, <2>3, <2>4, <2>5, <4>2, <1>2,
           (k + 1) * GradAccum \in Nat, (OptimStepsPerEpoch - 1) * GradAccum \in Int, k * GradAccum \in Nat
      <4> QED
        BY <1>2, <1>4, <2>3, <2>4, <2>5, <4>2, <4>3, k * GradAccum \in Nat,
           (OptimStepsPerEpoch - 1) * GradAccum \in Int
    <3>2. AlignedAt(k + 1)'
      BY <1>3, <2>1, <2>2, <2>5, <3>1 DEF AlignedAt
    <3> QED
      BY <1>6, <1>7, <2>2, <3>2 DEF Aligned
  <2>6. CASE batch_idx + 1 # BatchesPerEpoch
    <3>1. n + 1 = GradAccum
      BY <1>5, <1>9, <2>6 DEF ShouldStep
    <3>2. batch_idx' = (k + 1) * GradAccum + 0
      BY <1>2, <1>3, <1>4, <2>4, <3>1
    <3>3. k + 1 # OptimStepsPerEpoch
      BY <1>2, <1>3, <2>3, <2>6, <3>2
    <3>4. AlignedAt(k + 1)'
      BY <1>2, <1>3, <1>4, <2>1, <2>2, <2>6, <3>2, <3>3 DEF AlignedAt
    <3> QED
      BY <1>6, <1>7, <2>2, <3>4 DEF Aligned
  <2> QED
    BY <2>5, <2>6
<1> QED
  BY <1>8, <1>9

\* Between two epochs nothing is pending and the place is the same.
LEMMA AlignedAfterEpoch ==
    ASSUME TypeOK, BatchesPerEpoch > 0, Aligned, NextEpoch
    PROVE  Aligned' /\ Position' = Position /\ accum = << >>
<1>1. PICK k \in 0 .. OptimStepsPerEpoch : AlignedAt(k)
  BY DEF Aligned
<1>2. /\ epoch \in Nat /\ batch_idx \in Nat /\ OptimStepsPerEpoch \in Nat \ {0}
      /\ GradAccum \in Nat \ {0} /\ BatchesPerEpoch \in Nat /\ Len(<< >>) = 0
  BY StepsPerEpoch, ConstantsAssumption, EmptySeq DEF TypeOK
<1>3. /\ epoch' = epoch + 1 /\ batch_idx' = 0 /\ accum' = << >>
      /\ global_step' = global_step /\ batch_idx >= BatchesPerEpoch
  BY DEF NextEpoch
<1>4. batch_idx = BatchesPerEpoch /\ k = OptimStepsPerEpoch /\ accum = << >>
  BY <1>1, <1>2, <1>3 DEF AlignedAt
<1>5. global_step' = epoch' * OptimStepsPerEpoch + 0 /\ 0 * GradAccum = 0
  BY <1>1, <1>2, <1>3, <1>4 DEF AlignedAt
<1>6. AlignedAt(0)'
  BY <1>2, <1>3, <1>5 DEF AlignedAt
<1>7. Position' = Position
  BY <1>2, <1>3, <1>4 DEF Position
<1> QED
  BY <1>2, <1>4, <1>6, <1>7 DEF Aligned
-----------------------------------------------------------------------------
(* The live weights.                                                       *)

\* The applied part of what the run is accountable for.
Applied(r) ==
    IF conf.mode = "continue" THEN weights[r]
    ELSE SubSeq(weights[r], base[r] + 1, Len(weights[r]))

LEMMA AppliedType ==
    ASSUME TypeOK, NEW r \in Ranks
    PROVE  Applied(r) \in Seq(Batch) /\ Accountable(r) = Applied(r) \o accum
<1>1. weights[r] \in Seq(Batch) /\ Len(weights[r]) \in Nat /\ base[r] \in Nat
  BY LenProperties DEF TypeOK
<1>2. SubSeq(weights[r], base[r] + 1, Len(weights[r])) \in Seq(Batch)
  <2>1. \A i \in base[r] + 1 .. Len(weights[r]) : weights[r][i] \in Batch
    BY <1>1, ElementOfSeq
  <2> QED
    BY <1>1, <2>1, SubSeqProperties
<1> QED
  BY <1>1, <1>2 DEF Applied, Accountable

LEMMA ConcatAppend ==
    ASSUME NEW a \in Seq(Batch), NEW c \in Seq(Batch), NEW b \in Batch
    PROVE  a \o Append(c, b) = Append(a \o c, b)
<1>1. Append(c, b) = c \o << b >> /\ Append(a \o c, b) = (a \o c) \o << b >>
  BY AppendIsConcat, ConcatProperties
<1>2. << b >> \in Seq(Batch)
  OBVIOUS
<1> QED
  BY <1>1, <1>2, ConcatAssociative

\* A batch trained is appended to what the run is accountable for, applied or not.
LEMMA AccountableAfterBatch ==
    ASSUME TypeOK, TrainBatch, batch_idx \in 0 .. BatchesPerEpoch - 1,
           NEW r \in Ranks, base[r] <= Len(weights[r])
    PROVE  /\ Accountable(r)' = Append(Accountable(r), <<epoch, order[batch_idx]>>)
           /\ <<epoch, order[batch_idx]>> \in Batch
           /\ base'[r] <= Len(weights'[r])
<1> DEFINE b == <<epoch, order[batch_idx]>>
           acc == Append(accum, b)
<1>1. /\ accum \in Seq(Batch) /\ weights[r] \in Seq(Batch) /\ base[r] \in Nat
      /\ Len(weights[r]) \in Nat /\ BatchesPerEpoch \in Nat
  BY LenProperties, ConstantsAssumption DEF TypeOK
<1>2. b \in Batch
  BY <1>1 DEF TypeOK, Batch
<1> HIDE DEF b
<1>3. acc \in Seq(Batch) /\ Len(acc) \in Nat
  BY <1>1, <1>2, AppendProperties, LenProperties
<1>4. Applied(r) \in Seq(Batch) /\ Accountable(r) = Applied(r) \o accum
  BY AppliedType
<1>5. Applied(r) \o acc = Append(Accountable(r), b)
  BY <1>1, <1>2, <1>4, ConcatAppend
<1> HIDE DEF acc
<1>6. conf' = conf /\ base' = base
  BY DEF TrainBatch, hostVars
<1>7. CASE ~ShouldStep(batch_idx)
  <2>1. accum' = acc /\ weights' = weights
    BY <1>7 DEF TrainBatch, b, acc
  <2>2. Accountable(r)' = Applied(r) \o acc
    BY <1>6, <2>1 DEF Accountable, Applied
  <2> QED
    BY <1>2, <1>5, <1>6, <2>1, <2>2 DEF b
<1>8. CASE ShouldStep(batch_idx)
  <2>1. accum' = << >> /\ weights'[r] = weights[r] \o acc
    BY <1>8 DEF TrainBatch, b, acc
  <2>2. Applied(r)' = Applied(r) \o acc
    <3>1. CASE conf.mode = "continue"
      BY <1>6, <2>1, <3>1 DEF Applied
    <3>2. CASE conf.mode # "continue"
      <4>1. Applied(r)' = SubSeq(weights[r] \o acc, base[r] + 1, Len(weights[r] \o acc))
        BY <1>6, <2>1, <3>2 DEF Applied
      <4>2. Applied(r) = SubSeq(weights[r], base[r] + 1, Len(weights[r]))
        BY <3>2 DEF Applied
      <4> QED
        <5>1. SubSeq(weights[r] \o acc, base[r] + 1, Len(weights[r] \o acc))
              = SubSeq(weights[r], base[r] + 1, Len(weights[r])) \o acc
          BY <1>1, <1>3, LiveAppend, Zenon
        <5> QED
          BY <4>1, <4>2, <5>1, Zenon
    <3> QED
      BY <3>1, <3>2
  <2>3. Accountable(r)' = Applied(r)' \o << >>
    BY <2>1 DEF Accountable, Applied
  <2>4. Applied(r) \o acc \in Seq(Batch)
    BY <1>3, <1>4, ConcatProperties
  <2>5. Accountable(r)' = Applied(r) \o acc
    BY <2>2, <2>3, <2>4, ConcatEmptySeq
  <2>6. Len(weights'[r]) = Len(weights[r]) + Len(acc)
    BY <1>1, <1>3, <2>1, ConcatProperties
  <2>7. base'[r] <= Len(weights'[r])
    BY <1>1, <1>3, <1>6, <2>6
  <2>8. Accountable(r)' = Append(Accountable(r), b)
    BY <1>5, <2>5
  <2> QED
    BY <1>2, <2>7, <2>8 DEF b
<1> QED
  BY <1>7, <1>8

\* The part of the invariant about the live weights.
Live == Running => Aligned /\ NothingPending /\ \A r \in Ranks : OnSchedule(r)

\* Steps that leave the weights and the counters alone.
LEMMA LiveFrame ==
    ASSUME Live, UNCHANGED jobVars, conf' = conf, Running' => Running,
           Running /\ phase' \in SavePhases => phase \in SavePhases \/ epoch >= TotalEpochs
    PROVE  Live'
BY DEF Live, jobVars, Aligned, AlignedAt, NothingPending, OnSchedule, Accountable, Position

\* A launch: from scratch, or with weights that are the schedule up to their step.
LEMMA LiveAfterLoad ==
    ASSUME TypeOK, BatchesPerEpoch > 0, NEW w \in [Ranks -> Seq(Batch)], NEW s \in Nat,
           BeginTraining(w, ResumedStep(s)),
           conf.mode = "continue" => \A r \in Ranks :
               Chain(w[r]) /\ After(w[r]) = <<StartEpoch(s), SkipBatches(s)>>
    PROVE  Live'
<1> DEFINE g == ResumedStep(s)
<1>1. /\ phase' = "batch" /\ weights' = w /\ base' = [r \in Ranks |-> Len(w[r])]
      /\ global_step' = g /\ epoch' = StartEpoch(g) /\ batch_idx' = SkipBatches(g)
      /\ accum' = << >> /\ conf' = conf
  BY DEF BeginTraining, hostVars
<1>2. g \in Nat
  BY DEF ResumedStep
<1>3. Aligned' /\ Position' = <<StartEpoch(g), SkipBatches(g)>>
  BY <1>1, <1>2, AlignedAfterLoad
<1>4. NothingPending'
  BY <1>1 DEF NothingPending
<1>5. ASSUME NEW r \in Ranks PROVE OnSchedule(r)'
  <2>1. w[r] \in Seq(Batch) /\ Len(w[r]) \in Nat /\ base'[r] = Len(w[r])
    BY <1>1, LenProperties
  <2>2. CASE conf.mode = "continue"
    <3>1. Accountable(r)' = w[r]
      BY <1>1, <2>1, <2>2, ConcatEmptySeq DEF Accountable
    <3>2. g = s
      BY <2>2 DEF ResumedStep
    <3> QED
      BY <1>1, <1>3, <2>1, <2>2, <3>1, <3>2 DEF OnSchedule
  <2>3. CASE conf.mode # "continue"
    <3>1. SubSeq(w[r], Len(w[r]) + 1, Len(w[r])) = << >>
      BY <2>1, SubSeqEmpty
    <3>2. Accountable(r)' = << >>
      BY <1>1, <2>1, <2>3, <3>1, EmptySeq, ConcatEmptySeq DEF Accountable
    <3>3. g = 0 * OptimStepsPerEpoch + 0 /\ 0 < OptimStepsPerEpoch
      BY <2>3, StepsPerEpoch DEF ResumedStep
    <3>4. StartEpoch(g) = 0 /\ SkipBatches(g) = 0 * GradAccum
      BY <3>3, 0 \in Nat, ResumePlan, Zenon
    <3>5. Position' = <<0, 0>>
      BY <1>3, <3>4, ConstantsAssumption
    <3> QED
      BY <1>1, <2>1, <3>2, <3>5, ChainEmpty DEF OnSchedule
  <2> QED
    BY <2>2, <2>3
<1> QED
  BY <1>3, <1>4, <1>5 DEF Live

\* The shards part of the invariant.
ShardsOnSchedule(f) ==
    conf.mode = "continue" =>
        \A s \in DOMAIN f, r \in Ranks : ShardOnSchedule(f[s].shard[r], s)

\* The newest checkpoint, if it loads, holds weights on the schedule.
LEMMA LatestOnSchedule ==
    ASSUME TypeInv, ShardsOnSchedule(disk), NEW s, s = Latest(disk), DOMAIN disk # {},
           Loadable(disk[s])
    PROVE  /\ s \in Nat /\ [r \in Ranks |-> disk[s].shard[r].lineage] \in [Ranks -> Seq(Batch)]
           /\ conf.mode = "continue" => \A r \in Ranks :
                 /\ Chain(disk[s].shard[r].lineage)
                 /\ After(disk[s].shard[r].lineage) = <<StartEpoch(s), SkipBatches(s)>>
<1>1. s \in DOMAIN disk
  BY LatestExists DEF TypeInv, TypeOK
<1>2. s \in Nat /\ disk[s] \in Dir
  BY <1>1 DEF TypeInv, TypeOK
<1>3. \A r \in Ranks : disk[s].shard[r] \in Shard
  BY <1>2 DEF Dir
<1> QED
  BY <1>1, <1>2, <1>3 DEF Shard, Loadable, ShardsOnSchedule, ShardOnSchedule

LEMMA LiveStep ==
    ASSUME TypeInv, conf.sharded, BatchesPerEpoch > 0, order = Identity,
           Live, ShardsOnSchedule(disk), [Next]_vars
    PROVE  Live'
<1> USE DEF TypeInv
<1>1. CASE ResumeExplicit
  <2> DEFINE w == [r \in Ranks |-> ExplicitWeights]
  <2>1. w \in [Ranks -> Seq(Batch)] /\ ExplicitStep \in Nat /\ BatchesPerEpoch # 0
    BY ExplicitAssumption
  <2>2. BeginTraining(w, ResumedStep(ExplicitStep))
    BY <1>1 DEF ResumeExplicit
  <2>3. \A r \in Ranks : /\ Chain(w[r])
                        /\ After(w[r]) = <<StartEpoch(ExplicitStep), SkipBatches(ExplicitStep)>>
    BY <2>1, ExplicitAssumption
  <2> HIDE DEF w
  <2> QED
    BY <2>1, <2>2, <2>3, LiveAfterLoad
<1>2. CASE StartFromScratch
  <2> DEFINE w == [r \in Ranks |-> << >>]
  <2>1. w \in [Ranks -> Seq(Batch)] /\ ResumedStep(0) = 0
    BY EmptySeq DEF ResumedStep
  <2>2. BeginTraining(w, ResumedStep(0))
    BY <1>2, <2>1 DEF StartFromScratch
  <2>3. StartEpoch(0) = 0 /\ SkipBatches(0) = 0
    <3>1. 0 < OptimStepsPerEpoch /\ 0 * OptimStepsPerEpoch + 0 = 0 /\ 0 * GradAccum = 0
      BY StepsPerEpoch, ConstantsAssumption
    <3>2. /\ StartEpoch(0 * OptimStepsPerEpoch + 0) = 0
          /\ SkipBatches(0 * OptimStepsPerEpoch + 0) = 0 * GradAccum
      BY <3>1, 0 \in Nat, ResumePlan, Zenon
    <3> QED
      BY <3>1, <3>2
  <2>4. \A r \in Ranks : Chain(w[r]) /\ After(w[r]) = <<StartEpoch(0), SkipBatches(0)>>
    BY <2>3, ChainEmpty
  <2> HIDE DEF w
  <2> QED
    BY <2>1, <2>2, <2>4, LiveAfterLoad
<1>3. ASSUME Fail PROVE Live'
  BY <1>3 DEF Fail, Live, Running
<1>4. CASE ResumeLatest
  <2>1. PICK s : /\ s = Latest(disk)
                 /\ IF Loadable(disk[s])
                      THEN BeginTraining([r \in Ranks |-> disk[s].shard[r].lineage], ResumedStep(s))
                      ELSE Fail
    BY <1>4 DEF ResumeLatest
  <2>2. CASE Loadable(disk[s])
    <3> DEFINE w == [r \in Ranks |-> disk[s].shard[r].lineage]
    <3>1. DOMAIN disk # {}
      BY <1>4 DEF ResumeLatest
    <3>2. /\ s \in Nat /\ w \in [Ranks -> Seq(Batch)]
          /\ conf.mode = "continue" => \A r \in Ranks :
                Chain(w[r]) /\ After(w[r]) = <<StartEpoch(s), SkipBatches(s)>>
      BY <2>1, <2>2, <3>1, LatestOnSchedule
    <3>3. BeginTraining(w, ResumedStep(s))
      BY <2>1, <2>2
    <3> HIDE DEF w
    <3> QED
      BY <3>2, <3>3, LiveAfterLoad
  <2> QED
    BY <1>3, <2>1, <2>2
<1>5. CASE TrainBatch
  <2>1. Running /\ batch_idx < BatchesPerEpoch /\ epoch < TotalEpochs
    BY <1>5 DEF TrainBatch, Running
  <2>2. Aligned /\ \A r \in Ranks : OnSchedule(r)
    BY <2>1 DEF Live
  <2>3. batch_idx \in 0 .. BatchesPerEpoch - 1 /\ order[batch_idx] = batch_idx
    BY <2>1, ConstantsAssumption DEF TypeOK, Identity
  <2>4. Aligned' /\ Position = <<epoch, batch_idx>> /\ Position' = NextBatch(Position)
    BY <1>5, <2>2, AlignedAfterBatch
  <2>5. ASSUME NEW r \in Ranks PROVE OnSchedule(r)'
    <3>1. base[r] <= Len(weights[r]) /\ Chain(Accountable(r)) /\ After(Accountable(r)) = Position
      BY <2>2 DEF OnSchedule
    <3>2. /\ Accountable(r)' = Append(Accountable(r), Position)
          /\ Position \in Batch /\ base'[r] <= Len(weights'[r])
      BY <1>5, <2>3, <2>4, <3>1, AccountableAfterBatch
    <3>3. Accountable(r) \in Seq(Batch)
      <4>1. accum \in Seq(Batch)
        BY DEF TypeOK
      <4> QED
        BY <4>1, AppliedType, ConcatProperties
    <3>4. Chain(Accountable(r)') /\ After(Accountable(r)') = NextBatch(Position)
      BY <3>1, <3>2, <3>3, ChainAppend
    <3> QED
      BY <2>4, <3>2, <3>4 DEF OnSchedule, Chain, After
  <2>6. NothingPending'
    <3>1. epoch' = epoch /\ epoch < TotalEpochs
      BY <1>5, <2>1 DEF TrainBatch
    <3>2. CASE phase' \in SavePhases
      BY <1>5, <3>2 DEF TrainBatch, NothingPending, SavePhases
    <3>3. epoch \in Nat /\ TotalEpochs \in Nat
      BY ConstantsAssumption DEF TypeOK
    <3> QED
      BY <3>1, <3>2, <3>3 DEF NothingPending
  <2> QED
    BY <2>4, <2>5, <2>6 DEF Live
<1>6. CASE NextEpoch
  <2>1. Running /\ Aligned /\ \A r \in Ranks : OnSchedule(r)
    BY <1>6 DEF Live, NextEpoch, Running
  <2>2. Aligned' /\ Position' = Position /\ accum = << >>
    BY <1>6, <2>1, AlignedAfterEpoch
  <2>3. UNCHANGED <<accum, weights, base, conf>> /\ accum' = << >>
    BY <1>6, <2>2 DEF NextEpoch, hostVars
  <2>4. \A r \in Ranks : OnSchedule(r)'
    BY <2>1, <2>2, <2>3 DEF OnSchedule, Accountable
  <2> QED
    BY <2>2, <2>3, <2>4 DEF Live, NothingPending
<1>7. CASE FinishTraining
  BY <1>7, LiveFrame DEF FinishTraining, EnterSave, Running, hostVars, SavePhases
<1>8. CASE EnsureCapacity \/ WriteAssets \/ Barrier \/ RegisterCheckpoint \/ WriteLoraMeta
  <2>1. UNCHANGED jobVars /\ conf' = conf /\ Running /\ phase \in SavePhases
    BY <1>8 DEF EnsureCapacity, WriteAssets, Barrier, RegisterCheckpoint, WriteLoraMeta,
       hostVars, Running, SavePhases
  <2> QED
    BY <2>1, LiveFrame
<1>9. ASSUME NEW r \in Ranks, RankStep(r) PROVE Live'
  <2>1. UNCHANGED jobVars /\ conf' = conf /\ Running /\ phase \in SavePhases
    BY <1>9 DEF RankStep, LocalMkdir, OpenShard, CloseShard, hostVars, Running, SavePhases
  <2> QED
    BY <2>1, LiveFrame
<1>10. CASE ExportSync \/ LaunchExportAsync \/ MergerEnds
  BY <1>10, LiveFrame DEF ExportSync, LaunchExportAsync, MergerEnds, Running, hostVars, SavePhases
<1>11. CASE Restart
  BY <1>11 DEF Restart, Live, Running
<1>12. CASE UNCHANGED vars
  BY <1>12, LiveFrame DEF vars, Running, hostVars
<1>13. CASE ResumeMissing \/ ExportNothing
  BY <1>3, <1>13 DEF ResumeMissing, ExportNothing
<1> QED
  BY <1>1, <1>2, <1>4, <1>5, <1>6, <1>7, <1>8, <1>9, <1>10, <1>11, <1>12, <1>13
  DEF Next, JobStep
-----------------------------------------------------------------------------
(* The checkpoints.                                                        *)

\* Whatever else happens to the disk, shards of directories that stay are kept,
\* and a new directory has none.
ShardsKept ==
    \A s \in DOMAIN disk', r \in Ranks :
        \/ s \in DOMAIN disk /\ disk'[s].shard[r] = disk[s].shard[r]
        \/ disk'[s].shard[r].state # "full"

LEMMA KeptOnSchedule ==
    ASSUME ShardsOnSchedule(disk), ShardsKept, conf' = conf
    PROVE  ShardsOnSchedule(disk)'
BY DEF ShardsOnSchedule, ShardsKept, ShardOnSchedule

LEMMA MakeDirKeeps ==
    ASSUME disk' = MakeDir(disk)
    PROVE  ShardsKept
BY DEF MakeDir, With, EmptyDir, Absent, ShardsKept

LEMMA RotateKeeps ==
    ASSUME NEW q, NEW n, Rotate(q, disk, n)
    PROVE  ShardsKept
BY DEF Rotate, Without, ShardsKept

\* The configuration is fixed for the job.
LEMMA ConfStep ==
    ASSUME [Next]_vars
    PROVE  conf' = conf
BY DEF Next, JobStep, ResumeExplicit, ResumeMissing, StartFromScratch, ResumeLatest,
   BeginTraining, Fail, TrainBatch, NextEpoch, FinishTraining, EnsureCapacity, WriteAssets,
   Barrier, RankStep, LocalMkdir, OpenShard, CloseShard, RegisterCheckpoint, WriteLoraMeta,
   ExportNothing, ExportSync, LaunchExportAsync, MergerEnds, Restart, vars, hostVars

\* Only the shard of a rank that has written all of its files is full, and it
\* holds the live weights at a moment when nothing is pending.
LEMMA ShardsStep ==
    ASSUME TypeInv, conf.sharded, BatchesPerEpoch > 0,
           Live, ShardsOnSchedule(disk), [Next]_vars
    PROVE  ShardsOnSchedule(disk)'
<1> USE DEF TypeInv, TypeOK
<1>1. conf' = conf
  BY ConfStep
<1>2. ASSUME disk' = disk PROVE ShardsOnSchedule(disk)'
  BY <1>1, <1>2 DEF ShardsOnSchedule
<1>3. CASE EnsureCapacity \/ RegisterCheckpoint
  BY <1>1, <1>3, RotateKeeps, KeptOnSchedule DEF EnsureCapacity, RegisterCheckpoint
<1>4. CASE WriteLoraMeta
  BY <1>1, <1>2, <1>4, MakeDirKeeps, KeptOnSchedule DEF WriteLoraMeta
<1>5. CASE WriteAssets
  <2>1. disk' = [disk EXCEPT ![global_step].assets = TRUE]
    BY <1>5 DEF WriteAssets
  <2>2. ShardsKept
    BY <2>1 DEF ShardsKept, Dir
  <2> QED
    BY <1>1, <2>2, KeptOnSchedule
<1>6. ASSUME NEW r \in Ranks, RankStep(r) PROVE ShardsOnSchedule(disk)'
  <2>1. CASE LocalMkdir(r)
    BY <1>1, <2>1, MakeDirKeeps, KeptOnSchedule DEF LocalMkdir
  <2>2. CASE OpenShard(r)
    <3>1. disk' = [disk EXCEPT ![global_step].shard[r] = Torn]
      BY <2>2 DEF OpenShard, PutShard
    <3>2. ShardsKept
      BY <3>1 DEF ShardsKept, Dir, Torn
    <3> QED
      BY <1>1, <3>2, KeptOnSchedule
  <2>3. CASE CloseShard(r)
    <3>1. disk' = [disk EXCEPT ![global_step].shard[r] = Full(weights[r])]
      BY <2>3 DEF CloseShard, PutShard
    <3>2. Running /\ phase \in SavePhases
      BY <2>3 DEF CloseShard, Running, SavePhases
    <3>3. Aligned /\ accum = << >> /\ OnSchedule(r)
      BY <3>2 DEF Live, NothingPending
    <3>4. Position = <<StartEpoch(global_step), SkipBatches(global_step)>>
      BY <3>3, ResumePosition
    <3>5. weights[r] \o << >> = weights[r]
      BY ConcatEmptySeq
    <3>6. conf.mode = "continue" =>
            /\ Chain(weights[r])
            /\ After(weights[r]) = <<StartEpoch(global_step), SkipBatches(global_step)>>
      BY <3>3, <3>4, <3>5 DEF OnSchedule, Accountable
    <3>7. \A s \in DOMAIN disk', t \in Ranks :
            \/ s \in DOMAIN disk /\ disk'[s].shard[t] = disk[s].shard[t]
            \/ s = global_step /\ disk'[s].shard[t] = Full(weights[r])
      BY <3>1 DEF Dir
    <3>8. conf.mode = "continue" => ShardOnSchedule(Full(weights[r]), global_step)
      BY <3>6 DEF ShardOnSchedule, Full
    <3> QED
      BY <1>1, <3>7, <3>8 DEF ShardsOnSchedule
  <2> QED
    BY <1>6, <2>1, <2>2, <2>3 DEF RankStep
<1>7. CASE \/ ResumeExplicit \/ ResumeMissing \/ StartFromScratch \/ ResumeLatest
           \/ TrainBatch \/ NextEpoch \/ FinishTraining \/ Barrier
           \/ ExportNothing \/ ExportSync \/ LaunchExportAsync
  BY <1>2, <1>7 DEF ResumeExplicit, ResumeMissing, StartFromScratch, ResumeLatest,
     BeginTraining, Fail, TrainBatch, NextEpoch, FinishTraining, EnterSave, Barrier,
     ExportNothing, ExportSync, LaunchExportAsync, saveVars
<1>8. CASE MergerEnds \/ Restart \/ UNCHANGED vars
  BY <1>2, <1>8 DEF MergerEnds, Restart, vars, saveVars
<1> QED
  BY <1>3, <1>4, <1>5, <1>6, <1>7, <1>8 DEF Next, JobStep

\* With a DistributedSampler the batches of an epoch come in one order.
LEMMA OrderStep ==
    ASSUME conf.sharded, order = Identity, [Next]_vars
    PROVE  order' = Identity
<1>1. Orders = {Identity}
  BY DEF Orders
<1> QED
  BY <1>1 DEF Next, JobStep, ResumeExplicit, ResumeMissing, StartFromScratch, ResumeLatest,
     BeginTraining, Fail, TrainBatch, NextEpoch, FinishTraining, EnsureCapacity, WriteAssets,
     Barrier, RankStep, LocalMkdir, OpenShard, CloseShard, RegisterCheckpoint, WriteLoraMeta,
     ExportNothing, ExportSync, LaunchExportAsync, MergerEnds, Restart, vars, jobVars

LEMMA LineageInvariance == Spec => []LineageInv
<1>1. Init => LineageInv
  BY DEF Init, LineageInv, Running
<1>2. TypeInv /\ LineageInv /\ [Next]_vars => LineageInv'
  <2> SUFFICES ASSUME TypeInv, LineageInv, [Next]_vars, conf'.sharded, BatchesPerEpoch > 0
               PROVE  /\ order' = Identity /\ Live'
                      /\ ShardsOnSchedule(disk)'
    BY DEF LineageInv, Live, ShardsOnSchedule
  <2>1. conf.sharded
    BY ConfStep
  <2>2. order = Identity /\ Live /\ ShardsOnSchedule(disk)
    BY <2>1 DEF LineageInv, Live, ShardsOnSchedule
  <2> QED
    BY <2>1, <2>2, OrderStep, LiveStep, ShardsStep
<1> QED
  BY <1>1, <1>2, TypeInvariance, PTL DEF Spec
-----------------------------------------------------------------------------
(* The theorems.                                                           *)

\* However often the job is killed and resumed, whatever the number of batches,
\* the accumulation window and the save interval, the weights are the schedule
\* from its first batch to the place the loop stands at: start_epoch and
\* skip_batches repeat nothing and skip nothing.
THEOREM ResumeIsExact == Spec => []LineageExact
<1>1. LineageInv => LineageExact
  BY DEF LineageInv, LineageExact, OnSchedule
<1> QED
  BY <1>1, LineageInvariance, PTL

\* Every complete shard in global_step_<s> holds the weights a resume at step s
\* expects, also in a directory that several lives of the job wrote into.
THEOREM ShardsNameTheirStep == Spec => []CheckpointsNameTheirStep
<1>1. LineageInv => CheckpointsNameTheirStep
  BY DEF LineageInv, CheckpointsNameTheirStep, ShardOnSchedule
<1> QED
  BY <1>1, LineageInvariance, PTL

-----------------------------------------------------------------------------
(* What is on disk: the inductive invariant, in parts.                     *)

\* Every directory is tracked, inherited, or being saved; the list is short.
TrackInv ==
    /\ \A s \in DOMAIN disk :
          \/ s \in SeqElements(previous_saved_paths) \cup inherited
          \/ phase \in SavePhases /\ s = global_step
    /\ Limited => Len(previous_saved_paths) <= conf.keep
    /\ phase = "meta" => global_step \in SeqElements(previous_saved_paths)

AlignInv == BatchesPerEpoch > 0 /\ Running => Aligned

\* What has been written of the checkpoint under way, by the ranks' progress.
SaveInv ==
    /\ phase \in SavePhases /\ ~final =>
          /\ BatchesPerEpoch > 0 /\ epoch < TotalEpochs
          /\ global_step % conf.save_steps = 0
    /\ phase \in SavePhases /\ final => epoch >= TotalEpochs
    /\ phase = "mkdir" => \A r \in Ranks : at[r] = "barrier" => global_step \in DOMAIN disk
    /\ phase = "dump" =>
          /\ global_step \in DOMAIN disk
          /\ \A r \in Ranks :
                at[r] \in {"assets", "barrier"} => disk[global_step].shard[r].state = "full"
          /\ at[0] = "barrier" => disk[global_step].assets
    /\ phase = "register" => global_step \in DOMAIN disk /\ Mergeable(disk[global_step])

\* From the launch to the registration of the final save.
Tracking ==
    \/ phase \in {"batch", "mkdir", "dump", "register"}
    \/ phase = "meta" /\ ~final

\* The final save writes into a directory that is tracked already.
Overwriting(s) == s = global_step /\ final /\ phase \in {"dump", "register"}

\* The tracked path number i: a complete periodic checkpoint of this life.
TrackedPath(i) ==
    LET s == previous_saved_paths[i] IN
    /\ s <= global_step /\ s % conf.save_steps = 0
    /\ s \in DOMAIN disk /\ (Mergeable(disk[s]) \/ Overwriting(s))
    /\ phase \in {"mkdir", "dump", "register"} /\ ~final => s < global_step

\* A life that has saved has trained, and reaches the end of the schedule exactly.
TrainedToEnd ==
    previous_saved_paths # << >> =>
        /\ BatchesPerEpoch > 0 /\ epoch <= TotalEpochs
        /\ epoch = TotalEpochs => global_step = TotalEpochs * OptimStepsPerEpoch

Increasing(q) == \A i, j \in 1 .. Len(q) : i < j => q[i] < q[j]

PathsInv ==
    /\ phase = "launch" => previous_saved_paths = << >>
    /\ Tracking =>
          /\ Increasing(previous_saved_paths) /\ TrainedToEnd
          /\ \A i \in 1 .. Len(previous_saved_paths) : TrackedPath(i)
-----------------------------------------------------------------------------
(* The step counter, for every sampler.                                    *)

LEMMA AlignedFrame ==
    ASSUME Aligned, UNCHANGED jobVars
    PROVE  Aligned'
BY DEF Aligned, AlignedAt, jobVars

LEMMA AlignedAfterLaunch ==
    ASSUME NEW w, NEW s \in Nat, BatchesPerEpoch > 0, BeginTraining(w, ResumedStep(s))
    PROVE  Aligned'
BY AlignedAfterLoad DEF BeginTraining, ResumedStep

LEMMA AlignStep ==
    ASSUME TypeInv, AlignInv, [Next]_vars
    PROVE  AlignInv'
<1> SUFFICES ASSUME BatchesPerEpoch > 0, Running' PROVE Aligned'
  BY DEF AlignInv
<1>1. CASE ResumeExplicit
  BY <1>1, AlignedAfterLaunch, ExplicitAssumption DEF ResumeExplicit
<1>2. CASE StartFromScratch
  <2>1. ResumedStep(0) = 0
    BY DEF ResumedStep
  <2> QED
    BY <1>2, <2>1, AlignedAfterLaunch DEF StartFromScratch
<1>3. CASE ResumeLatest
  <2>1. PICK s : /\ s = Latest(disk)
                 /\ IF Loadable(disk[s])
                      THEN BeginTraining([r \in Ranks |-> disk[s].shard[r].lineage], ResumedStep(s))
                      ELSE Fail
    BY <1>3 DEF ResumeLatest
  <2>2. s \in Nat
    BY <1>3, <2>1, LatestExists DEF ResumeLatest, TypeInv, TypeOK
  <2>3. ~Fail
    BY DEF Fail, Running
  <2> QED
    BY <2>1, <2>2, <2>3, AlignedAfterLaunch
<1>4. CASE TrainBatch
  BY <1>4, AlignedAfterBatch DEF AlignInv, TypeInv, TrainBatch, Running
<1>5. CASE NextEpoch
  BY <1>5, AlignedAfterEpoch DEF AlignInv, TypeInv, NextEpoch, Running
<1>6. CASE \/ FinishTraining \/ EnsureCapacity \/ WriteAssets \/ Barrier \/ RegisterCheckpoint
           \/ WriteLoraMeta \/ ExportSync \/ LaunchExportAsync \/ MergerEnds \/ UNCHANGED vars
           \/ \E r \in Ranks : RankStep(r)
  <2>1. UNCHANGED jobVars /\ Running
    BY <1>6 DEF FinishTraining, EnsureCapacity, WriteAssets, Barrier, RegisterCheckpoint,
       WriteLoraMeta, ExportSync, LaunchExportAsync, MergerEnds, RankStep, LocalMkdir, OpenShard,
       CloseShard, vars, Running
  <2> QED
    BY <2>1, AlignedFrame DEF AlignInv
<1>7. CASE ResumeMissing \/ ExportNothing \/ Restart
  BY <1>7 DEF ResumeMissing, ExportNothing, Restart, Fail, Running
<1> QED
  BY <1>1, <1>2, <1>3, <1>4, <1>5, <1>6, <1>7 DEF Next, JobStep
-----------------------------------------------------------------------------
(* Rotation.                                                               *)

\* What Rotate leaves: the list without its first n paths, and the disk without
\* their directories.
LEMMA RotateFacts ==
    ASSUME NEW q \in Seq(Nat), NEW n \in 0 .. Len(q), Rotate(q, disk, n)
    PROVE  /\ previous_saved_paths' \in Seq(Nat)
           /\ Len(previous_saved_paths') = Len(q) - n
           /\ \A i \in 1 .. Len(q) - n : previous_saved_paths'[i] = q[n + i]
           /\ DOMAIN disk' = {s \in DOMAIN disk : \A j \in 1 .. n : s # q[j]}
           /\ \A s \in DOMAIN disk' : disk'[s] = disk[s]
<1>1. Len(q) \in Nat /\ \A i \in 1 .. Len(q) : q[i] \in Nat
  BY LenProperties, ElementOfSeq
<1>2. /\ SubSeq(q, 1, n) \in Seq(Nat) /\ Len(SubSeq(q, 1, n)) = n
      /\ \A i \in 1 .. n : SubSeq(q, 1, n)[i] = q[i]
  <2>1. \A i \in 1 .. n : q[i] \in Nat
    BY <1>1
  <2> QED
    BY <1>1, <2>1, SubSeqProperties
<1>3. /\ SubSeq(q, n + 1, Len(q)) \in Seq(Nat) /\ Len(SubSeq(q, n + 1, Len(q))) = Len(q) - n
      /\ \A i \in 1 .. Len(q) - n : SubSeq(q, n + 1, Len(q))[i] = q[n + i]
  <2>1. \A i \in n + 1 .. Len(q) : q[i] \in Nat
    BY <1>1
  <2> QED
    BY <1>1, <2>1, SubSeqProperties
<1>4. SeqElements(SubSeq(q, 1, n)) = {q[j] : j \in 1 .. n}
  BY <1>2 DEF SeqElements
<1> QED
  BY <1>3, <1>4 DEF Rotate, Without

\* The new path at the end of the list.
LEMMA PathsWithNew ==
    ASSUME TypeOK
    PROVE  LET q == Append(previous_saved_paths, global_step) IN
           /\ q \in Seq(Nat) /\ Len(q) = Len(previous_saved_paths) + 1
           /\ Len(previous_saved_paths) \in Nat
           /\ \A i \in 1 .. Len(previous_saved_paths) : q[i] = previous_saved_paths[i]
           /\ q[Len(previous_saved_paths) + 1] = global_step
BY AppendProperties, LenProperties DEF TypeOK

LEMMA KeepType ==
    ASSUME TypeOK
    PROVE  conf.keep \in Int /\ conf.save_steps \in Nat \ {0}
BY ConstantsAssumption DEF TypeOK, ConfigType

\* The list after ensure_checkpoint_capacity: its first n paths are gone.
LEMMA CapacityFacts ==
    ASSUME TypeOK, EnsureCapacity
    PROVE  LET m == Len(previous_saved_paths) IN \E n \in 0 .. m :
           /\ n = IF conf.keep > 1 /\ m >= conf.keep THEN m - conf.keep + 1 ELSE 0
           /\ Len(previous_saved_paths') = m - n
           /\ \A i \in 1 .. m - n : previous_saved_paths'[i] = previous_saved_paths[n + i]
           /\ DOMAIN disk' = {s \in DOMAIN disk : \A j \in 1 .. n : s # previous_saved_paths[j]}
           /\ \A s \in DOMAIN disk' : disk'[s] = disk[s]
<1> DEFINE n == EnsureCapacityDrop
<1>1. n \in 0 .. Len(previous_saved_paths) /\ previous_saved_paths \in Seq(Nat)
  BY DropTypes DEF TypeOK
<1>2. Rotate(previous_saved_paths, disk, n)
  BY DEF EnsureCapacity
<1>3. n = IF conf.keep > 1 /\ Len(previous_saved_paths) >= conf.keep
            THEN Len(previous_saved_paths) - conf.keep + 1 ELSE 0
  BY DEF EnsureCapacityDrop
<1> HIDE DEF n
<1>4. /\ Len(previous_saved_paths') = Len(previous_saved_paths) - n
      /\ \A i \in 1 .. Len(previous_saved_paths) - n :
            previous_saved_paths'[i] = previous_saved_paths[n + i]
      /\ DOMAIN disk' = {s \in DOMAIN disk : \A j \in 1 .. n : s # previous_saved_paths[j]}
      /\ \A s \in DOMAIN disk' : disk'[s] = disk[s]
  BY <1>1, <1>2, RotateFacts
<1> QED
  BY <1>1, <1>3, <1>4

\* The list after register_checkpoint: the new path is at its end, and of the
\* earlier ones the first n are gone.
LEMMA RegisterFacts ==
    ASSUME TypeOK, RegisterCheckpoint
    PROVE  LET m == Len(previous_saved_paths) IN \E n \in 0 .. m :
           /\ n = IF conf.keep > 0 /\ m + 1 > conf.keep THEN m + 1 - conf.keep ELSE 0
           /\ Len(previous_saved_paths') = m + 1 - n
           /\ \A i \in 1 .. m - n : previous_saved_paths'[i] = previous_saved_paths[n + i]
           /\ previous_saved_paths'[m + 1 - n] = global_step
           /\ DOMAIN disk' = {s \in DOMAIN disk : \A j \in 1 .. n : s # previous_saved_paths[j]}
           /\ \A s \in DOMAIN disk' : disk'[s] = disk[s]
<1> DEFINE m == Len(previous_saved_paths)
           q == Append(previous_saved_paths, global_step)
           n == RegisterDrop(q)
<1>1. /\ q \in Seq(Nat) /\ Len(q) = m + 1 /\ m \in Nat
      /\ \A i \in 1 .. m : q[i] = previous_saved_paths[i]
      /\ q[m + 1] = global_step
  BY PathsWithNew
<1>2. Rotate(q, disk, n)
  BY DEF RegisterCheckpoint
<1> HIDE DEF q, m
<1>3. n \in 0 .. Len(q)
  BY <1>1, DropTypes DEF TypeOK
<1>4. n = IF conf.keep > 0 /\ m + 1 > conf.keep THEN m + 1 - conf.keep ELSE 0
  BY <1>1, KeepType DEF RegisterDrop, Limited
<1> HIDE DEF n
<1>5. n \in 0 .. m
  BY <1>1, <1>3, <1>4, KeepType
<1>6. /\ Len(previous_saved_paths') = Len(q) - n
      /\ \A i \in 1 .. Len(q) - n : previous_saved_paths'[i] = q[n + i]
      /\ DOMAIN disk' = {s \in DOMAIN disk : \A j \in 1 .. n : s # q[j]}
      /\ \A s \in DOMAIN disk' : disk'[s] = disk[s]
  BY <1>1, <1>2, <1>3, RotateFacts, Zenon
<1>7. Len(q) - n = m + 1 - n
  BY <1>1, <1>3
<1>8. \A i \in 1 .. m - n : previous_saved_paths'[i] = previous_saved_paths[n + i]
  <2>1. ASSUME NEW i \in 1 .. m - n PROVE i \in 1 .. m + 1 - n /\ n + i \in 1 .. m
    BY <1>1, <1>5
  <2> QED
    BY <1>1, <1>6, <1>7, <2>1
<1>9. previous_saved_paths'[m + 1 - n] = global_step
  <2>1. m + 1 - n \in 1 .. m + 1 - n /\ n + (m + 1 - n) = m + 1
    BY <1>1, <1>5
  <2> QED
    BY <1>1, <1>6, <1>7, <2>1
<1>10. DOMAIN disk' = {s \in DOMAIN disk : \A j \in 1 .. n : s # previous_saved_paths[j]}
  <2>1. \A j \in 1 .. n : q[j] = previous_saved_paths[j]
    BY <1>1, <1>5
  <2> QED
    BY <1>6, <2>1
<1> QED
  BY <1>4, <1>5, <1>6, <1>7, <1>8, <1>9, <1>10 DEF m

\* Steps of a life that touch neither the directories' set nor the list.
LEMMA TrackFrame ==
    ASSUME TrackInv, DOMAIN disk' = DOMAIN disk,
           UNCHANGED <<previous_saved_paths, inherited, conf>>,
           phase \in SavePhases => phase' \in SavePhases /\ global_step' = global_step,
           phase' # "meta"
    PROVE  TrackInv'
BY DEF TrackInv, Limited, SeqElements

LEMMA TrackStep ==
    ASSUME TypeInv, TrackInv, [Next]_vars
    PROVE  TrackInv'
<1> USE DEF TypeInv
<1>1. conf' = conf
  BY ConfStep
<1>2. CASE EnsureCapacity
  <2> DEFINE m == Len(previous_saved_paths)
  <2>1. PICK n \in 0 .. m :
          /\ Len(previous_saved_paths') = m - n
          /\ \A i \in 1 .. m - n : previous_saved_paths'[i] = previous_saved_paths[n + i]
          /\ DOMAIN disk' = {s \in DOMAIN disk : \A j \in 1 .. n : s # previous_saved_paths[j]}
    BY <1>2, CapacityFacts
  <2>2. m \in Nat
    BY LenProperties DEF TypeOK
  <2>3. \A s \in DOMAIN disk' : s \in SeqElements(previous_saved_paths)
                               => s \in SeqElements(previous_saved_paths')
    <3>1. SUFFICES ASSUME NEW i \in 1 .. m, previous_saved_paths[i] \in DOMAIN disk'
                   PROVE  previous_saved_paths[i] \in SeqElements(previous_saved_paths')
      BY DEF SeqElements
    <3> HIDE DEF m
    <3>2. i - n \in 1 .. m - n /\ n + (i - n) = i
      BY <2>1, <2>2, <3>1
    <3>3. previous_saved_paths'[i - n] = previous_saved_paths[n + (i - n)]
      BY <2>1, <3>2
    <3> QED
      BY <2>1, <3>2, <3>3 DEF SeqElements
  <2>4. UNCHANGED <<global_step, inherited, phase>> /\ phase = "mkdir"
    BY <1>2 DEF EnsureCapacity, jobVars, hostVars
  <2> QED
    BY <1>1, <2>1, <2>2, <2>3, <2>4, KeepType DEF TrackInv, Limited, SavePhases
<1>3. CASE RegisterCheckpoint
  <2> DEFINE m == Len(previous_saved_paths)
  <2>1. PICK n \in 0 .. m :
          /\ n = IF conf.keep > 0 /\ m + 1 > conf.keep THEN m + 1 - conf.keep ELSE 0
          /\ Len(previous_saved_paths') = m + 1 - n
          /\ \A i \in 1 .. m - n : previous_saved_paths'[i] = previous_saved_paths[n + i]
          /\ previous_saved_paths'[m + 1 - n] = global_step
          /\ DOMAIN disk' = {s \in DOMAIN disk : \A j \in 1 .. n : s # previous_saved_paths[j]}
    BY <1>3, RegisterFacts
  <2>2. m \in Nat
    BY LenProperties DEF TypeOK
  <2>3. global_step \in SeqElements(previous_saved_paths')
    <3> HIDE DEF m
    <3>1. m + 1 - n \in 1 .. Len(previous_saved_paths')
      BY <2>1, <2>2
    <3> QED
      BY <2>1, <3>1 DEF SeqElements
  <2>4. \A s \in DOMAIN disk' : s \in SeqElements(previous_saved_paths)
                               => s \in SeqElements(previous_saved_paths')
    <3>1. SUFFICES ASSUME NEW i \in 1 .. m, previous_saved_paths[i] \in DOMAIN disk'
                   PROVE  previous_saved_paths[i] \in SeqElements(previous_saved_paths')
      BY DEF SeqElements
    <3> HIDE DEF m
    <3>2. i - n \in 1 .. m - n /\ n + (i - n) = i /\ i - n \in 1 .. Len(previous_saved_paths')
      BY <2>1, <2>2, <3>1
    <3>3. previous_saved_paths'[i - n] = previous_saved_paths[n + (i - n)]
      BY <2>1, <3>2
    <3> QED
      BY <3>2, <3>3 DEF SeqElements
  <2>5. UNCHANGED <<global_step, inherited>> /\ phase' = "meta" /\ phase = "register"
    BY <1>3 DEF RegisterCheckpoint, jobVars, hostVars
  <2>6. Limited => Len(previous_saved_paths') <= conf.keep
    <3> HIDE DEF m
    <3> QED
      BY <2>1, <2>2, KeepType DEF Limited
  <2>7. \A s \in DOMAIN disk' : s \in SeqElements(previous_saved_paths') \cup inherited
                                \/ s = global_step
    BY <2>1, <2>4 DEF TrackInv
  <2> QED
    BY <1>1, <2>3, <2>5, <2>6, <2>7 DEF TrackInv, Limited, SavePhases
<1>4. CASE WriteLoraMeta
  <2>1. /\ UNCHANGED <<global_step, inherited, previous_saved_paths>>
        /\ phase = "meta" /\ phase' # "meta" /\ DOMAIN disk' \subseteq DOMAIN disk \cup {global_step}
    BY <1>4 DEF WriteLoraMeta, jobVars, hostVars, MakeDir, With
  <2> QED
    BY <1>1, <2>1 DEF TrackInv, Limited
<1>5. ASSUME NEW r \in Ranks, RankStep(r) PROVE TrackInv'
  <2>1. /\ UNCHANGED <<global_step, inherited, previous_saved_paths, phase>>
        /\ phase \in {"mkdir", "dump"} /\ DOMAIN disk' \subseteq DOMAIN disk \cup {global_step}
    BY <1>5 DEF RankStep, LocalMkdir, OpenShard, CloseShard, PutShard, jobVars, hostVars,
       MakeDir, With
  <2> QED
    BY <1>1, <2>1 DEF TrackInv, Limited, SavePhases
<1>6. CASE WriteAssets
  BY <1>1, <1>6, TrackFrame DEF WriteAssets, jobVars, hostVars, SavePhases
<1>7. CASE Barrier
  BY <1>1, <1>7, TrackFrame DEF Barrier, jobVars, hostVars, SavePhases
<1>8. CASE TrainBatch \/ FinishTraining
  BY <1>1, <1>8, TrackFrame DEF TrainBatch, FinishTraining, EnterSave, saveVars, hostVars, SavePhases
<1>9. CASE \/ ResumeExplicit \/ ResumeMissing \/ StartFromScratch \/ ResumeLatest \/ NextEpoch
           \/ ExportNothing \/ ExportSync \/ LaunchExportAsync
  BY <1>1, <1>9, TrackFrame DEF ResumeExplicit, ResumeMissing, StartFromScratch, ResumeLatest,
     BeginTraining, Fail, NextEpoch, ExportNothing, ExportSync, LaunchExportAsync, saveVars,
     hostVars, SavePhases
<1>10. CASE MergerEnds
  <2>1. /\ UNCHANGED <<disk, previous_saved_paths, inherited, global_step>>
        /\ phase' = phase \/ (phase = "merging" /\ phase' \in {"done", "failed"})
    BY <1>10 DEF MergerEnds, saveVars, jobVars, hostVars
  <2> QED
    BY <1>1, <2>1 DEF TrackInv, Limited, SavePhases
<1>11. CASE Restart
  <2>1. Len(<< >>) = 0 /\ inherited' = DOMAIN disk' /\ previous_saved_paths' = << >> /\ phase' = "launch"
    BY <1>11, EmptySeq DEF Restart
  <2> QED
    BY <1>1, <2>1, KeepType DEF TrackInv, Limited
<1>12. CASE UNCHANGED vars
  BY <1>12 DEF vars, saveVars, jobVars, hostVars, TrackInv, Limited
<1> QED
  BY <1>2, <1>3, <1>4, <1>5, <1>6, <1>7, <1>8, <1>9, <1>10, <1>11, <1>12 DEF Next, JobStep
-----------------------------------------------------------------------------
(* The paths on the list, and the directory being written.                 *)

\* ensure_checkpoint_capacity removes at most the oldest of at least two tracked
\* checkpoints, and the newest tracked one is complete.
LEMMA CapacityKeepsNewest ==
    ASSUME TypeOK, TrackInv, PathsInv, EnsureCapacity, NEW s \in DOMAIN disk \ DOMAIN disk'
    PROVE  /\ s < global_step
           /\ \E t \in DOMAIN disk' : t > s /\ Mergeable(disk'[t])
<1> DEFINE m == Len(previous_saved_paths)
<1>1. PICK n \in 0 .. m :
        /\ n = IF conf.keep > 1 /\ m >= conf.keep THEN m - conf.keep + 1 ELSE 0
        /\ DOMAIN disk' = {x \in DOMAIN disk : \A j \in 1 .. n : x # previous_saved_paths[j]}
        /\ \A x \in DOMAIN disk' : disk'[x] = disk[x]
  BY CapacityFacts
<1>2. PICK j \in 1 .. n : s = previous_saved_paths[j]
  BY <1>1
<1>3. phase = "mkdir" /\ Tracking
  BY DEF EnsureCapacity, Tracking
<1>4. m \in Nat /\ conf.keep \in Int /\ (conf.keep > 0 => m <= conf.keep)
  BY KeepType, LenProperties DEF TypeOK, TrackInv, Limited
<1>5. /\ \A x, y \in 1 .. m : x < y => previous_saved_paths[x] < previous_saved_paths[y]
      /\ \A i \in 1 .. m : TrackedPath(i)
  BY <1>3 DEF PathsInv, Increasing
<1>6. previous_saved_paths[m] \in Nat /\ s \in Nat /\ global_step \in Nat
  <2>1. m \in 1 .. m /\ j \in 1 .. m
    BY <1>1, <1>4
  <2> QED
    BY <1>2, <2>1, ElementOfSeq DEF TypeOK
<1> HIDE DEF m
<1>7. n = 1 /\ j = 1 /\ m >= 2
  BY <1>1, <1>2, <1>4
<1> DEFINE t == previous_saved_paths[m]
<1>8. t > s
  BY <1>2, <1>4, <1>5, <1>6, <1>7
<1>9. t <= global_step /\ t \in DOMAIN disk /\ Mergeable(disk[t])
  BY <1>3, <1>4, <1>5, <1>7 DEF TrackedPath, Overwriting
<1>10. t \in DOMAIN disk' /\ disk'[t] = disk[t]
  BY <1>1, <1>2, <1>6, <1>7, <1>8, <1>9
<1> QED
  BY <1>6, <1>8, <1>9, <1>10

\* register_checkpoint removes only older directories, unless the final save
\* registers the step of the last periodic one again.
LEMMA RegisterKeepsNew ==
    ASSUME TypeOK, TrackInv, PathsInv, SaveInv, RegisterCheckpoint,
           ~final \/ ~DuplicateFinalSave, NEW s \in DOMAIN disk \ DOMAIN disk'
    PROVE  /\ s < global_step
           /\ global_step \in DOMAIN disk' /\ disk'[global_step] = disk[global_step]
           /\ Mergeable(disk[global_step])
<1> DEFINE m == Len(previous_saved_paths)
<1>1. PICK n \in 0 .. m :
        /\ n = IF conf.keep > 0 /\ m + 1 > conf.keep THEN m + 1 - conf.keep ELSE 0
        /\ DOMAIN disk' = {x \in DOMAIN disk : \A j \in 1 .. n : x # previous_saved_paths[j]}
        /\ \A x \in DOMAIN disk' : disk'[x] = disk[x]
  BY RegisterFacts
<1>2. phase = "register" /\ Tracking
  BY DEF RegisterCheckpoint, Tracking
<1>3. m \in Nat /\ conf.keep \in Int /\ (conf.keep > 0 => m <= conf.keep)
  BY KeepType, LenProperties DEF TypeOK, TrackInv, Limited
<1>4. /\ \A x, y \in 1 .. m : x < y => previous_saved_paths[x] < previous_saved_paths[y]
      /\ \A i \in 1 .. m : TrackedPath(i)
  BY <1>2 DEF PathsInv, Increasing
<1>5. \A i \in 1 .. m : previous_saved_paths[i] \in Nat
  BY ElementOfSeq DEF TypeOK
<1>6. global_step \in Nat /\ global_step \in DOMAIN disk /\ Mergeable(disk[global_step])
  BY <1>2 DEF SaveInv, TypeOK
<1>7. ASSUME NEW j \in 1 .. n PROVE previous_saved_paths[j] < global_step
  <2>1. j \in 1 .. m /\ TrackedPath(j) /\ previous_saved_paths[j] <= global_step
    BY <1>1, <1>3, <1>4 DEF TrackedPath
  <2>2. CASE ~final
    BY <1>2, <2>1, <2>2 DEF TrackedPath
  <2>3. CASE j < m
    <3>1. m \in 1 .. m /\ previous_saved_paths[j] < previous_saved_paths[m] /\ TrackedPath(m)
      BY <1>3, <1>4, <2>1, <2>3
    <3>2. previous_saved_paths[m] <= global_step
      BY <3>1 DEF TrackedPath
    <3> QED
      BY <1>5, <1>6, <2>1, <3>1, <3>2
  <2>4. CASE final /\ j = m
    <3>1. conf.keep = 1
      <4> HIDE DEF m
      <4> QED
        BY <1>1, <1>3, <1>7, <2>4
    <3>2. ~((TotalEpochs * OptimStepsPerEpoch) % conf.save_steps = 0)
      BY <2>4, <3>1 DEF DuplicateFinalSave
    <3>3. previous_saved_paths # << >>
      BY <2>1, EmptySeq
    <3>4. epoch = TotalEpochs => global_step = TotalEpochs * OptimStepsPerEpoch
      BY <1>2, <3>3 DEF PathsInv, TrainedToEnd
    <3>5. epoch <= TotalEpochs
      BY <1>2, <3>3 DEF PathsInv, TrainedToEnd
    <3>6. epoch = TotalEpochs
      BY <1>2, <2>4, <3>5, ConstantsAssumption DEF SaveInv, TypeOK, SavePhases
    <3>7. previous_saved_paths[j] % conf.save_steps = 0
      BY <2>1 DEF TrackedPath
    <3>8. previous_saved_paths[j] # global_step
      BY <3>2, <3>4, <3>6, <3>7
    <3> QED
      BY <1>5, <1>6, <2>1, <3>8
  <2> HIDE DEF m
  <2> QED
    BY <1>3, <2>1, <2>2, <2>3, <2>4
<1>8. s < global_step
  BY <1>1, <1>7
<1>9. global_step \in DOMAIN disk'
  BY <1>1, <1>5, <1>6, <1>7
<1> QED
  BY <1>1, <1>6, <1>8, <1>9
-----------------------------------------------------------------------------
(* The save, rank by rank.                                                 *)

LEMMA SaveStep ==
    ASSUME TypeInv, TrackInv, PathsInv, SaveInv, [Next]_vars
    PROVE  SaveInv'
<1> USE DEF TypeInv
<1>1. conf' = conf
  BY ConfStep
<1>2. global_step \in Nat /\ epoch \in Nat /\ batch_idx \in Nat /\ BatchesPerEpoch \in Nat
      /\ TotalEpochs \in Nat /\ 0 \in Ranks /\ DOMAIN at = Ranks
  BY ConstantsAssumption DEF TypeOK
<1>3. CASE TrainBatch
  <2>1. CASE EnterSave(FALSE)
    <3>1. /\ phase' = "mkdir" /\ ~final' /\ at' = [r \in Ranks |-> "mkdir"]
          /\ epoch' = epoch /\ epoch < TotalEpochs /\ batch_idx < BatchesPerEpoch
      BY <1>3, <2>1 DEF TrainBatch, EnterSave
    <3>2. global_step' % conf.save_steps = 0
      BY <1>3, <3>1 DEF TrainBatch, EnterSave, SavePhases
    <3> QED
      BY <1>1, <1>2, <3>1, <3>2 DEF SaveInv, SavePhases
  <2>2. CASE ~EnterSave(FALSE)
    <3>1. phase' = "batch"
      BY <1>3, <2>2 DEF TrainBatch
    <3> QED
      BY <3>1 DEF SaveInv, SavePhases
  <2> QED
    BY <2>1, <2>2
<1>4. CASE FinishTraining
  BY <1>2, <1>4 DEF FinishTraining, EnterSave, SaveInv, SavePhases, jobVars
<1>5. CASE EnsureCapacity
  <2>1. /\ phase = "mkdir" /\ phase' = "mkdir" /\ UNCHANGED <<final, epoch, global_step>>
        /\ at' = [at EXCEPT ![0] = "made_room"]
    BY <1>5 DEF EnsureCapacity, jobVars
  <2>2. global_step \in DOMAIN disk => global_step \in DOMAIN disk'
    BY <1>2, <1>5, CapacityKeepsNewest
  <2> QED
    BY <1>1, <1>2, <2>1, <2>2 DEF SaveInv, SavePhases
<1>6. CASE RegisterCheckpoint
  BY <1>1, <1>6 DEF RegisterCheckpoint, SaveInv, SavePhases, jobVars
<1>7. ASSUME NEW r \in Ranks, RankStep(r) PROVE SaveInv'
  <2>1. /\ UNCHANGED <<final, epoch, global_step, phase>>
    BY <1>7 DEF RankStep, LocalMkdir, OpenShard, CloseShard, jobVars
  <2>2. CASE LocalMkdir(r)
    <3>1. phase = "mkdir" /\ global_step \in DOMAIN disk'
      BY <2>2 DEF LocalMkdir, MakeDir, With
    <3> QED
      BY <1>1, <2>1, <3>1 DEF SaveInv, SavePhases
  <2>3. CASE OpenShard(r)
    <3>1. /\ phase = "dump" /\ at[r] = "dump" /\ at' = [at EXCEPT ![r] = "writing"]
          /\ disk' = [disk EXCEPT ![global_step].shard[r] = Torn]
      BY <2>3 DEF OpenShard, PutShard
    <3>2. global_step \in DOMAIN disk /\ disk[global_step] \in Dir
      BY <3>1 DEF SaveInv, TypeOK
    <3>3. /\ global_step \in DOMAIN disk' /\ disk'[global_step].assets = disk[global_step].assets
          /\ \A t \in Ranks \ {r} : disk'[global_step].shard[t] = disk[global_step].shard[t]
      BY <3>1, <3>2 DEF Dir
    <3> QED
      BY <1>1, <1>2, <2>1, <3>1, <3>3 DEF SaveInv, SavePhases
  <2>4. CASE CloseShard(r)
    <3>1. /\ phase = "dump" /\ at' = [at EXCEPT ![r] = IF r = 0 THEN "assets" ELSE "barrier"]
          /\ disk' = [disk EXCEPT ![global_step].shard[r] = Full(weights[r])]
      BY <2>4 DEF CloseShard, PutShard
    <3>2. global_step \in DOMAIN disk /\ disk[global_step] \in Dir
      BY <3>1 DEF SaveInv, TypeOK
    <3>3. /\ global_step \in DOMAIN disk' /\ disk'[global_step].assets = disk[global_step].assets
          /\ \A t \in Ranks \ {r} : disk'[global_step].shard[t] = disk[global_step].shard[t]
          /\ disk'[global_step].shard[r].state = "full"
      BY <3>1, <3>2 DEF Dir, Full
    <3> QED
      BY <1>1, <1>2, <2>1, <3>1, <3>3 DEF SaveInv, SavePhases
  <2> QED
    BY <1>7, <2>2, <2>3, <2>4 DEF RankStep
<1>8. CASE WriteAssets
  <2>1. /\ phase = "dump" /\ at[0] = "assets" /\ at' = [at EXCEPT ![0] = "barrier"]
        /\ disk' = [disk EXCEPT ![global_step].assets = TRUE]
        /\ UNCHANGED <<final, epoch, global_step, phase>>
    BY <1>8 DEF WriteAssets, jobVars
  <2>2. global_step \in DOMAIN disk /\ disk[global_step] \in Dir
    BY <2>1 DEF SaveInv, TypeOK
  <2>3. /\ global_step \in DOMAIN disk' /\ disk'[global_step].assets
        /\ disk'[global_step].shard = disk[global_step].shard
    BY <2>1, <2>2 DEF Dir
  <2> QED
    BY <1>1, <1>2, <2>1, <2>3 DEF SaveInv, SavePhases
<1>9. CASE Barrier
  <2>1. UNCHANGED <<final, epoch, global_step, disk>>
    BY <1>9 DEF Barrier, jobVars
  <2>2. CASE phase = "mkdir"
    <3>1. phase' = "dump" /\ at' = [r \in Ranks |-> "dump"] /\ global_step \in DOMAIN disk
      BY <1>2, <1>9, <2>2 DEF Barrier, SaveInv
    <3> QED
      BY <1>1, <1>2, <2>1, <2>2, <3>1 DEF SaveInv, SavePhases
  <2>3. CASE phase = "dump"
    <3>1. phase' = "register" /\ global_step \in DOMAIN disk /\ Mergeable(disk[global_step])
      BY <1>2, <1>9, <2>3 DEF Barrier, SaveInv, Mergeable, Loadable
    <3> QED
      BY <1>1, <2>1, <2>3, <3>1 DEF SaveInv, SavePhases
  <2> QED
    BY <1>9, <2>2, <2>3 DEF Barrier
<1>10. CASE \/ ResumeExplicit \/ ResumeMissing \/ StartFromScratch \/ ResumeLatest \/ NextEpoch
            \/ WriteLoraMeta \/ ExportNothing \/ ExportSync \/ LaunchExportAsync \/ Restart
  <2>1. phase' \notin SavePhases
    BY <1>10 DEF ResumeExplicit, ResumeMissing, StartFromScratch, ResumeLatest, BeginTraining, Fail,
       NextEpoch, WriteLoraMeta, ExportNothing, ExportSync, LaunchExportAsync, Restart, SavePhases
  <2> QED
    BY <2>1 DEF SaveInv, SavePhases
<1>11. CASE MergerEnds
  <2>1. /\ UNCHANGED <<final, epoch, global_step, disk, at>>
        /\ phase' = phase \/ phase' \in {"done", "failed"}
    BY <1>11 DEF MergerEnds, saveVars, jobVars
  <2> QED
    BY <1>1, <2>1 DEF SaveInv, SavePhases
<1>12. CASE UNCHANGED vars
  BY <1>12 DEF vars, jobVars, saveVars, hostVars, SaveInv
<1> QED
  BY <1>3, <1>4, <1>5, <1>6, <1>7, <1>8, <1>9, <1>10, <1>11, <1>12 DEF Next, JobStep
-----------------------------------------------------------------------------
(* The list of paths.                                                      *)

\* A step that keeps the list keeps what is known of its paths, if it keeps the
\* complete directories complete, save the one it overwrites.
LEMMA PathsKept ==
    ASSUME PathsInv, Tracking, UNCHANGED <<previous_saved_paths, global_step, epoch, conf>>,
           phase' # "launch",
           ~final' /\ phase' \in {"mkdir", "dump", "register"} =>
                ~final /\ phase \in {"mkdir", "dump", "register"},
           \A i \in 1 .. Len(previous_saved_paths) :
              LET s == previous_saved_paths[i] IN
              s \in DOMAIN disk' /\ (Mergeable(disk'[s]) \/ Overwriting(s)')
    PROVE  PathsInv'
BY DEF PathsInv, Increasing, TrainedToEnd, TrackedPath, Overwriting

LEMMA NotTracking ==
    ASSUME ~Tracking', phase' # "launch"
    PROVE  PathsInv'
BY DEF PathsInv

\* The first batch loop of a life.
LEMMA PathsAfterLaunch ==
    ASSUME phase = "launch", PathsInv, previous_saved_paths' = previous_saved_paths,
           phase' # "launch"
    PROVE  PathsInv'
<1>1. previous_saved_paths' = << >> /\ Len(<< >>) = 0
  BY EmptySeq DEF PathsInv
<1> QED
  BY <1>1 DEF PathsInv, Increasing, TrainedToEnd

LEMMA PathsStep ==
    ASSUME TypeInv, TypeInv', TrackInv, AlignInv, SaveInv, PathsInv, [Next]_vars
    PROVE  PathsInv'
<1> USE DEF TypeInv
<1> DEFINE m == Len(previous_saved_paths)
<1>1. conf' = conf
  BY ConfStep
<1>2. /\ global_step \in Nat /\ epoch \in Nat /\ batch_idx \in Nat /\ BatchesPerEpoch \in Nat
      /\ TotalEpochs \in Nat /\ OptimStepsPerEpoch \in Nat \ {0} /\ GradAccum \in Nat \ {0}
      /\ m \in Nat /\ \A i \in 1 .. m : previous_saved_paths[i] \in Nat
  BY ConstantsAssumption, StepsPerEpoch, LenProperties, ElementOfSeq DEF TypeOK
<1>3. CASE ResumeExplicit \/ ResumeMissing \/ StartFromScratch \/ ResumeLatest
  BY <1>3, PathsAfterLaunch DEF ResumeExplicit, ResumeMissing, StartFromScratch, ResumeLatest,
     BeginTraining, Fail, saveVars
<1>4. CASE TrainBatch
  <2>1. /\ phase = "batch" /\ Tracking /\ phase' \in {"batch", "mkdir"}
        /\ UNCHANGED <<previous_saved_paths, disk, epoch>> /\ epoch < TotalEpochs
        /\ \/ phase' = "batch" /\ global_step' \in {global_step, global_step + 1}
           \/ global_step' = global_step + 1
    BY <1>4 DEF TrainBatch, EnterSave, Tracking, saveVars
  <2>2. \A i \in 1 .. m : TrackedPath(i)'
    <3>1. SUFFICES ASSUME NEW i \in 1 .. m PROVE TrackedPath(i)'
      OBVIOUS
    <3>2. TrackedPath(i) /\ ~Overwriting(previous_saved_paths[i])
      BY <2>1 DEF PathsInv, Overwriting
    <3> QED
      BY <1>1, <1>2, <2>1, <3>2 DEF TrackedPath
  <2>3. TrainedToEnd'
    BY <1>2, <2>1 DEF PathsInv, TrainedToEnd
  <2> QED
    BY <2>1, <2>2, <2>3 DEF PathsInv, Increasing
<1>5. CASE NextEpoch
  <2>1. /\ phase = "batch" /\ Tracking /\ Running /\ phase' = "batch" /\ epoch < TotalEpochs
        /\ UNCHANGED <<previous_saved_paths, disk, global_step>>
        /\ epoch' = epoch + 1 /\ batch_idx' = 0 /\ accum' = << >>
    BY <1>5 DEF NextEpoch, Tracking, Running, saveVars
  <2>2. BatchesPerEpoch > 0 => global_step' = epoch' * OptimStepsPerEpoch
    <3>1. SUFFICES ASSUME BatchesPerEpoch > 0 PROVE global_step' = epoch' * OptimStepsPerEpoch
      OBVIOUS
    <3>2. Aligned'
      BY <1>5, <2>1, <3>1, AlignedAfterEpoch DEF AlignInv
    <3>3. PICK k \in 0 .. OptimStepsPerEpoch : AlignedAt(k)'
      BY <3>2 DEF Aligned
    <3>4. batch_idx' < BatchesPerEpoch /\ Len(accum') = 0
      BY <2>1, <3>1, EmptySeq
    <3>5. 0 = k * GradAccum + 0
      BY <1>2, <2>1, <3>3, <3>4 DEF AlignedAt
    <3>6. k = 0
      <4>1. CASE k >= 1
        <5>1. k * GradAccum >= GradAccum
          BY <1>2, <4>1
        <5> QED
          BY <1>2, <3>5, <5>1, k * GradAccum \in Nat
      <4> QED
        BY <1>2, <4>1
    <3> QED
      BY <1>2, <2>1, <3>3, <3>6 DEF AlignedAt
  <2>3. TrainedToEnd'
    BY <1>2, <2>1, <2>2 DEF PathsInv, TrainedToEnd
  <2>4. \A i \in 1 .. m : TrackedPath(i)'
    BY <1>1, <2>1 DEF PathsInv, TrackedPath, Overwriting
  <2> QED
    BY <2>1, <2>3, <2>4 DEF PathsInv, Increasing
<1>6. CASE FinishTraining
  <2>1. CASE phase' = "failed"
    BY <2>1, NotTracking DEF Tracking
  <2>2. CASE phase' # "failed"
    <3>1. /\ phase = "batch" /\ Tracking /\ phase' = "mkdir" /\ final'
          /\ UNCHANGED <<previous_saved_paths, disk, global_step, epoch>>
      BY <1>6, <2>2 DEF FinishTraining, EnterSave, Tracking, jobVars
    <3>2. \A i \in 1 .. m : LET s == previous_saved_paths[i] IN
             s \in DOMAIN disk' /\ Mergeable(disk'[s])
      BY <3>1 DEF PathsInv, TrackedPath, Overwriting
    <3> QED
      BY <1>1, <3>1, <3>2, PathsKept
  <2> QED
    BY <2>1, <2>2
<1>7. CASE EnsureCapacity
  <2>1. PICK n \in 0 .. m :
          /\ Len(previous_saved_paths') = m - n
          /\ \A i \in 1 .. m - n : previous_saved_paths'[i] = previous_saved_paths[n + i]
          /\ DOMAIN disk' = {s \in DOMAIN disk : \A j \in 1 .. n : s # previous_saved_paths[j]}
          /\ \A s \in DOMAIN disk' : disk'[s] = disk[s]
    BY <1>7, CapacityFacts
  <2>2. /\ phase = "mkdir" /\ Tracking /\ phase' = "mkdir"
        /\ UNCHANGED <<global_step, epoch, final>>
    BY <1>7 DEF EnsureCapacity, Tracking, jobVars
  <2>3. /\ \A x, y \in 1 .. m : x < y => previous_saved_paths[x] < previous_saved_paths[y]
        /\ \A i \in 1 .. m : TrackedPath(i)
        /\ TrainedToEnd
    BY <2>2 DEF PathsInv, Increasing
  <2> HIDE DEF m
  <2>4. ASSUME NEW i \in 1 .. m - n
        PROVE  /\ n + i \in 1 .. m
               /\ previous_saved_paths[n + i] \in DOMAIN disk'
    <3>1. n + i \in 1 .. m /\ \A j \in 1 .. n : j \in 1 .. m /\ j < n + i
      BY <1>2, <2>1
    <3>2. \A j \in 1 .. n : previous_saved_paths[j] < previous_saved_paths[n + i]
      BY <2>3, <3>1
    <3>3. previous_saved_paths[n + i] \in DOMAIN disk
      BY <2>3, <3>1 DEF TrackedPath
    <3>4. \A j \in 1 .. n : previous_saved_paths[n + i] # previous_saved_paths[j]
      BY <1>2, <3>1, <3>2
    <3> QED
      BY <2>1, <3>1, <3>3, <3>4
  <2>5. \A i \in 1 .. m - n : TrackedPath(i)'
    <3>1. SUFFICES ASSUME NEW i \in 1 .. m - n PROVE TrackedPath(i)'
      OBVIOUS
    <3>2. TrackedPath(n + i) /\ previous_saved_paths'[i] = previous_saved_paths[n + i]
      BY <2>1, <2>3, <2>4
    <3> QED
      BY <1>1, <2>1, <2>2, <2>4, <3>2 DEF TrackedPath, Overwriting
  <2>6. \A x, y \in 1 .. m - n : x < y => previous_saved_paths'[x] < previous_saved_paths'[y]
    <3>1. SUFFICES ASSUME NEW x \in 1 .. m - n, NEW y \in 1 .. m - n, x < y
                   PROVE  previous_saved_paths'[x] < previous_saved_paths'[y]
      OBVIOUS
    <3>2. n + x \in 1 .. m /\ n + y \in 1 .. m /\ n + x < n + y
      BY <1>2, <2>1, <3>1
    <3> QED
      BY <2>1, <2>3, <3>2
  <2>7. TrainedToEnd'
    <3>1. CASE m = 0
      <4>1. Len(previous_saved_paths') = 0 /\ previous_saved_paths' \in Seq(Nat)
        <5>1. previous_saved_paths' \in Seq(Nat)
          BY <1>1 DEF TypeOK
        <5>2. n = 0
          BY <2>1, <3>1
        <5>3. m - n = 0
          BY <3>1, <5>2
        <5> QED
          BY <2>1, <5>1, <5>3
      <4> QED
        BY <4>1, EmptySeq DEF TrainedToEnd
    <3>2. CASE m # 0
      <4>1. previous_saved_paths # << >>
        BY <3>2, EmptySeq DEF m
      <4> QED
        BY <1>1, <2>2, <2>3, <4>1 DEF TrainedToEnd
    <3> QED
      BY <3>1, <3>2
  <2> QED
    BY <2>1, <2>2, <2>5, <2>6, <2>7 DEF PathsInv, Increasing, Tracking
<1>8. ASSUME NEW r \in Ranks, RankStep(r) PROVE PathsInv'
  <2>1. /\ phase \in {"mkdir", "dump"} /\ Tracking
        /\ UNCHANGED <<previous_saved_paths, global_step, epoch, final, phase>>
    BY <1>8 DEF RankStep, LocalMkdir, OpenShard, CloseShard, Tracking, jobVars
  <2>2. CASE LocalMkdir(r)
    <3>1. \A s \in DOMAIN disk : s \in DOMAIN disk' /\ disk'[s] = disk[s]
      BY <2>2 DEF LocalMkdir, MakeDir, With
    <3>2. phase = "mkdir"
      BY <2>2 DEF LocalMkdir
    <3> QED
      BY <1>1, <2>1, <3>1, <3>2, PathsKept DEF PathsInv, TrackedPath, Overwriting
  <2>3. CASE OpenShard(r) \/ CloseShard(r)
    <3>1. /\ phase = "dump" /\ DOMAIN disk' = DOMAIN disk
          /\ \A s \in DOMAIN disk : s # global_step => disk'[s] = disk[s]
      BY <2>3 DEF OpenShard, CloseShard, PutShard
    <3>2. \A i \in 1 .. m : LET s == previous_saved_paths[i] IN
             s \in DOMAIN disk' /\ (Mergeable(disk'[s]) \/ Overwriting(s)')
      BY <1>2, <2>1, <3>1 DEF PathsInv, TrackedPath, Overwriting
    <3> QED
      BY <1>1, <2>1, <3>1, <3>2, PathsKept
  <2> QED
    BY <1>8, <2>2, <2>3 DEF RankStep
<1>9. CASE WriteAssets
  <2>1. /\ phase = "dump" /\ Tracking /\ DOMAIN disk' = DOMAIN disk
        /\ UNCHANGED <<previous_saved_paths, global_step, epoch, final, phase>>
        /\ \A s \in DOMAIN disk : s # global_step => disk'[s] = disk[s]
    BY <1>9 DEF WriteAssets, Tracking, jobVars
  <2>2. \A i \in 1 .. m : LET s == previous_saved_paths[i] IN
           s \in DOMAIN disk' /\ (Mergeable(disk'[s]) \/ Overwriting(s)')
    BY <1>2, <2>1 DEF PathsInv, TrackedPath, Overwriting
  <2> QED
    BY <1>1, <2>1, <2>2, PathsKept
<1>10. CASE Barrier
  <2>1. /\ phase \in {"mkdir", "dump"} /\ Tracking /\ phase' \in {"dump", "register"}
        /\ UNCHANGED <<previous_saved_paths, global_step, epoch, final, disk>>
    BY <1>10 DEF Barrier, Tracking, jobVars
  <2>2. \A i \in 1 .. m : LET s == previous_saved_paths[i] IN
           s \in DOMAIN disk' /\ (Mergeable(disk'[s]) \/ Overwriting(s)')
    BY <1>2, <2>1 DEF PathsInv, TrackedPath, Overwriting
  <2> QED
    BY <1>1, <2>1, <2>2, PathsKept
<1>11. CASE RegisterCheckpoint
  <2>1. CASE final
    <3>1. ~Tracking' /\ phase' # "launch"
      BY <1>11, <2>1 DEF RegisterCheckpoint, Tracking
    <3> QED
      BY <3>1, NotTracking
  <2>2. CASE ~final
    <3>1. PICK n \in 0 .. m :
            /\ Len(previous_saved_paths') = m + 1 - n
            /\ \A i \in 1 .. m - n : previous_saved_paths'[i] = previous_saved_paths[n + i]
            /\ previous_saved_paths'[m + 1 - n] = global_step
            /\ DOMAIN disk' = {s \in DOMAIN disk : \A j \in 1 .. n : s # previous_saved_paths[j]}
            /\ \A s \in DOMAIN disk' : disk'[s] = disk[s]
      BY <1>11, RegisterFacts
    <3>2. /\ phase = "register" /\ Tracking /\ phase' = "meta" /\ ~final'
          /\ UNCHANGED <<global_step, epoch>>
      BY <1>11, <2>2 DEF RegisterCheckpoint, Tracking, jobVars
    <3>3. /\ \A x, y \in 1 .. m : x < y => previous_saved_paths[x] < previous_saved_paths[y]
          /\ \A i \in 1 .. m : TrackedPath(i) /\ previous_saved_paths[i] < global_step
      BY <2>2, <3>2 DEF PathsInv, Increasing, TrackedPath
    <3>4. /\ BatchesPerEpoch > 0 /\ epoch < TotalEpochs /\ global_step % conf.save_steps = 0
          /\ global_step \in DOMAIN disk /\ Mergeable(disk[global_step])
      BY <2>2, <3>2 DEF SaveInv, SavePhases
    <3> HIDE DEF m
    <3>5. global_step \in DOMAIN disk'
      <4>1. \A j \in 1 .. n : previous_saved_paths[j] # global_step
        <5>1. \A j \in 1 .. n : j \in 1 .. m
          BY <1>2, <3>1
        <5> QED
          BY <1>2, <3>3, <5>1
      <4> QED
        BY <3>1, <3>4, <4>1
    <3>6. ASSUME NEW i \in 1 .. m - n
          PROVE  n + i \in 1 .. m /\ previous_saved_paths[n + i] \in DOMAIN disk'
      <4>1. n + i \in 1 .. m /\ \A j \in 1 .. n : j \in 1 .. m /\ j < n + i
        BY <1>2, <3>1
      <4>2. \A j \in 1 .. n : previous_saved_paths[j] < previous_saved_paths[n + i]
        BY <3>3, <4>1
      <4>3. previous_saved_paths[n + i] \in DOMAIN disk
        BY <3>3, <4>1 DEF TrackedPath
      <4>4. \A j \in 1 .. n : previous_saved_paths[n + i] # previous_saved_paths[j]
        BY <1>2, <4>1, <4>2
      <4> QED
        BY <3>1, <4>1, <4>3, <4>4
    <3>7. \A i \in 1 .. m + 1 - n : TrackedPath(i)'
      <4>1. SUFFICES ASSUME NEW i \in 1 .. m + 1 - n PROVE TrackedPath(i)'
        OBVIOUS
      <4>2. CASE i = m + 1 - n
        BY <1>1, <1>2, <3>1, <3>2, <3>4, <3>5, <4>2 DEF TrackedPath
      <4>3. CASE i \in 1 .. m - n
        <5>1. TrackedPath(n + i) /\ previous_saved_paths'[i] = previous_saved_paths[n + i]
          BY <3>1, <3>3, <3>6, <4>3
        <5>2. ~Overwriting(previous_saved_paths[n + i])
          BY <2>2 DEF Overwriting
        <5> QED
          BY <1>1, <3>1, <3>2, <3>6, <4>3, <5>1, <5>2 DEF TrackedPath
      <4>4. i = m + 1 - n \/ i \in 1 .. m - n
        BY <1>2, <3>1
      <4> QED
        BY <4>2, <4>3, <4>4
    <3>8. \A x, y \in 1 .. m + 1 - n : x < y => previous_saved_paths'[x] < previous_saved_paths'[y]
      <4>1. SUFFICES ASSUME NEW x \in 1 .. m + 1 - n, NEW y \in 1 .. m + 1 - n, x < y
                     PROVE  previous_saved_paths'[x] < previous_saved_paths'[y]
        OBVIOUS
      <4>2. x \in 1 .. m - n /\ n + x \in 1 .. m
        BY <1>2, <3>1, <4>1
      <4>3. CASE y = m + 1 - n
        BY <3>1, <3>3, <4>2, <4>3
      <4>4. CASE y \in 1 .. m - n
        <5>1. n + y \in 1 .. m /\ n + x < n + y
          BY <1>2, <3>1, <4>1, <4>4
        <5> QED
          BY <3>1, <3>3, <4>2, <4>4, <5>1
      <4> QED
        BY <1>2, <3>1, <4>3, <4>4
    <3>9. TrainedToEnd'
      BY <1>2, <3>2, <3>4 DEF TrainedToEnd
    <3> QED
      BY <3>1, <3>2, <3>7, <3>8, <3>9 DEF PathsInv, Increasing
  <2> QED
    BY <2>1, <2>2
<1>12. CASE WriteLoraMeta
  <2>1. CASE final
    <3>1. ~Tracking' /\ phase' # "launch"
      BY <1>12, <2>1 DEF WriteLoraMeta, Tracking
    <3> QED
      BY <3>1, NotTracking
  <2>2. CASE ~final
    <3>1. /\ phase = "meta" /\ Tracking /\ phase' = "batch"
          /\ UNCHANGED <<previous_saved_paths, global_step, epoch>>
          /\ \A s \in DOMAIN disk : s \in DOMAIN disk' /\ disk'[s] = disk[s]
      BY <1>12, <2>2 DEF WriteLoraMeta, Tracking, jobVars, MakeDir, With
    <3>2. \A i \in 1 .. m : LET s == previous_saved_paths[i] IN
             s \in DOMAIN disk' /\ Mergeable(disk'[s])
      BY <3>1 DEF PathsInv, TrackedPath, Overwriting
    <3> QED
      BY <1>1, <3>1, <3>2, PathsKept
  <2> QED
    BY <2>1, <2>2
<1>13. CASE ExportNothing \/ ExportSync \/ LaunchExportAsync
  <2>1. ~Tracking' /\ phase' # "launch"
    BY <1>13 DEF ExportNothing, Fail, ExportSync, LaunchExportAsync, Tracking
  <2> QED
    BY <2>1, NotTracking
<1>14. CASE MergerEnds
  <2>1. CASE phase' = phase
    <3>1. UNCHANGED <<previous_saved_paths, disk, global_step, epoch, final, conf>>
      BY <1>14 DEF MergerEnds, saveVars, jobVars, hostVars
    <3> QED
      BY <2>1, <3>1 DEF PathsInv, Tracking, Increasing, TrainedToEnd, TrackedPath, Overwriting
  <2>2. CASE phase' # phase
    <3>1. ~Tracking' /\ phase' # "launch"
      BY <1>14, <2>2 DEF MergerEnds, Tracking
    <3> QED
      BY <3>1, NotTracking
  <2> QED
    BY <2>1, <2>2
<1>15. CASE Restart
  BY <1>15 DEF Restart, PathsInv, Tracking
<1>16. CASE UNCHANGED vars
  BY <1>16 DEF vars, jobVars, saveVars, hostVars, PathsInv, Tracking, Increasing, TrainedToEnd,
     TrackedPath, Overwriting
<1> QED
  BY <1>3, <1>4, <1>5, <1>6, <1>7, <1>8, <1>9, <1>10, <1>11, <1>12, <1>13, <1>14, <1>15, <1>16
  DEF Next, JobStep
-----------------------------------------------------------------------------
(* The theorems about rotation.                                            *)

RotationInv == TrackInv /\ AlignInv /\ SaveInv /\ PathsInv

LEMMA RotationInvariance == Spec => []RotationInv
<1>1. Init => RotationInv
  <2> SUFFICES ASSUME Init PROVE RotationInv
    OBVIOUS
  <2>1. /\ phase = "launch" /\ previous_saved_paths = << >> /\ DOMAIN disk = {} /\ conf \in Configs
        /\ Len(<< >>) = 0
    BY EmptySeq DEF Init
  <2>2. conf.keep \in Int
    BY <2>1, ConstantsAssumption DEF ConfigType
  <2> QED
    BY <2>1, <2>2 DEF RotationInv, TrackInv, AlignInv, SaveInv, PathsInv, Tracking, Running,
       SavePhases, Limited
<1>2. TypeInv /\ TypeInv' /\ RotationInv /\ [Next]_vars => RotationInv'
  BY TrackStep, AlignStep, SaveStep, PathsStep DEF RotationInv
<1> QED
  BY <1>1, <1>2, TypeInvariance, PTL DEF Spec

\* Rotation never loses track of a directory it made in this life of the job, and
\* never tracks more than max_ckpt_to_keep of them, at any step of a save.
THEOREM RotationTracksAll == Spec => []NoOrphanCheckpoints
<1>1. RotationInv => NoOrphanCheckpoints
  BY DEF RotationInv, TrackInv, NoOrphanCheckpoints
<1> QED
  BY <1>1, RotationInvariance, PTL

\* A complete checkpoint is removed only when a newer one is complete, for every
\* retention window and save interval, so that a crash at any point of a save
\* finds one; the one exception is the final save of an already saved step.
THEOREM RemovalIsSafe == Spec => RemovedOnlyForNewer
<1> DEFINE Safe == ~DuplicateFinalSave =>
              \A s \in DOMAIN disk \ DOMAIN disk' :
                  Mergeable(disk[s]) => \E t \in DOMAIN disk' : t > s /\ Mergeable(disk'[t])
<1>1. TypeInv /\ RotationInv /\ [Next]_vars => [Safe]_vars
  <2> SUFFICES ASSUME TypeInv, RotationInv, [Next]_vars, ~DuplicateFinalSave,
                      NEW s \in DOMAIN disk \ DOMAIN disk'
               PROVE  \E t \in DOMAIN disk' : t > s /\ Mergeable(disk'[t])
    BY DEF TypeInv
  <2> USE DEF TypeInv, RotationInv
  <2>1. CASE EnsureCapacity
    BY <2>1, CapacityKeepsNewest
  <2>2. CASE RegisterCheckpoint
    <3>1. global_step > s /\ global_step \in DOMAIN disk' /\ Mergeable(disk'[global_step])
      <4>1. s \in Nat /\ global_step \in Nat
        BY DEF TypeOK
      <4> QED
        BY <2>2, <4>1, RegisterKeepsNew
    <3> QED
      BY <3>1
  <2>3. CASE ~EnsureCapacity /\ ~RegisterCheckpoint
    <3>1. DOMAIN disk \subseteq DOMAIN disk'
      BY <2>3 DEF Next, JobStep, ResumeExplicit, ResumeMissing, StartFromScratch, ResumeLatest,
         BeginTraining, Fail, TrainBatch, NextEpoch, FinishTraining, EnterSave, WriteAssets,
         Barrier, RankStep, LocalMkdir, MakeDir, With, OpenShard, CloseShard, PutShard,
         WriteLoraMeta, ExportNothing, ExportSync, LaunchExportAsync, MergerEnds, Restart,
         vars, saveVars
    <3> QED
      BY <3>1
  <2> QED
    BY <2>1, <2>2, <2>3
<1> QED
  BY <1>1, TypeInvariance, RotationInvariance, PTL DEF Spec, RemovedOnlyForNewer
-----------------------------------------------------------------------------
(* The export.                                                             *)

\* The launches ExportedIsFinal is claimed for.
Claimed == conf.mode = "continue" \/ conf.resume = "explicit"

\* Where every life of a job that starts from the explicit checkpoint ends.
ExplicitStart == ResumedStep(ExplicitStep)
LastStep == TotalEpochs * OptimStepsPerEpoch
Goal == IF BatchesPerEpoch = 0 \/ ExplicitStart >= LastStep THEN ExplicitStart ELSE LastStep

GoalInv ==
    conf.resume = "explicit" =>
        /\ \A s \in DOMAIN disk : s <= Goal
        /\ Running =>
              /\ global_step <= Goal
              /\ epoch >= TotalEpochs \/ BatchesPerEpoch = 0 => global_step = Goal
              /\ epoch < TotalEpochs /\ BatchesPerEpoch # 0 => Goal = LastStep

\* A job that goes on from its newest directory has none that is newer.
NewestInv ==
    conf.mode = "continue" /\ conf.resume # "explicit" /\ Running =>
        \A s \in DOMAIN disk : s <= global_step

\* What a rank has written of the checkpoint under way are its weights.
WrittenInv ==
    /\ phase = "dump" => \A r \in Ranks :
          at[r] \in {"assets", "barrier"} => disk[global_step].shard[r].lineage = weights[r]
    /\ phase = "register" => \A r \in Ranks : disk[global_step].shard[r].lineage = weights[r]

HoldsWeights(d) == Mergeable(d) /\ \A r \in Ranks : d.shard[r].lineage = weights[r]

\* From the registration of the final save on, its directory is the newest and holds
\* the weights; the awaited merger reads it.
FinalInv ==
    Claimed /\ ~DuplicateFinalSave =>
        /\ (phase = "meta" /\ final) \/ phase \in {"export", "merging"} =>
              /\ global_step \in DOMAIN disk /\ HoldsWeights(disk[global_step])
              /\ \A s \in DOMAIN disk : s <= global_step
        /\ phase = "merging" /\ exporter # 0 => exporter = global_step
        /\ phase = "done" /\ conf.export = "sync" => HoldsWeights(merged)

AwaitedInv == conf.export = "sync" /\ exporter # 0 => phase = "merging"

ExportInv == GoalInv /\ NewestInv /\ WrittenInv /\ FinalInv /\ AwaitedInv

LEMMA GoalTypes ==
    /\ ExplicitStart \in Nat /\ LastStep \in Nat /\ Goal \in Nat
    /\ OptimStepsPerEpoch \in Nat /\ TotalEpochs \in Nat /\ BatchesPerEpoch \in Nat
    /\ ExplicitStart <= Goal
<1>1. ExplicitStart \in Nat
  BY ExplicitAssumption DEF ExplicitStart, ResumedStep
<1>2. /\ OptimStepsPerEpoch \in Nat /\ TotalEpochs \in Nat /\ BatchesPerEpoch \in Nat
      /\ LastStep \in Nat
  BY StepsPerEpoch, ConstantsAssumption DEF LastStep
<1>3. Goal \in Nat /\ ExplicitStart <= Goal
  BY <1>1, <1>2 DEF Goal
<1> QED
  BY <1>1, <1>2, <1>3

LEMMA ProductGrows ==
    ASSUME NEW a \in Nat, NEW b \in Nat, NEW p \in Nat, a <= b
    PROVE  a * p <= b * p
<1>1. PICK d \in Nat : b = a + d
  BY b - a \in Nat
<1>2. b * p = a * p + d * p /\ d * p \in Nat /\ a * p \in Nat
  BY <1>1
<1> QED
  BY <1>2

\* A launch starts at an epoch of the schedule exactly if steps are left to make.
LEMMA EpochsLeft ==
    ASSUME NEW s \in Nat
    PROVE  StartEpoch(s) \in Nat /\ (StartEpoch(s) >= TotalEpochs <=> s >= LastStep)
<1> DEFINE e == StartEpoch(s)  k == s % OptimStepsPerEpoch
<1>1. e \in Nat /\ k \in Nat /\ k < OptimStepsPerEpoch /\ s = e * OptimStepsPerEpoch + k
  BY ResumePlanTypes
<1>2. OptimStepsPerEpoch \in Nat /\ TotalEpochs \in Nat
  BY GoalTypes
<1> HIDE DEF e, k
<1>3. CASE e >= TotalEpochs
  <2>1. TotalEpochs * OptimStepsPerEpoch <= e * OptimStepsPerEpoch
    BY <1>1, <1>2, <1>3, ProductGrows
  <2>2. e * OptimStepsPerEpoch \in Nat /\ LastStep \in Nat
    BY <1>1, <1>2 DEF LastStep
  <2> QED
    BY <1>1, <1>3, <2>1, <2>2 DEF LastStep, e
<1>4. CASE ~(e >= TotalEpochs)
  <2>1. e + 1 \in Nat /\ e + 1 <= TotalEpochs
    BY <1>1, <1>2, <1>4
  <2>2. (e + 1) * OptimStepsPerEpoch <= TotalEpochs * OptimStepsPerEpoch
    BY <1>2, <2>1, ProductGrows
  <2>3. /\ (e + 1) * OptimStepsPerEpoch = e * OptimStepsPerEpoch + OptimStepsPerEpoch
        /\ e * OptimStepsPerEpoch \in Nat /\ LastStep \in Nat
    BY <1>1, <1>2 DEF LastStep
  <2> QED
    BY <1>1, <1>2, <1>4, <2>2, <2>3 DEF LastStep, e
<1> QED
  BY <1>3, <1>4

\* The first step of an epoch.
LEMMA EpochBegins ==
    ASSUME TypeOK, BatchesPerEpoch > 0, Aligned, NextEpoch
    PROVE  global_step' = epoch' * OptimStepsPerEpoch
<1>1. /\ BatchesPerEpoch \in Nat /\ GradAccum \in Nat \ {0} /\ OptimStepsPerEpoch \in Nat
      /\ epoch' \in Nat
  BY StepsPerEpoch, ConstantsAssumption DEF TypeOK, NextEpoch
<1>2. Aligned' /\ batch_idx' = 0 /\ Len(accum') = 0
  BY AlignedAfterEpoch, EmptySeq DEF NextEpoch
<1>3. PICK k \in 0 .. OptimStepsPerEpoch : AlignedAt(k)'
  BY <1>2 DEF Aligned
<1>4. 0 = k * GradAccum + 0
  BY <1>1, <1>2, <1>3 DEF AlignedAt
<1>5. k = 0
  <2>1. CASE k >= 1
    <3>1. k * GradAccum >= GradAccum
      BY <1>1, <2>1
    <3> QED
      BY <1>1, <1>4, <3>1, k * GradAccum \in Nat
  <2> QED
    BY <1>1, <2>1
<1> QED
  BY <1>1, <1>3, <1>5 DEF AlignedAt

\* Only a save makes a directory, and only that of the present step.
LEMMA DirectoriesAdded ==
    ASSUME [Next]_vars
    PROVE  /\ DOMAIN disk' \subseteq DOMAIN disk \cup {global_step}
           /\ DOMAIN disk' \subseteq DOMAIN disk \/ (Running /\ UNCHANGED jobVars)
<1>1. CASE \/ EnsureCapacity \/ RegisterCheckpoint
  BY <1>1 DEF EnsureCapacity, RegisterCheckpoint, Rotate, Without
<1>2. CASE WriteLoraMeta \/ \E r \in Ranks : LocalMkdir(r)
  BY <1>2 DEF WriteLoraMeta, LocalMkdir, MakeDir, With, Running
<1>3. CASE WriteAssets \/ \E r \in Ranks : OpenShard(r) \/ CloseShard(r)
  BY <1>3 DEF WriteAssets, OpenShard, CloseShard, PutShard
<1>4. CASE UNCHANGED disk
  BY <1>4
<1> QED
  BY <1>1, <1>2, <1>3, <1>4 DEF Next, JobStep, ResumeExplicit, ResumeMissing, StartFromScratch,
     ResumeLatest, BeginTraining, Fail, TrainBatch, NextEpoch, FinishTraining, EnterSave, Barrier,
     RankStep, ExportNothing, ExportSync, LaunchExportAsync, MergerEnds, Restart, vars, saveVars

\* Steps that leave counters and weights alone, and do not launch.
Quiet == UNCHANGED jobVars /\ (Running' => Running)

LEMMA JobSteps ==
    ASSUME [Next]_vars
    PROVE  \/ ResumeExplicit \/ StartFromScratch \/ (ResumeLatest /\ Running')
           \/ TrainBatch \/ NextEpoch \/ Quiet \/ ~Running'
BY DEF Next, JobStep, ResumeMissing, ResumeLatest, Fail, FinishTraining, EnsureCapacity,
   WriteAssets, Barrier, RankStep, LocalMkdir, OpenShard, CloseShard, RegisterCheckpoint,
   WriteLoraMeta, ExportNothing, ExportSync, LaunchExportAsync, MergerEnds, Restart, vars, Quiet,
   Running

LEMMA GoalStep ==
    ASSUME TypeInv, TypeInv', AlignInv, GoalInv, [Next]_vars
    PROVE  GoalInv'
<1> SUFFICES ASSUME conf.resume = "explicit" PROVE GoalInv'
  BY ConfStep DEF GoalInv
<1>1. conf' = conf /\ Goal' = Goal /\ Goal \in Nat
  BY ConfStep, GoalTypes DEF Goal, ExplicitStart, ResumedStep, LastStep
<1>2. /\ DOMAIN disk \subseteq Nat /\ global_step \in Nat /\ epoch \in Nat /\ batch_idx \in Nat
      /\ \A s \in DOMAIN disk : s <= Goal
  BY DEF TypeInv, TypeOK, GoalInv
<1>3. \A s \in DOMAIN disk' : s <= Goal
  BY <1>2, DirectoriesAdded DEF GoalInv
<1>4. CASE ResumeExplicit
  <2>1. global_step' = ExplicitStart /\ epoch' = StartEpoch(ExplicitStart)
    BY <1>4 DEF ResumeExplicit, BeginTraining, ExplicitStart
  <2>2. epoch' >= TotalEpochs <=> ExplicitStart >= LastStep
    BY <2>1, GoalTypes, EpochsLeft
  <2>3. epoch' \in Nat
    BY <2>1, GoalTypes, EpochsLeft
  <2> QED
    BY <1>1, <1>3, <2>1, <2>2, <2>3, GoalTypes DEF GoalInv, Goal
<1>5. CASE TrainBatch
  <2>1. /\ BatchesPerEpoch > 0 /\ epoch < TotalEpochs /\ Running /\ epoch' = epoch
    BY <1>2, <1>5, GoalTypes DEF TrainBatch, Running
  <2>2. Goal = LastStep
    BY <2>1 DEF GoalInv
  <2>3. Aligned'
    BY <1>5, <2>1, AlignedAfterBatch DEF AlignInv, TypeInv
  <2>4. PICK k \in 0 .. OptimStepsPerEpoch : global_step' = epoch * OptimStepsPerEpoch + k
    BY <2>1, <2>3 DEF Aligned, AlignedAt
  <2>5. (epoch + 1) * OptimStepsPerEpoch <= TotalEpochs * OptimStepsPerEpoch
    BY <1>2, <2>1, GoalTypes, ProductGrows
  <2>6. (epoch + 1) * OptimStepsPerEpoch = epoch * OptimStepsPerEpoch + OptimStepsPerEpoch
    BY <1>2, GoalTypes
  <2>7. global_step' <= LastStep
    BY <1>2, <2>4, <2>5, <2>6, GoalTypes, epoch * OptimStepsPerEpoch \in Nat DEF LastStep
  <2> QED
    BY <1>1, <1>2, <1>3, <2>1, <2>2, <2>7, GoalTypes DEF GoalInv
<1>6. CASE NextEpoch
  <2>1. /\ epoch < TotalEpochs /\ epoch' = epoch + 1 /\ global_step' = global_step /\ Running
    BY <1>6 DEF NextEpoch, Running
  <2>2. /\ global_step <= Goal /\ (BatchesPerEpoch = 0 => global_step = Goal)
        /\ (BatchesPerEpoch # 0 => Goal = LastStep)
    BY <2>1 DEF GoalInv
  <2>3. ASSUME BatchesPerEpoch # 0, epoch' >= TotalEpochs PROVE global_step' = Goal
    <3>1. global_step' = epoch' * OptimStepsPerEpoch
      BY <1>6, <2>1, <2>3, GoalTypes, EpochBegins DEF AlignInv, TypeInv
    <3>2. epoch' = TotalEpochs
      BY <1>2, <2>1, <2>3, GoalTypes
    <3> QED
      BY <2>2, <2>3, <3>1, <3>2 DEF LastStep
  <2> QED
    BY <1>1, <1>3, <2>1, <2>2, <2>3 DEF GoalInv
<1>7. CASE Quiet \/ ~Running'
  BY <1>1, <1>3, <1>7 DEF GoalInv, Quiet, jobVars
<1>8. ~StartFromScratch /\ ~ResumeLatest
  BY DEF StartFromScratch, ResumeLatest
<1> QED
  BY <1>4, <1>5, <1>6, <1>7, <1>8, JobSteps

LEMMA NewestStep ==
    ASSUME TypeInv, NewestInv, [Next]_vars
    PROVE  NewestInv'
<1> SUFFICES ASSUME conf.mode = "continue", conf.resume # "explicit", Running'
             PROVE  \A s \in DOMAIN disk' : s <= global_step'
  BY ConfStep DEF NewestInv
<1>1. DOMAIN disk \subseteq Nat /\ global_step \in Nat
  BY DEF TypeInv, TypeOK
<1>2. CASE StartFromScratch
  BY <1>2 DEF StartFromScratch, BeginTraining, saveVars
<1>3. CASE ResumeLatest
  <2>1. global_step' = Latest(disk) /\ disk' = disk /\ DOMAIN disk # {}
    BY <1>3 DEF ResumeLatest, BeginTraining, Fail, Running, ResumedStep, saveVars
  <2> QED
    BY <1>1, <2>1, LatestExists DEF TypeInv
<1>4. CASE TrainBatch \/ NextEpoch
  <2>1. global_step' \in {global_step, global_step + 1} /\ disk' = disk /\ Running
    BY <1>4 DEF TrainBatch, NextEpoch, EnterSave, Running, saveVars
  <2> QED
    BY <1>1, <2>1 DEF NewestInv
<1>5. CASE Quiet
  <2>1. Running /\ global_step' = global_step
    BY <1>5 DEF Quiet, jobVars
  <2> QED
    BY <1>1, <2>1, DirectoriesAdded DEF NewestInv
<1>6. ~ResumeExplicit
  BY DEF ResumeExplicit
<1> QED
  BY <1>2, <1>3, <1>4, <1>5, <1>6, JobSteps

LEMMA WrittenStep ==
    ASSUME TypeInv, SaveInv, WrittenInv, [Next]_vars
    PROVE  WrittenInv'
<1> USE DEF TypeInv
<1>1. ASSUME NEW r \in Ranks, OpenShard(r) \/ CloseShard(r) PROVE WrittenInv'
  <2>1. /\ phase = "dump" /\ phase' = "dump" /\ UNCHANGED <<global_step, weights>>
        /\ global_step \in DOMAIN disk /\ disk[global_step] \in Dir /\ DOMAIN at = Ranks
    BY <1>1 DEF OpenShard, CloseShard, jobVars, SaveInv, TypeOK
  <2>2. \A t \in Ranks \ {r} :
           at'[t] = at[t] /\ disk'[global_step].shard[t] = disk[global_step].shard[t]
    BY <1>1, <2>1 DEF OpenShard, CloseShard, PutShard, Dir
  <2>3. at'[r] \in {"assets", "barrier"} => disk'[global_step].shard[r].lineage = weights[r]
    <3>1. CASE OpenShard(r)
      BY <2>1, <3>1 DEF OpenShard
    <3>2. CASE CloseShard(r)
      <4>1. disk' = [disk EXCEPT ![global_step].shard[r] = Full(weights[r])]
        BY <3>2 DEF CloseShard, PutShard
      <4>2. disk'[global_step].shard[r] = Full(weights[r])
        BY <2>1, <4>1 DEF Dir
      <4> QED
        BY <4>2 DEF Full
    <3> QED
      BY <1>1, <3>1, <3>2
  <2> QED
    BY <2>1, <2>2, <2>3 DEF WrittenInv
<1>2. CASE WriteAssets
  <2>1. /\ phase = "dump" /\ phase' = "dump" /\ UNCHANGED <<global_step, weights>>
        /\ global_step \in DOMAIN disk /\ disk[global_step] \in Dir /\ DOMAIN at = Ranks
    BY <1>2 DEF WriteAssets, jobVars, SaveInv, TypeOK
  <2>2. disk'[global_step].shard = disk[global_step].shard
    BY <1>2, <2>1 DEF WriteAssets, Dir
  <2>3. \A t \in Ranks : at'[t] \in {"assets", "barrier"} => at[t] \in {"assets", "barrier"}
    BY <1>2, <2>1 DEF WriteAssets
  <2> QED
    BY <2>1, <2>2, <2>3 DEF WrittenInv
<1>3. CASE Barrier
  <2>1. UNCHANGED <<global_step, weights, disk>>
    BY <1>3 DEF Barrier, jobVars
  <2> QED
    BY <1>3, <2>1 DEF Barrier, WrittenInv
<1>4. CASE MergerEnds \/ UNCHANGED vars
  BY <1>4 DEF MergerEnds, vars, jobVars, saveVars, WrittenInv
<1>5. CASE phase' \notin {"dump", "register"}
  BY <1>5 DEF WrittenInv
<1> QED
  BY <1>1, <1>2, <1>3, <1>4, <1>5 DEF Next, JobStep, ResumeExplicit, ResumeMissing, StartFromScratch,
     ResumeLatest, BeginTraining, Fail, TrainBatch, NextEpoch, FinishTraining, EnterSave,
     EnsureCapacity, RankStep, LocalMkdir, RegisterCheckpoint, WriteLoraMeta, ExportNothing,
     ExportSync, LaunchExportAsync, Restart, saveVars

LEMMA AwaitedStep == ASSUME AwaitedInv, [Next]_vars PROVE AwaitedInv'
<1>1. conf' = conf
  BY ConfStep
<1>2. CASE ExportSync \/ LaunchExportAsync
  BY <1>1, <1>2 DEF ExportSync, LaunchExportAsync, AwaitedInv
<1>3. CASE MergerEnds
  BY <1>3 DEF MergerEnds, AwaitedInv
<1>4. CASE Restart
  BY <1>1, <1>4 DEF Restart, AwaitedInv
<1>5. CASE exporter' = exporter /\ (phase = "merging" => phase' = phase)
  BY <1>1, <1>5 DEF AwaitedInv
<1>6. \/ ExportSync \/ LaunchExportAsync \/ MergerEnds \/ Restart
      \/ exporter' = exporter /\ (phase = "merging" => phase' = phase)
  BY DEF Next, JobStep, ResumeExplicit, ResumeMissing, StartFromScratch, ResumeLatest,
     BeginTraining, Fail, TrainBatch, NextEpoch, FinishTraining, EnsureCapacity, WriteAssets,
     Barrier, RankStep, LocalMkdir, OpenShard, CloseShard, RegisterCheckpoint, WriteLoraMeta,
     ExportNothing, vars, mergeVars
<1> QED
  BY <1>2, <1>3, <1>4, <1>5, <1>6

\* The final save is registered: its directory stays, and is the newest.
LEMMA FinalRegistered ==
    ASSUME TypeInv, RotationInv, ExportInv, RegisterCheckpoint, final, Claimed, ~DuplicateFinalSave
    PROVE  /\ global_step \in DOMAIN disk' /\ HoldsWeights(disk[global_step])
           /\ disk'[global_step] = disk[global_step]
           /\ \A s \in DOMAIN disk' : s <= global_step
<1> USE DEF TypeInv, RotationInv, ExportInv
<1>1. /\ phase = "register" /\ global_step \in DOMAIN disk /\ Mergeable(disk[global_step])
      /\ epoch >= TotalEpochs
  BY DEF RegisterCheckpoint, SaveInv, SavePhases
<1>2. HoldsWeights(disk[global_step])
  BY <1>1 DEF WrittenInv, HoldsWeights
<1>3. global_step \in DOMAIN disk'
  <2>1. CASE global_step \in DOMAIN disk \ DOMAIN disk'
    BY <2>1, RegisterKeepsNew
  <2> QED
    BY <1>1, <2>1
<1>4. DOMAIN disk' \subseteq DOMAIN disk /\ disk'[global_step] = disk[global_step]
  BY <1>3, RegisterFacts
<1>5. \A s \in DOMAIN disk : s <= global_step
  BY <1>1 DEF Claimed, GoalInv, NewestInv, Running
<1> QED
  BY <1>2, <1>3, <1>4, <1>5

LEMMA FinalStep ==
    ASSUME TypeInv, RotationInv, ExportInv, [Next]_vars
    PROVE  FinalInv'
<1> SUFFICES ASSUME Claimed, ~DuplicateFinalSave PROVE FinalInv'
  BY ConfStep DEF FinalInv, Claimed, DuplicateFinalSave
<1> USE DEF TypeInv, ExportInv
<1>1. conf' = conf
  BY ConfStep
<1>2. CASE RegisterCheckpoint
  <2>1. /\ phase' = "meta" /\ UNCHANGED <<final, global_step, weights>>
    BY <1>2 DEF RegisterCheckpoint, jobVars
  <2>2. CASE final
    BY <1>2, <2>1, <2>2, FinalRegistered DEF FinalInv, HoldsWeights
  <2>3. CASE ~final
    BY <2>1, <2>3 DEF FinalInv
  <2> QED
    BY <2>2, <2>3
<1>3. CASE WriteLoraMeta
  <2>1. /\ phase = "meta" /\ UNCHANGED <<final, global_step, weights>>
    BY <1>3 DEF WriteLoraMeta, jobVars
  <2>2. CASE final
    <3>1. /\ global_step \in DOMAIN disk /\ HoldsWeights(disk[global_step])
          /\ \A s \in DOMAIN disk : s <= global_step
      BY <2>1, <2>2 DEF FinalInv
    <3>2. disk' = disk
      BY <1>3, <3>1 DEF WriteLoraMeta, MakeDir
    <3>3. phase' \in {"done", "export"} /\ (phase' = "done" => conf.export = "none")
      BY <1>3, <2>2 DEF WriteLoraMeta
    <3> QED
      BY <1>1, <2>1, <3>1, <3>2, <3>3 DEF FinalInv, HoldsWeights
  <2>3. CASE ~final
    BY <1>3, <2>3 DEF WriteLoraMeta, FinalInv
  <2> QED
    BY <2>2, <2>3
<1>4. CASE ExportSync
  <2>1. /\ phase = "export" /\ phase' = "merging" /\ exporter' = Latest(disk)
        /\ DOMAIN disk # {} /\ UNCHANGED <<global_step, weights, disk>>
    BY <1>4 DEF ExportSync, jobVars, saveVars
  <2>2. /\ global_step \in DOMAIN disk /\ HoldsWeights(disk[global_step])
        /\ \A s \in DOMAIN disk : s <= global_step
    BY <2>1 DEF FinalInv
  <2>3. Latest(disk) = global_step
    <3>1. /\ Latest(disk) \in DOMAIN disk /\ global_step <= Latest(disk)
          /\ Latest(disk) <= global_step
      BY <2>1, <2>2, LatestExists DEF TypeOK
    <3>2. Latest(disk) \in Nat /\ global_step \in Nat
      BY <3>1 DEF TypeOK
    <3> QED
      BY <3>1, <3>2
  <2> QED
    BY <2>1, <2>2, <2>3 DEF FinalInv, HoldsWeights
<1>5. CASE LaunchExportAsync
  BY <1>1, <1>5 DEF LaunchExportAsync, FinalInv
<1>6. CASE MergerEnds
  <2>1. /\ exporter # 0 /\ exporter' = 0 /\ UNCHANGED <<final, global_step, weights, disk>>
        /\ merged' = IF MergerSucceeds THEN disk[exporter] ELSE merged
    BY <1>6 DEF MergerEnds, jobVars, saveVars
  <2>2. CASE phase = "merging"
    <3>1. exporter = global_step /\ HoldsWeights(disk[global_step]) /\ global_step \in DOMAIN disk
      BY <2>1, <2>2 DEF FinalInv
    <3>2. MergerSucceeds
      BY <3>1 DEF MergerSucceeds, HoldsWeights
    <3>3. phase' = "done" /\ merged' = disk[global_step]
      BY <1>6, <2>1, <2>2, <3>1, <3>2 DEF MergerEnds
    <3> QED
      BY <2>1, <3>1, <3>3 DEF FinalInv, HoldsWeights
  <2>3. CASE phase # "merging"
    <3>1. phase' = phase /\ conf.export # "sync"
      BY <1>6, <2>1, <2>3 DEF MergerEnds, AwaitedInv
    <3> QED
      BY <1>1, <2>1, <2>3, <3>1 DEF FinalInv, HoldsWeights
  <2> QED
    BY <2>2, <2>3
<1>7. CASE UNCHANGED vars
  BY <1>7 DEF vars, jobVars, saveVars, mergeVars, hostVars, FinalInv, HoldsWeights
<1>8. CASE phase' \notin {"meta", "export", "merging", "done"}
  BY <1>8 DEF FinalInv
<1>9. \/ RegisterCheckpoint \/ WriteLoraMeta \/ ExportSync \/ LaunchExportAsync \/ MergerEnds
      \/ UNCHANGED vars \/ phase' \notin {"meta", "export", "merging", "done"}
  BY DEF Next, JobStep, ResumeExplicit, ResumeMissing, StartFromScratch, ResumeLatest,
     BeginTraining, Fail, TrainBatch, NextEpoch, FinishTraining, EnterSave, EnsureCapacity,
     WriteAssets, Barrier, RankStep, LocalMkdir, OpenShard, CloseShard, ExportNothing, Restart,
     saveVars
<1> QED
  BY <1>2, <1>3, <1>4, <1>5, <1>6, <1>7, <1>8, <1>9

\* hf_merged holds the weights training ended with once an awaited export has succeeded,
\* for every schedule, retention window, number of ranks and history of crashes: the
\* newest directory, which _find_latest_checkpoint picks, is that of the final save.
THEOREM ExportIsFinal == Spec => []ExportedIsFinal
<1>1. Init => ExportInv
  BY GoalTypes DEF Init, ExportInv, GoalInv, NewestInv, WrittenInv, FinalInv, AwaitedInv, Running
<1>2. TypeInv /\ TypeInv' /\ RotationInv /\ ExportInv /\ [Next]_vars => ExportInv'
  BY GoalStep, NewestStep, WrittenStep, FinalStep, AwaitedStep DEF ExportInv, RotationInv
<1>3. ExportInv => ExportedIsFinal
  BY DEF ExportInv, FinalInv, Claimed, HoldsWeights, ExportedIsFinal
<1> QED
  BY <1>1, <1>2, <1>3, TypeInvariance, RotationInvariance, PTL DEF Spec
=============================================================================
