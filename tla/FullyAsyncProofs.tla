-------------------------- MODULE FullyAsyncProofs --------------------------
EXTENDS FullyAsync, SequenceTheorems, FiniteSetTheorems, FunctionTheorems, TLAPS

\* A feeder that has not ended has a sample left.
FeedInv == feed = "feeding" => fed < TotalRolloutSteps

Typed == TypeOK /\ FeedInv

LEMMA ConstantTypes ==
    /\ TotalRolloutSteps \in Nat /\ TotalRolloutSteps > 0
    /\ RequiredSamples \in Nat /\ RequiredSamples > 0
    /\ TriggerSteps \in Nat /\ TriggerSteps > 0
    /\ MaxRequired \in Nat /\ MaxRequired > 0
<1>1. {TotalRolloutSteps, RequiredSamples, TriggerSteps} \subseteq Nat \ {0}
      /\ StalenessPercent \in Nat
  BY FullyAsyncAssumption
<1>2. /\ TotalRolloutSteps \in Nat /\ TotalRolloutSteps > 0
      /\ RequiredSamples \in Nat /\ RequiredSamples > 0
      /\ TriggerSteps \in Nat /\ TriggerSteps > 0
  BY <1>1
<1>3. MaxRequired \in Nat /\ MaxRequired > 0
  <2> DEFINE n == RequiredSamples * (100 + StalenessPercent)
  <2>1. n \in Nat /\ n >= 100
    BY <1>1, <1>2
  <2> HIDE DEF n
  <2>2. n * TriggerSteps \in Nat /\ n * TriggerSteps >= 100
    BY <1>2, <2>1
  <2>3. \A m \in Nat : m >= 100 => m \div 100 \in Nat /\ m \div 100 > 0
    OBVIOUS
  <2> QED
    BY <2>2, <2>3 DEF MaxRequired, n
<1> QED
  BY <1>2, <1>3

LEMMA InitialTypes == Init => Typed
<1> SUFFICES ASSUME Init PROVE Typed
  OBVIOUS
<1>1. partial \in BOOLEAN
  <2>1. partial \in PartialRollouts /\ PartialRollouts \subseteq BOOLEAN
    BY FullyAsyncAssumption DEF Init
  <2> QED
    BY <2>1, Zenon
<1>2. MQ!TypeOK
  BY DEF Init, MQ!Init, MQ!TypeOK
<1>3. task \in [Samples -> {"none", "new", "generating", "refused", "putting"}]
  BY DEF Init
<1>4. local_trigger_step \in 1 .. TriggerSteps /\ fed \in 0 .. TotalRolloutSteps
  BY ConstantTypes DEF Init
<1>5. {paused, running, monitor_loop_trigger, server_paused} \subseteq BOOLEAN
  BY DEF Init
<1>6. /\ waitq \in Seq(Coroutines) /\ pending_queue \in Seq(Samples \cup {DONE})
      /\ cancel_queue \in Seq(Samples) /\ collected \in Seq(Samples)
  BY DEF Init
<1>7. /\ {finished, raised, failures, counted} \subseteq Nat
      /\ {version, staleness_samples, train_version} \subseteq Nat
  BY DEF Init
<1>8. /\ cur \in Coroutines \cup {Idle} /\ lock \in Coroutines \cup {Nobody}
      /\ proc \in ProcPlaces /\ {pause, update, resume} \subseteq CallPlaces
  BY DEF Init, Idle, Nobody, ProcPlaces, CallPlaces
<1>9. TypeOK
  BY <1>1, <1>2, <1>3, <1>4, <1>5, <1>6, <1>7, <1>8 DEF Init, TypeOK
<1> QED
  BY <1>9, ConstantTypes DEF Init, Typed, FeedInv

\* The lock and its waiters stay coroutines of the rollouter.
LEMMA LockTypes ==
    ASSUME Typed, NEW c \in Coroutines
    PROVE  /\ Acquire(c) =>
                /\ lock' \in Coroutines \cup {Nobody} /\ waitq' \in Seq(Coroutines)
                /\ cur' \in Coroutines \cup {Idle}
           /\ Release => lock' \in Coroutines \cup {Nobody} /\ waitq' \in Seq(Coroutines)
           /\ Suspend \/ KeepRunning(c) => cur' \in Coroutines \cup {Idle}
<1>1. lock \in Coroutines \cup {Nobody} /\ waitq \in Seq(Coroutines)
  BY DEF Typed, TypeOK
<1>2. ASSUME Release PROVE lock' \in Coroutines \cup {Nobody} /\ waitq' \in Seq(Coroutines)
  BY <1>1, <1>2, HeadTailProperties DEF Release
<1>3. Suspend \/ KeepRunning(c) => cur' \in Coroutines \cup {Idle}
  BY DEF Suspend, KeepRunning
<1>4. ASSUME Acquire(c)
      PROVE  /\ lock' \in Coroutines \cup {Nobody} /\ waitq' \in Seq(Coroutines)
             /\ cur' \in Coroutines \cup {Idle}
  <2>1. Suspend \/ KeepRunning(c)
    BY <1>4 DEF Acquire
  <2>2. lock' \in Coroutines \cup {Nobody} /\ waitq' \in Seq(Coroutines)
    <3>1. Append(waitq, c) \in Seq(Coroutines)
      BY <1>1
    <3> QED
      BY <1>1, <1>4, <3>1 DEF Acquire
  <2> QED
    BY <1>3, <2>1, <2>2
<1> QED
  BY <1>2, <1>3, <1>4

\* The processor is woken from one of its two waits or stays where it is.
LEMMA NotifyTypes == ASSUME NotifyAll, proc \in ProcPlaces PROVE proc' \in ProcPlaces
<1>1. CASE proc = "idle_wait"
  BY <1>1, ZenonT(30) DEF NotifyAll, ProcPlaces
<1>2. CASE proc = "submit_wait"
  BY <1>2, ZenonT(30) DEF NotifyAll, ProcPlaces
<1>3. CASE proc # "idle_wait" /\ proc # "submit_wait"
  BY <1>3, ZenonT(30) DEF NotifyAll
<1> QED
  BY <1>1, <1>2, <1>3

\* A step that does not touch the queue keeps its types.
LEMMA QueueUntouched == ASSUME Typed, UNCHANGED mqVars PROVE MQ!TypeOK'
  BY DEF Typed, TypeOK, MQ!TypeOK, mqVars

\* The parts of TypeOK, by what is written together.
LoopOK == /\ lock \in Coroutines \cup {Nobody} /\ waitq \in Seq(Coroutines)
          /\ cur \in Coroutines \cup {Idle}
FeedOK == /\ feed \in {"feeding", "done", "ended"} /\ fed \in 0 .. TotalRolloutSteps
          /\ FeedInv
ProcOK == /\ proc \in ProcPlaces /\ why \in {"none", "pause", "limit", "done"}
          /\ held \in Samples \cup {DONE, -1} /\ done_bound \in BOOLEAN
TaskOK == task \in [Samples -> {"none", "new", "generating", "refused", "putting"}]
DoneOK == {finished, raised, failures, counted} \subseteq Nat
PendingOK == pending_queue \in Seq(Samples \cup {DONE})
CancelOK == cancel_queue \in Seq(Samples)
VersionsOK == {version, staleness_samples, train_version} \subseteq Nat
PausesOK == {paused, running, monitor_loop_trigger, server_paused} \subseteq BOOLEAN
WhereOK == /\ partial \in BOOLEAN
           /\ monitor \in {"top", "check_running", "sleep", "recover", "exited"}
           /\ main \in {"streaming", "signalled", "locking", "stopped"}
CallOK == {pause, update, resume} \subseteq CallPlaces
TrainOK == /\ trainer \in {"collect", "train", "wait_valid", "pausing", "syncing", "log",
                           "final_wait", "done", "error"}
           /\ collected \in Seq(Samples) /\ trained \subseteq Samples
           /\ local_trigger_step \in 1 .. TriggerSteps

LEMMA TypedParts ==
    /\ Typed => /\ LoopOK /\ FeedOK /\ ProcOK /\ TaskOK /\ DoneOK /\ PendingOK /\ CancelOK
                /\ VersionsOK /\ PausesOK /\ WhereOK /\ CallOK /\ TrainOK /\ MQ!TypeOK
    /\ (/\ LoopOK /\ FeedOK /\ ProcOK /\ TaskOK /\ DoneOK /\ PendingOK /\ CancelOK
        /\ VersionsOK /\ PausesOK /\ WhereOK /\ CallOK /\ TrainOK /\ MQ!TypeOK)' => Typed'
<1>1. Typed => /\ LoopOK /\ FeedOK /\ ProcOK /\ TaskOK /\ DoneOK /\ PendingOK /\ CancelOK
               /\ VersionsOK /\ PausesOK /\ WhereOK /\ CallOK /\ TrainOK /\ MQ!TypeOK
  BY Zenon DEF Typed, TypeOK, LoopOK, FeedOK, ProcOK, TaskOK, DoneOK, PendingOK, CancelOK, VersionsOK,
     PausesOK, WhereOK, CallOK, TrainOK
<1>2. (/\ LoopOK /\ FeedOK /\ ProcOK /\ TaskOK /\ DoneOK /\ PendingOK /\ CancelOK
       /\ VersionsOK /\ PausesOK /\ WhereOK /\ CallOK /\ TrainOK /\ MQ!TypeOK)' => Typed'
  BY Zenon DEF Typed, TypeOK, LoopOK, FeedOK, ProcOK, TaskOK, DoneOK, PendingOK, CancelOK, VersionsOK,
     PausesOK, WhereOK, CallOK, TrainOK
<1> QED
  BY <1>1, <1>2

\* What a step leaves alone keeps its types.
LEMMA PartsKept ==
    ASSUME Typed
    PROVE  /\ UNCHANGED loopVars => LoopOK'
           /\ UNCHANGED feedVars => FeedOK'
           /\ UNCHANGED procVars => ProcOK'
           /\ UNCHANGED taskVars => TaskOK'
           /\ UNCHANGED pending_queue => PendingOK'
           /\ UNCHANGED cancel_queue => CancelOK'
           /\ UNCHANGED <<version, staleness_samples, train_version>> => VersionsOK'
           /\ UNCHANGED <<paused, running, monitor_loop_trigger, server_paused>> => PausesOK'
           /\ UNCHANGED callVars => CallOK'
           /\ UNCHANGED trainVars => TrainOK'
           /\ UNCHANGED mqVars => MQ!TypeOK'
<1>1. (UNCHANGED loopVars => LoopOK') /\ (UNCHANGED feedVars => FeedOK')
  BY TypedParts DEF loopVars, LoopOK, feedVars, FeedOK, FeedInv
<1>2. (UNCHANGED procVars => ProcOK') /\ (UNCHANGED taskVars => TaskOK')
  BY TypedParts DEF procVars, ProcOK, taskVars, TaskOK
<1>3. /\ UNCHANGED pending_queue => PendingOK'
      /\ UNCHANGED cancel_queue => CancelOK'
  BY TypedParts DEF PendingOK, CancelOK
<1>4. /\ UNCHANGED <<version, staleness_samples, train_version>> => VersionsOK'
      /\ UNCHANGED <<paused, running, monitor_loop_trigger, server_paused>> => PausesOK'
  BY TypedParts DEF VersionsOK, PausesOK
<1>5. (UNCHANGED callVars => CallOK') /\ (UNCHANGED trainVars => TrainOK')
  BY TypedParts DEF callVars, CallOK, trainVars, TrainOK
<1> QED
  BY <1>1, <1>2, <1>3, <1>4, <1>5, QueueUntouched

LEMMA FeederTypes == ASSUME Typed, FeedStep PROVE Typed'
<1>1. LoopOK'
  BY TypedParts DEF FeedStep, FeedSample, FeedDone, FeedBlocks, KeepRunning, Suspend, KeepLock,
     LoopOK, Coroutines
<1>2. FeedOK' /\ PendingOK'
  <2>1. FeedOK /\ PendingOK
    BY TypedParts
  <2>2. CASE FeedSample
    <3>1. fed + 1 \in Samples
      BY <2>1, <2>2, ConstantTypes DEF FeedSample, FeedOK, FeedInv, Samples
    <3>2. Append(pending_queue, fed + 1) \in Seq(Samples \cup {DONE})
      BY <2>1, <3>1 DEF PendingOK
    <3> QED
      BY <2>1, <2>2, <3>1, <3>2, ConstantTypes
         DEF FeedSample, FeedOK, FeedInv, PendingOK, Samples
  <2>3. CASE FeedDone
    <3>1. Append(pending_queue, DONE) \in Seq(Samples \cup {DONE})
      BY <2>1 DEF PendingOK
    <3> QED
      BY <2>1, <2>3, <3>1 DEF FeedDone, FeedOK, FeedInv, PendingOK
  <2>4. CASE FeedBlocks
    BY <2>4, PartsKept DEF FeedBlocks, genVars
  <2> QED
    BY <2>2, <2>3, <2>4 DEF FeedStep
<1>3. /\ UNCHANGED <<partial, procVars, taskVars, callVars, trainVars, doneVars, cancel_queue,
                     flagVars, monitor, main, mqVars>>
  BY DEF FeedStep, FeedSample, FeedDone, FeedBlocks, genVars
<1>4. DoneOK' /\ VersionsOK' /\ PausesOK' /\ WhereOK'
  BY <1>3, TypedParts DEF taskVars, callVars, trainVars, doneVars, flagVars, DoneOK, VersionsOK,
     PausesOK, WhereOK
<1> QED
  BY <1>1, <1>2, <1>3, <1>4, TypedParts, PartsKept

\* What every step of the processor but the last leaves alone.
LEMMA ProcFrameTypes ==
    ASSUME Typed, ProcFrame
    PROVE  /\ FeedOK' /\ TaskOK' /\ WhereOK' /\ CallOK' /\ TrainOK' /\ MQ!TypeOK'
           /\ {failures', counted', train_version'} \subseteq Nat
           /\ UNCHANGED doneVars => DoneOK'
           /\ UNCHANGED flagVars => VersionsOK' /\ PausesOK'
<1>1. WhereOK' /\ {failures', counted', train_version'} \subseteq Nat
  BY TypedParts DEF ProcFrame, WhereOK, taskVars, callVars, trainVars, DoneOK, VersionsOK
<1>2. UNCHANGED doneVars => DoneOK'
  BY <1>1, TypedParts DEF doneVars, DoneOK
<1>3. UNCHANGED flagVars => VersionsOK' /\ PausesOK'
  BY <1>1, TypedParts DEF flagVars, VersionsOK, PausesOK
<1> QED
  BY <1>1, <1>2, <1>3, PartsKept DEF ProcFrame

\* A step that moves the processor and the lock, and nothing else.
LEMMA ProcMoves ==
    ASSUME Typed, ProcFrame, UNCHANGED <<genVars, flagVars>>, LoopOK', ProcOK'
    PROVE  Typed'
<1>1. DoneOK' /\ PendingOK' /\ CancelOK' /\ VersionsOK' /\ PausesOK'
  BY ProcFrameTypes, PartsKept DEF genVars
<1> QED
  BY <1>1, ProcFrameTypes, TypedParts

LEMMA ProcessorTypes == ASSUME Typed, ProcStep PROVE Typed'
<1>1. /\ "proc" \in Coroutines /\ ProcOK /\ CancelOK /\ PendingOK
      /\ LoopOK /\ VersionsOK /\ PausesOK
  BY TypedParts DEF Coroutines
<1>2. CASE ProcLoop
  <2>1. LoopOK'
    BY <1>1, <1>2, LockTypes DEF ProcLoop, KeepLock, LoopOK, KeepRunning
  <2>2. CASE UNCHANGED <<why, held, done_bound, genVars, flagVars>>
    <3>1. ProcOK' /\ ProcFrame
      BY <1>1, <1>2, <2>2 DEF ProcLoop, ProcOK, ProcPlaces
    <3> QED
      BY <2>1, <2>2, <3>1, ProcMoves
  <2>3. CASE ~UNCHANGED <<why, held, done_bound, genVars, flagVars>>
    <3>1. /\ cancel_queue # << >> /\ held' = Head(cancel_queue)
          /\ cancel_queue' = Tail(cancel_queue) /\ proc' = "drain" /\ why' = "limit"
          /\ UNCHANGED <<done_bound, doneVars, pending_queue, flagVars>> /\ ProcFrame
      BY <1>2, <2>3 DEF ProcLoop
    <3>2. Tail(cancel_queue) \in Seq(Samples) /\ Head(cancel_queue) \in Samples
      BY <1>1, <3>1, HeadTailProperties DEF CancelOK
    <3>3. CancelOK' /\ ProcOK'
      BY <1>1, <3>1, <3>2 DEF CancelOK, ProcOK, ProcPlaces
    <3> QED
      BY <2>1, <3>1, <3>3, ProcFrameTypes, PartsKept, TypedParts
  <2> QED
    BY <2>2, <2>3
<1>3. CASE ProcGet
  <2>1. LoopOK'
    BY <1>1, <1>3, LockTypes DEF ProcGet, KeepLock, LoopOK
  <2>2. PendingOK' /\ held' \in Samples \cup {DONE, -1}
    <3>1. pending_queue \in Seq(Samples \cup {DONE}) /\ pending_queue # << >>
      BY <1>1, <1>3 DEF ProcGet, PendingOK
    <3>2. /\ Tail(pending_queue) \in Seq(Samples \cup {DONE})
          /\ Head(pending_queue) \in Samples \cup {DONE}
      BY <3>1, HeadTailProperties
    <3> QED
      BY <1>3, <3>2 DEF ProcGet, PendingOK
  <2>3. ProcOK'
    BY <1>1, <1>3, <2>2 DEF ProcGet, ProcOK, ProcPlaces
  <2>4. ProcFrame /\ UNCHANGED <<doneVars, cancel_queue>>
    BY <1>3 DEF ProcGet
  <2>5. VersionsOK' /\ PausesOK'
    BY <1>1, <1>3, <2>4, ProcFrameTypes DEF ProcGet, VersionsOK, PausesOK
  <2> QED
    BY <2>1, <2>2, <2>3, <2>4, <2>5, ProcFrameTypes, PartsKept, TypedParts
<1>4. CASE ProcMarkPaused
  <2>1. LoopOK' /\ ProcOK'
    BY <1>1, <1>4, LockTypes DEF ProcMarkPaused, LoopOK, ProcOK, ProcPlaces
  <2>2. ProcFrame /\ UNCHANGED genVars
    BY <1>4 DEF ProcMarkPaused
  <2>3. VersionsOK' /\ PausesOK'
    BY <1>1, <1>4, <2>2, ProcFrameTypes DEF ProcMarkPaused, VersionsOK, PausesOK
  <2> QED
    BY <2>1, <2>2, <2>3, ProcFrameTypes, PartsKept, TypedParts DEF genVars
<1>5. CASE ProcDrain
  <2>1. LoopOK' /\ ProcOK'
    BY <1>1, <1>5, LockTypes DEF ProcDrain, KeepLock, LoopOK, ProcOK, ProcPlaces
  <2> QED
    BY <1>5, <2>1, ProcMoves DEF ProcDrain
<1>6. CASE ProcDrainLocked
  <2>1. LoopOK' /\ ProcOK'
    BY <1>1, <1>6, LockTypes DEF ProcDrainLocked, KeepLock, LoopOK, ProcOK, ProcPlaces
  <2> QED
    BY <1>6, <2>1, ProcMoves DEF ProcDrainLocked
<1>7. CASE ProcDrainWait
  <2>1. LoopOK' /\ ProcOK'
    BY <1>1, <1>7, LockTypes DEF ProcDrainWait, LoopOK, ProcOK, ProcPlaces
  <2>2. ProcFrame /\ UNCHANGED <<cancel_queue, pending_queue, flagVars>>
    BY <1>7 DEF ProcDrainWait
  <2>3. DoneOK'
    BY <1>7, <2>2, ProcFrameTypes DEF ProcDrainWait, DoneOK
  <2> QED
    BY <2>1, <2>2, <2>3, ProcFrameTypes, PartsKept, TypedParts
<1>8. CASE ProcIdle
  <2>1. LoopOK' /\ ProcOK'
    BY <1>1, <1>8, LockTypes DEF ProcIdle, LoopOK, ProcOK, ProcPlaces
  <2> QED
    BY <1>8, <2>1, ProcMoves DEF ProcIdle
<1>9. CASE ProcWoken
  <2>1. LoopOK' /\ ProcOK'
    BY <1>1, <1>9, LockTypes DEF ProcWoken, LoopOK, ProcOK, ProcPlaces
  <2> QED
    BY <1>9, <2>1, ProcMoves DEF ProcWoken
<1>10. CASE ProcSubmit
  <2>1. LoopOK' /\ ProcOK'
    BY <1>1, <1>10, LockTypes DEF ProcSubmit, LoopOK, ProcOK, ProcPlaces
  <2>2. TaskOK'
    BY <1>10, TypedParts DEF ProcSubmit, TaskOK
  <2>3. /\ UNCHANGED <<partial, feedVars, failures, callVars, trainVars, genVars, flagVars,
                       monitor, main, mqVars>>
    BY <1>10 DEF ProcSubmit
  <2>4. DoneOK' /\ VersionsOK' /\ PausesOK' /\ WhereOK'
    BY <2>3, TypedParts DEF callVars, trainVars, genVars, doneVars, flagVars, DoneOK, VersionsOK,
       PausesOK, WhereOK
  <2> QED
    BY <2>1, <2>2, <2>3, <2>4, PartsKept, TypedParts DEF genVars
<1> QED
  BY ProcStep, <1>2, <1>3, <1>4, <1>5, <1>6, <1>7, <1>8, <1>9, <1>10 DEF ProcStep

\* The queue's operations keep its types.
LEMMA PutTypes ==
    ASSUME Typed, NEW x \in Samples \cup {EndSignal}, MQ!PutSample(x)
    PROVE  MQ!TypeOK'
<1>1. Append(IF MQ!Full THEN Tail(queue) ELSE queue, x) \in Seq(Samples \cup {EndSignal})
  <2>1. queue \in Seq(Samples \cup {EndSignal})
    BY DEF Typed, TypeOK, MQ!TypeOK
  <2>2. CASE queue = << >>
    <3>1. ~MQ!Full
      BY <2>2, ConstantTypes, Len(<< >>) = 0 DEF MQ!Full
    <3> QED
      BY <2>1, <3>1
  <2>3. CASE queue # << >>
    BY <2>1, <2>3, HeadTailProperties
  <2> QED
    BY <2>2, <2>3
<1>2. MQ!NotifyAll \in [{"trainer"} -> {"idle", "waiting", "notified"}]
  BY DEF Typed, TypeOK, MQ!TypeOK, MQ!NotifyAll
<1> QED
  BY <1>1, <1>2 DEF Typed, TypeOK, MQ!TypeOK, MQ!PutSample

LEMMA TaskTypes == ASSUME Typed, NEW s \in Samples, TaskStep(s) PROVE Typed'
<1>1. TaskOK /\ DoneOK /\ CancelOK
  BY TypedParts
<1>2. TaskFrame
  BY DEF TaskStep, TaskStart, TaskComplete, TaskPut, TaskCancelled, TaskFails
<1>3. /\ LoopOK' /\ FeedOK' /\ ProcOK' /\ PendingOK' /\ VersionsOK' /\ PausesOK' /\ WhereOK'
      /\ CallOK' /\ TrainOK' /\ counted' \in Nat
  BY <1>2, TypedParts, PartsKept DEF TaskFrame, loopVars, callVars, trainVars, flagVars, VersionsOK,
     PausesOK, WhereOK, DoneOK
<1>4. TaskOK'
  BY <1>1 DEF TaskStep, TaskStart, TaskComplete, TaskPut, TaskCancelled, TaskFails, Finish, TaskOK
<1>5. DoneOK'
  BY <1>1, <1>3 DEF TaskStep, TaskStart, TaskComplete, TaskPut, TaskCancelled, TaskFails, Finish,
     doneVars, DoneOK
<1>6. CancelOK'
  <2>1. Append(cancel_queue, s) \in Seq(Samples)
    BY <1>1 DEF CancelOK
  <2> QED
    BY <1>1, <2>1 DEF TaskStep, TaskStart, TaskComplete, TaskPut, TaskCancelled, TaskFails, CancelOK
<1>7. MQ!TypeOK'
  <2>1. CASE TaskPut(s)
    BY <2>1, PutTypes DEF TaskPut
  <2>2. CASE ~TaskPut(s)
    BY <2>2, QueueUntouched DEF TaskStep, TaskStart, TaskComplete, TaskCancelled, TaskFails
  <2> QED
    BY <2>1, <2>2
<1> QED
  BY <1>3, <1>4, <1>5, <1>6, <1>7, TypedParts

LEMMA MonitorTypes == ASSUME Typed, MonitorStep PROVE Typed'
<1>1. "monitor" \in Coroutines /\ LoopOK /\ ProcOK /\ PausesOK /\ WhereOK
  BY TypedParts DEF Coroutines
<1>2. MonitorFrame /\ paused' \in {paused, FALSE}
  BY DEF MonitorStep, MonitorTop, MonitorCheckRunning, MonitorTick, MonitorRecover
<1>3. LoopOK'
  BY <1>1, LockTypes DEF MonitorStep, MonitorTop, MonitorCheckRunning, MonitorTick, MonitorRecover,
     KeepLock, LoopOK
<1>4. WhereOK'
  BY <1>1, <1>2 DEF MonitorStep, MonitorTop, MonitorCheckRunning, MonitorTick, MonitorRecover,
     MonitorFrame, WhereOK
<1>5. ProcOK'
  <2>1. proc' \in ProcPlaces
    BY <1>1, NotifyTypes DEF ProcOK, MonitorStep, MonitorTop, MonitorCheckRunning, MonitorTick,
       MonitorRecover
  <2> QED
    BY <1>1, <1>2, <2>1 DEF MonitorFrame, ProcOK
<1>6. PausesOK'
  BY <1>1, <1>2 DEF MonitorFrame, PausesOK
<1>7. DoneOK' /\ VersionsOK'
  BY <1>2, TypedParts DEF MonitorFrame, taskVars, callVars, trainVars, genVars, doneVars, DoneOK, VersionsOK
<1> QED
  BY <1>2, <1>3, <1>4, <1>5, <1>6, <1>7, PartsKept, TypedParts DEF MonitorFrame, genVars

LEMMA MainTypes == ASSUME Typed, MainStep PROVE Typed'
<1>1. "main" \in Coroutines /\ LoopOK /\ PausesOK /\ WhereOK
  BY TypedParts DEF Coroutines
<1>2. MainFrame
  BY DEF MainStep, MainEndSignal, MainLock, MainStop
<1>3. LoopOK'
  BY <1>1, LockTypes DEF MainStep, MainEndSignal, MainLock, MainStop, loopVars, LoopOK
<1>4. WhereOK'
  BY <1>1, <1>2 DEF MainStep, MainEndSignal, MainLock, MainStop, MainFrame, WhereOK
<1>5. PausesOK'
  BY <1>1, <1>2 DEF MainStep, MainEndSignal, MainLock, MainStop, MainFrame, PausesOK
<1>6. MQ!TypeOK'
  <2>1. CASE MainEndSignal
    BY <2>1, PutTypes DEF MainEndSignal
  <2>2. CASE MainLock \/ MainStop
    BY <2>2, QueueUntouched DEF MainLock, MainStop
  <2> QED
    BY <2>1, <2>2 DEF MainStep
<1>7. DoneOK' /\ VersionsOK'
  BY <1>2, TypedParts DEF MainFrame, taskVars, callVars, trainVars, genVars, doneVars, DoneOK, VersionsOK
<1> QED
  BY <1>2, <1>3, <1>4, <1>5, <1>6, <1>7, PartsKept, TypedParts DEF MainFrame, genVars

LEMMA CallTypes == ASSUME Typed, CallStep PROVE Typed'
<1>1. /\ {"pause", "update", "resume"} \subseteq Coroutines
      /\ LoopOK /\ ProcOK /\ PausesOK /\ DoneOK /\ VersionsOK /\ CallOK /\ CancelOK /\ MQ!TypeOK
  BY TypedParts DEF Coroutines
<1>2. CallFrame
  BY DEF CallStep, PauseCall, PauseLocked, PauseCancelled, PauseGathered, PauseReturns,
     UpdateCall, UpdateCounts, UpdateReturns, ResumeCall, ResumeServers, ResumeReturns
<1>3. FeedOK' /\ TaskOK' /\ PendingOK' /\ CancelOK' /\ WhereOK' /\ TrainOK'
  BY <1>2, TypedParts, PartsKept DEF CallFrame, WhereOK
<1>4. /\ UNCHANGED <<why, held, done_bound, running>> /\ {failures', train_version'} \subseteq Nat
  BY <1>1, <1>2 DEF CallFrame, taskVars, trainVars, DoneOK, VersionsOK
<1>5. CASE PauseCall \/ PauseLocked \/ PauseCancelled \/ PauseGathered \/ PauseReturns
  <2>1. LoopOK'
    BY <1>1, <1>5, LockTypes DEF PauseCall, PauseLocked, PauseCancelled, PauseGathered,
       PauseReturns, KeepLock, LoopOK
  <2>2. CallOK' /\ DoneOK'
    BY <1>1, <1>4, <1>5 DEF PauseCall, PauseLocked, PauseCancelled, PauseGathered, PauseReturns,
       doneVars, CallOK, CallPlaces, DoneOK
  <2>3. PausesOK' /\ ProcOK' /\ VersionsOK'
    BY <1>1, <1>4, <1>5 DEF PauseCall, PauseLocked, PauseCancelled, PauseGathered, PauseReturns,
       PausesOK, ProcOK, VersionsOK
  <2>4. MQ!TypeOK'
    BY <1>5, QueueUntouched DEF PauseCall, PauseLocked, PauseCancelled, PauseGathered, PauseReturns
  <2> QED
    BY <1>3, <2>1, <2>2, <2>3, <2>4, TypedParts
<1>6. CASE UpdateCall \/ ResumeCall \/ ResumeServers \/ ResumeReturns
  <2>1. LoopOK'
    BY <1>1, <1>6, LockTypes DEF UpdateCall, ResumeCall, ResumeServers, ResumeReturns, KeepLock,
       LoopOK
  <2>2. CallOK' /\ DoneOK'
    BY <1>1, <1>4, <1>6 DEF UpdateCall, ResumeCall, ResumeServers, ResumeReturns, doneVars, CallOK,
       CallPlaces, DoneOK
  <2>3. PausesOK' /\ VersionsOK'
    BY <1>1, <1>4, <1>6 DEF UpdateCall, ResumeCall, ResumeServers, ResumeReturns, PausesOK, VersionsOK
  <2>4. ProcOK'
    BY <1>1, <1>4, <1>6, NotifyTypes DEF UpdateCall, ResumeCall, ResumeServers, ResumeReturns, ProcOK
  <2>5. MQ!TypeOK'
    BY <1>6, QueueUntouched DEF UpdateCall, ResumeCall, ResumeServers, ResumeReturns
  <2> QED
    BY <1>3, <2>1, <2>2, <2>3, <2>4, <2>5, TypedParts
<1>7. CASE UpdateCounts
  <2>1. LoopOK' /\ ProcOK' /\ CallOK' /\ PausesOK'
    BY <1>1, <1>4, <1>7, LockTypes DEF UpdateCounts, KeepLock, LoopOK, ProcOK, CallOK, CallPlaces,
       PausesOK
  <2>2. CountOutstanding \in Nat
    <3>1. Unfinished \in SUBSET (1 .. TotalRolloutSteps)
      BY DEF Unfinished, Samples
    <3>2. IsFiniteSet(Unfinished)
      <4>1. IsFiniteSet(1 .. TotalRolloutSteps)
        BY ConstantTypes, FS_Interval
      <4> QED
        BY <3>1, <4>1, FS_Subset
    <3>3. Cardinality(Unfinished) \in Nat
      BY <3>2, FS_CardinalityType
    <3>4. Len(cancel_queue) \in Nat /\ finished \in Nat
      BY <1>1 DEF CancelOK, DoneOK
    <3> QED
      BY <3>3, <3>4 DEF CountOutstanding, ActiveTasks
  <2>3. mq_version \in Nat
    BY <1>1 DEF MQ!TypeOK
  <2>4. DoneOK' /\ VersionsOK'
    BY <1>1, <1>4, <1>7, <2>2, <2>3 DEF UpdateCounts, doneVars, DoneOK, VersionsOK
  <2>5. MQ!TypeOK'
    BY <1>7, QueueUntouched DEF UpdateCounts
  <2> QED
    BY <1>3, <2>1, <2>4, <2>5, TypedParts
<1>8. CASE UpdateReturns
  <2>1. LoopOK' /\ ProcOK' /\ CallOK' /\ PausesOK'
    BY <1>1, <1>4, <1>8, LockTypes DEF UpdateReturns, LoopOK, ProcOK, CallOK, CallPlaces, PausesOK
  <2>2. counted + Len(queue) \in Nat
    BY <1>1 DEF MQ!TypeOK, DoneOK
  <2>3. DoneOK' /\ VersionsOK'
    BY <1>1, <1>4, <1>8, <2>2 DEF UpdateReturns, doneVars, DoneOK, VersionsOK
  <2>4. MQ!TypeOK'
    <3>1. version \in Nat /\ MQ!PutValidate(version)
      BY <1>1, <1>8 DEF UpdateReturns, VersionsOK
    <3> QED
      BY <1>1, <3>1 DEF MQ!TypeOK, MQ!PutValidate, MQ!counters
  <2> QED
    BY <1>3, <2>1, <2>3, <2>4, TypedParts
<1> QED
  BY <1>5, <1>6, <1>7, <1>8 DEF CallStep

LEMMA TrainerTypes == ASSUME Typed, TrainerNext PROVE Typed'
<1>1. TrainOK /\ CallOK /\ DoneOK /\ VersionsOK /\ MQ!TypeOK
  BY TypedParts
<1>2. TrainFrame /\ counted' = counted
  BY DEF TrainerNext, TrainerGet, TrainerStep, SyncCallPause, SyncPaused, SyncSendResume,
     TrainerLog, TrainerFinish, callVars
<1>3. CallOK'
  BY <1>1 DEF TrainerNext, TrainerGet, TrainerStep, SyncCallPause, SyncPaused, SyncSendResume,
     TrainerLog, TrainerFinish, callVars, CallOK, CallPlaces
<1>4. train_version' \in Nat /\ local_trigger_step' \in 1 .. TriggerSteps
  BY <1>1, ConstantTypes DEF TrainerNext, TrainerGet, TrainerStep, SyncCallPause, SyncPaused,
     SyncSendResume, TrainerLog, TrainerFinish, TrainOK, VersionsOK
<1>5. TrainOK'
  <2>1. CASE TrainerGet
    <3>1. queue \in Seq(Samples \cup {EndSignal}) /\ collected \in Seq(Samples)
      BY <1>1 DEF MQ!TypeOK, TrainOK
    <3>2. queue' # queue => queue # << >>
      BY <2>1 DEF TrainerGet, MQ!GetSample, MQ!WaitForSample, MQ!TakeSample, MQ!ReturnNone
    <3>3. queue # << >> /\ Head(queue) # EndSignal => Append(collected, Head(queue)) \in Seq(Samples)
      BY <3>1, HeadTailProperties
    <3>4. collected' \in Seq(Samples)
      BY <2>1, <3>1, <3>2, <3>3 DEF TrainerGet
    <3>5. trainer' \in {trainer, "final_wait", "train", "collect"} /\ trained' = trained
      BY <2>1 DEF TrainerGet
    <3> QED
      BY <1>1, <1>4, <3>4, <3>5 DEF TrainOK
  <2>2. CASE TrainerStep
    <3>1. SeqElements(collected) \subseteq Samples
      BY <1>1 DEF SeqElements, TrainOK
    <3>2. trainer' \in {"log", "wait_valid"} /\ collected' = << >>
          /\ trained' = trained \cup SeqElements(collected)
      BY <2>2 DEF TrainerStep
    <3> QED
      BY <1>1, <1>4, <3>1, <3>2 DEF TrainOK
  <2>3. CASE ~TrainerGet /\ ~TrainerStep
    <3>1. UNCHANGED <<collected, trained>>
      BY <2>3 DEF TrainerNext, SyncCallPause, SyncPaused, SyncSendResume, TrainerLog, TrainerFinish
    <3>2. trainer' \in {"pausing", "syncing", "log", "collect", "error", "done"}
      BY <2>3 DEF TrainerNext, SyncCallPause, SyncPaused, SyncSendResume, TrainerLog, TrainerFinish
    <3> QED
      BY <1>1, <1>4, <3>1, <3>2 DEF TrainOK
  <2> QED
    BY <2>1, <2>2, <2>3
<1>6. MQ!TypeOK'
  <2>1. CASE TrainerGet
    <3> USE <1>1 DEF MQ!TypeOK, MQ!counters
    <3>1. CASE MQ!WaitForSample("trainer")
      BY <3>1 DEF MQ!WaitForSample
    <3>2. CASE MQ!TakeSample("trainer")
      <4>1. Head(queue) \in Samples \cup {EndSignal} /\ Tail(queue) \in Seq(Samples \cup {EndSignal})
        BY <3>2, HeadTailProperties DEF MQ!TakeSample
      <4> QED
        BY <3>2, <4>1 DEF MQ!TakeSample
    <3>3. CASE MQ!ReturnNone("trainer")
      BY <3>3 DEF MQ!ReturnNone
    <3> QED
      BY <2>1, <3>1, <3>2, <3>3 DEF TrainerGet, MQ!GetSample
  <2>2. CASE SyncPaused
    BY <1>1, <2>2 DEF SyncPaused, MQ!UpdateParamVersion, MQ!TypeOK, MQ!counters, VersionsOK
  <2>3. CASE TrainerLog \/ TrainerFinish
    <3>1. MQ!GetValidate
      BY <2>3 DEF TrainerLog, TrainerFinish
    <3>2. val_queue \in Seq(Nat) /\ (val_queue # << >> => Tail(val_queue) \in Seq(Nat))
      BY <1>1, HeadTailProperties DEF MQ!TypeOK
    <3> QED
      BY <1>1, <3>1, <3>2 DEF MQ!GetValidate, MQ!TypeOK, MQ!counters
  <2>4. CASE TrainerStep \/ SyncCallPause \/ SyncSendResume
    BY <2>4, QueueUntouched DEF TrainerStep, SyncCallPause, SyncSendResume
  <2> QED
    BY <2>1, <2>2, <2>3, <2>4 DEF TrainerNext
<1>7. DoneOK' /\ VersionsOK' /\ PausesOK' /\ WhereOK'
  BY <1>2, <1>4, TypedParts DEF TrainFrame, taskVars, genVars, doneVars, flagVars, DoneOK,
     VersionsOK, PausesOK, WhereOK
<1> QED
  BY <1>2, <1>3, <1>5, <1>6, <1>7, PartsKept, TypedParts DEF TrainFrame, genVars

LEMMA TypedStep == ASSUME Typed, [Next]_vars PROVE Typed'
<1>1. CASE UNCHANGED vars
  BY <1>1, QueueUntouched DEF Typed, TypeOK, FeedInv, vars, loopVars, feedVars, procVars, taskVars,
     callVars, trainVars, doneVars, genVars, flagVars, mqVars
<1>2. CASE Next
  BY <1>1, <1>2, FeederTypes, ProcessorTypes, MonitorTypes, MainTypes, CallTypes,
     TrainerTypes, TaskTypes DEF Next, Terminated
<1> QED
  BY <1>1, <1>2

\* Type correctness of the rollouter, the trainer, the queue between them, the event
\* loop and its lock: counters stay natural numbers, the feeder inside its range,
\* and every sample in a queue is one that was fed or an end marker.
THEOREM AsyncTypes == Spec => []TypeOK
<1>1. Spec => []Typed
  BY InitialTypes, TypedStep, PTL DEF Spec
<1> QED
  BY <1>1, PTL DEF Typed
-----------------------------------------------------------------------------
(* The composition uses the queue as MessageQueue says.                    *)

\* What rollouter and trainer do to the queue are steps of MessageQueue, so all that
\* is proved about the queue alone (its statistics add up, no caller sleeps
\* on a queued sample) holds of it inside the trainer.
THEOREM AsyncUsesQueue == Spec => MQ!Spec
<1>1. Init => MQ!Init
  BY DEF Init
<1>2. ASSUME Typed, [Next]_vars PROVE [MQ!Next]_(MQ!mqVars)
  <2>1. ASSUME UNCHANGED mqVars PROVE UNCHANGED MQ!mqVars
    BY <2>1 DEF mqVars, MQ!mqVars, MQ!counters
  <2>2. ASSUME NEW x \in Samples \cup {EndSignal}, MQ!PutSample(x) PROVE MQ!Next
    BY <2>2 DEF MQ!Next
  <2>3. CASE FeedStep \/ ProcStep \/ MonitorStep
    BY <2>1, <2>3 DEF FeedStep, FeedSample, FeedDone, FeedBlocks, ProcStep, ProcFrame, ProcLoop,
       ProcGet, ProcMarkPaused, ProcDrain, ProcDrainLocked, ProcDrainWait, ProcIdle, ProcWoken,
       ProcSubmit, MonitorStep, MonitorFrame, MonitorTop, MonitorCheckRunning, MonitorTick,
       MonitorRecover
  <2>4. CASE MainStep
    <3>1. UNCHANGED mqVars \/ MQ!PutSample(EndSignal)
      BY <2>4 DEF MainStep, MainEndSignal, MainLock, MainStop
    <3> QED
      BY <2>1, <2>2, <3>1
  <2>5. ASSUME NEW s \in Samples, TaskStep(s) PROVE [MQ!Next]_(MQ!mqVars)
    <3>1. UNCHANGED mqVars \/ MQ!PutSample(s)
      BY <2>5, Zenon DEF TaskStep, TaskStart, TaskComplete, TaskPut, TaskCancelled, TaskFails
    <3> QED
      BY <2>1, <2>2, <3>1
  <2>6. CASE CallStep
    <3>1. UNCHANGED mqVars \/ MQ!PutValidate(version)
      BY <2>6 DEF CallStep, PauseCall, PauseLocked, PauseCancelled, PauseGathered,
         PauseReturns, UpdateCall, UpdateCounts, UpdateReturns, ResumeCall, ResumeServers,
         ResumeReturns
    <3>2. version \in Nat
      BY <1>2 DEF Typed, TypeOK
    <3> QED
      BY <2>1, <3>1, <3>2 DEF MQ!Next
  <2>7. CASE TrainerNext
    <3>1. \/ UNCHANGED mqVars \/ MQ!GetSample("trainer") \/ MQ!UpdateParamVersion(train_version)
          \/ MQ!GetValidate
      BY <2>7 DEF TrainerNext, TrainerGet, TrainerStep, SyncCallPause, SyncPaused, SyncSendResume,
         TrainerLog, TrainerFinish
    <3>2. train_version \in Nat
      BY <1>2 DEF Typed, TypeOK
    <3> QED
      BY <2>1, <3>1, <3>2 DEF MQ!Next
  <2>8. CASE UNCHANGED vars \/ Terminated
    BY <2>1, <2>8 DEF vars, Terminated, mqVars
  <2> QED
    BY <1>2, <2>3, <2>4, <2>5, <2>6, <2>7, <2>8 DEF Next
<1>3. Spec => []Typed
  BY InitialTypes, TypedStep, PTL DEF Spec
<1> QED
  BY <1>1, <1>2, <1>3, PTL DEF Spec, MQ!Spec
-----------------------------------------------------------------------------
(* pause() waits for what it stops.                                        *)

\* From the moment pause() has set self.paused until it returns it owns self.lock.
PauseOwnsLock ==
    pause \in {"cancelling", "gathering", "clearing_cache"} => lock = "pause"

QuietInv == PauseOwnsLock /\ PauseQuiesces

\* A coroutine takes the lock only when nobody has it.
LEMMA LockStaysOwned ==
    ASSUME lock = "pause", NEW c, Acquire(c)
    PROVE  lock' = "pause"
  BY DEF Acquire, Nobody

\* A step that leaves pause(), the sample tasks and the lock it owns alone.
LEMMA QuietFrame ==
    ASSUME QuietInv, UNCHANGED <<pause, task, finished>>, lock = "pause" => lock' = "pause"
    PROVE  QuietInv'
  BY DEF QuietInv, PauseOwnsLock, PauseQuiesces, Unfinished

LEMMA QuietProcessor == ASSUME Typed, QuietInv, ProcStep PROVE QuietInv'
<1> USE DEF ProcFrame, taskVars, callVars, doneVars, genVars
<1>1. CASE ProcLoop
  <2>1. /\ UNCHANGED <<pause, task, finished>>
        /\ Acquire("proc") \/ UNCHANGED <<lock, waitq>>
    BY <1>1 DEF ProcLoop, KeepLock
  <2> QED
    BY <2>1, QuietFrame, LockStaysOwned
<1>2. CASE ProcGet
  BY <1>2, QuietFrame DEF ProcGet, KeepLock
<1>3. CASE ProcDrain
  <2>1. /\ UNCHANGED <<pause, task, finished>>
        /\ Acquire("proc") \/ UNCHANGED <<lock, waitq>>
    BY <1>3 DEF ProcDrain, KeepLock
  <2> QED
    BY <2>1, QuietFrame, LockStaysOwned
<1>4. CASE ProcWoken
  <2>1. UNCHANGED <<pause, task, finished>> /\ Acquire("proc")
    BY <1>4 DEF ProcWoken
  <2> QED
    BY <2>1, QuietFrame, LockStaysOwned
<1>5. ASSUME lock = "proc", pause' = pause PROVE QuietInv'
  BY <1>5 DEF QuietInv, PauseOwnsLock, PauseQuiesces
<1>6. CASE ProcMarkPaused \/ ProcDrainLocked \/ ProcDrainWait \/ ProcIdle \/ ProcSubmit
  <2>1. lock = "proc" /\ pause' = pause
    BY <1>6 DEF ProcMarkPaused, ProcDrainLocked, ProcDrainWait, ProcIdle, ProcSubmit, Holds
  <2> QED
    BY <1>5, <2>1
<1> QED
  BY <1>1, <1>2, <1>3, <1>4, <1>6 DEF ProcStep

\* A sample's task makes a step only while it is unfinished, so not while the KV
\* cache is cleared.
LEMMA QuietTasks == ASSUME QuietInv, NEW s \in Samples, TaskStep(s) PROVE QuietInv'
<1>1. UNCHANGED <<pause, lock>> /\ s \in Unfinished
  BY DEF TaskStep, TaskStart, TaskComplete, TaskPut, TaskCancelled, TaskFails, TaskFrame,
     callVars, Unfinished
<1> QED
  BY <1>1 DEF QuietInv, PauseOwnsLock, PauseQuiesces

LEMMA QuietMonitor == ASSUME QuietInv, MonitorStep PROVE QuietInv'
<1> USE DEF MonitorFrame, taskVars, callVars, doneVars, genVars
<1>1. CASE MonitorTop
  <2>1. UNCHANGED <<pause, task, finished>> /\ Acquire("monitor")
    BY <1>1 DEF MonitorTop
  <2> QED
    BY <2>1, QuietFrame, LockStaysOwned
<1>2. CASE MonitorTick
  <2>1. /\ UNCHANGED <<pause, task, finished>>
        /\ Acquire("monitor") \/ UNCHANGED <<lock, waitq>>
    BY <1>2 DEF MonitorTick, KeepLock
  <2> QED
    BY <2>1, QuietFrame, LockStaysOwned
<1>3. CASE MonitorCheckRunning \/ MonitorRecover
  <2>1. lock = "monitor" /\ UNCHANGED <<pause, task, finished>>
    BY <1>3 DEF MonitorCheckRunning, MonitorRecover, Holds
  <2> QED
    BY <2>1, QuietFrame
<1> QED
  BY <1>1, <1>2, <1>3 DEF MonitorStep

LEMMA QuietMain == ASSUME QuietInv, MainStep PROVE QuietInv'
<1> USE DEF MainFrame, taskVars, callVars, doneVars, genVars
<1>1. CASE MainEndSignal
  BY <1>1, QuietFrame DEF MainEndSignal, loopVars
<1>2. CASE MainLock
  <2>1. UNCHANGED <<pause, task, finished>> /\ Acquire("main")
    BY <1>2 DEF MainLock
  <2> QED
    BY <2>1, QuietFrame, LockStaysOwned
<1>3. CASE MainStop
  <2>1. lock = "main" /\ UNCHANGED <<pause, task, finished>>
    BY <1>3 DEF MainStop, Holds
  <2> QED
    BY <2>1, QuietFrame
<1> QED
  BY <1>1, <1>2, <1>3 DEF MainStep

LEMMA QuietCalls == ASSUME QuietInv, CallStep PROVE QuietInv'
<1> USE DEF CallFrame, taskVars, doneVars
\* pause() itself
<1>1. CASE PauseCall
  BY <1>1 DEF PauseCall, QuietInv, PauseOwnsLock, PauseQuiesces
<1>2. CASE PauseLocked
  BY <1>2 DEF PauseLocked, Holds, KeepLock, QuietInv, PauseOwnsLock, PauseQuiesces
<1>3. CASE PauseCancelled
  BY <1>3 DEF PauseCancelled, Holds, KeepLock, QuietInv, PauseOwnsLock, PauseQuiesces
<1>4. CASE PauseGathered
  BY <1>4 DEF PauseGathered, Holds, KeepLock, QuietInv, PauseOwnsLock, PauseQuiesces,
     Unfinished
<1>5. CASE PauseReturns
  BY <1>5 DEF PauseReturns, QuietInv, PauseOwnsLock, PauseQuiesces
\* update_param_version and resume
<1>6. CASE UpdateCall
  <2>1. UNCHANGED <<pause, task, finished>> /\ Acquire("update")
    BY <1>6 DEF UpdateCall
  <2> QED
    BY <2>1, QuietFrame, LockStaysOwned
<1>7. CASE ResumeCall
  <2>1. UNCHANGED <<pause, task, finished>> /\ Acquire("resume")
    BY <1>7 DEF ResumeCall
  <2> QED
    BY <2>1, QuietFrame, LockStaysOwned
<1>8. CASE UpdateCounts \/ UpdateReturns \/ ResumeServers \/ ResumeReturns
  <2>1. lock \in {"update", "resume"} /\ UNCHANGED <<pause, task, finished>>
    BY <1>8 DEF UpdateCounts, UpdateReturns, ResumeServers, ResumeReturns, Holds
  <2> QED
    BY <2>1, QuietFrame
<1> QED
  BY <1>1, <1>2, <1>3, <1>4, <1>5, <1>6, <1>7, <1>8 DEF CallStep

LEMMA QuietTrainer == ASSUME QuietInv, TrainerNext PROVE QuietInv'
<1>1. UNCHANGED <<task, finished, lock>>
  BY DEF TrainerNext, TrainerGet, TrainerStep, SyncCallPause, SyncPaused, SyncSendResume,
     TrainerLog, TrainerFinish, TrainFrame, taskVars, genVars, doneVars, loopVars
<1>2. pause' \in {pause, "called", "none"}
  BY DEF TrainerNext, TrainerGet, TrainerStep, SyncCallPause, SyncPaused, SyncSendResume,
     TrainerLog, TrainerFinish, callVars
<1> QED
  BY <1>1, <1>2 DEF QuietInv, PauseOwnsLock, PauseQuiesces, Unfinished

\* While pause() clears the KV cache nothing generates and nothing can start to,
\* whatever the processor, the monitor, the other remote calls and the sample tasks
\* do meanwhile, and with as many samples and servers as one likes.
THEOREM AsyncPauseQuiesces == Spec => []PauseQuiesces
<1>1. Init => QuietInv
  BY DEF Init, QuietInv, PauseOwnsLock, PauseQuiesces
<1>2. ASSUME Typed, QuietInv, [Next]_vars PROVE QuietInv'
  <2>1. CASE FeedStep \/ Terminated \/ UNCHANGED vars
    BY <1>2, <2>1, QuietFrame DEF FeedStep, FeedSample, FeedDone, FeedBlocks, KeepLock, Terminated,
       vars, loopVars, taskVars, callVars, doneVars, genVars
  <2> QED
    BY <1>2, <2>1, QuietProcessor, QuietTasks, QuietMonitor, QuietMain, QuietCalls, QuietTrainer
       DEF Next
<1>3. Spec => []Typed
  BY InitialTypes, TypedStep, PTL DEF Spec
<1> QED
  BY <1>1, <1>2, <1>3, PTL DEF Spec, QuietInv

-----------------------------------------------------------------------------
(* Where every sample is, how many are outstanding, and why the processor  *)
(* survives its first wait.                                                *)

\* The samples in each place of the pipeline.
Pending   == SeqElements(pending_queue) \cap Samples
Held      == {held} \cap Samples
Cancelled == SeqElements(cancel_queue)
Queued    == SeqElements(queue) \cap Samples
Batch     == SeqElements(collected)

\* No sample is in two of seven places.
Apart(p, h, u, c, q, b, t) ==
    \A s \in Samples :
        /\ s \in p => s \notin h \cup u \cup c \cup q \cup b \cup t
        /\ s \in h => s \notin u \cup c \cup q \cup b \cup t
        /\ s \in u => s \notin c \cup q \cup b \cup t
        /\ s \in c => s \notin q \cup b \cup t
        /\ s \in q => s \notin b \cup t
        /\ s \in b => s \notin t

\* No sample is twice in a queue.
Once(q) == \A i, j \in 1 .. Len(q) : q[i] \in Samples /\ q[i] = q[j] => i = j

OnePlace ==
    /\ Apart(Pending, Held, Unfinished, Cancelled, Queued, Batch, trained)
    /\ Once(pending_queue) /\ Once(cancel_queue) /\ Once(queue) /\ Once(collected)

\* The processor takes a sample only when it holds none: it keeps the one it took
\* until it submits it (or dies).
HeldKept ==
    held \in Samples =>
        /\ why = "limit"
        /\ proc \in {"drain", "drain_locked", "drain_wait", "submit", "submit_wait",
                     "submit_woken", "dead"}

\* Only what was fed is in the pipeline, and what is not is accounted for.
OnlyFed == InPipeline \subseteq 1 .. fed
LostCounted == Cardinality((1 .. fed) \ InPipeline) <= failures + dropped_samples

\* What is ahead of the trainer.
InFlight == Unfinished \cup Cancelled \cup Queued \cup Held

InPlaces == OnePlace /\ OnlyFed /\ LostCounted
Accounted == InPlaces /\ HeldKept

-----------------------------------------------------------------------------
(* Sequences and sets.                                                     *)

\* The elements of a queue after a put.
LEMMA AppendElements ==
    ASSUME NEW S, NEW q \in Seq(S), NEW x \in S
    PROVE  SeqElements(Append(q, x)) = SeqElements(q) \cup {x}
<1>1. /\ Len(Append(q, x)) = Len(q) + 1 /\ Len(q) \in Nat
      /\ \A i \in 1 .. Len(q) : Append(q, x)[i] = q[i]
      /\ Append(q, x)[Len(q) + 1] = x
  BY AppendProperties, LenProperties
<1>2. ASSUME NEW y \in SeqElements(Append(q, x)) PROVE y \in SeqElements(q) \cup {x}
  <2>1. PICK i \in 1 .. Len(q) + 1 : y = Append(q, x)[i]
    BY <1>1, <1>2 DEF SeqElements
  <2>2. CASE i = Len(q) + 1
    BY <1>1, <2>1, <2>2
  <2>3. CASE i \in 1 .. Len(q)
    BY <1>1, <2>1, <2>3 DEF SeqElements
  <2> QED
    BY <1>1, <2>2, <2>3
<1>3. ASSUME NEW y \in SeqElements(q) PROVE y \in SeqElements(Append(q, x))
  <2>1. PICK i \in 1 .. Len(q) : y = q[i]
    BY <1>3 DEF SeqElements
  <2> QED
    BY <1>1, <2>1 DEF SeqElements
<1>4. x \in SeqElements(Append(q, x))
  BY <1>1 DEF SeqElements
<1> QED
  BY <1>2, <1>3, <1>4

\* A put of something that is not a sample of the queue leaves no sample twice in it.
LEMMA AppendOnce ==
    ASSUME NEW S, NEW q \in Seq(S), NEW x \in S, Once(q),
           x \in Samples => x \notin SeqElements(q)
    PROVE  Once(Append(q, x))
<1>1. /\ Len(Append(q, x)) = Len(q) + 1 /\ Len(q) \in Nat
      /\ \A i \in 1 .. Len(q) : Append(q, x)[i] = q[i]
      /\ Append(q, x)[Len(q) + 1] = x
  BY AppendProperties, LenProperties
<1> SUFFICES ASSUME NEW i \in 1 .. Len(q) + 1, NEW j \in 1 .. Len(q) + 1,
                    Append(q, x)[i] \in Samples, Append(q, x)[i] = Append(q, x)[j], i # j
             PROVE  FALSE
  BY <1>1 DEF Once
<1>2. CASE i \in 1 .. Len(q) /\ j \in 1 .. Len(q)
  BY <1>1, <1>2 DEF Once
<1>3. CASE i = Len(q) + 1
  <2>1. j \in 1 .. Len(q)
    BY <1>1, <1>3
  <2> QED
    BY <1>1, <1>3, <2>1 DEF SeqElements
<1>4. CASE j = Len(q) + 1
  <2>1. i \in 1 .. Len(q)
    BY <1>1, <1>4
  <2> QED
    BY <1>1, <1>4, <2>1 DEF SeqElements
<1> QED
  BY <1>1, <1>2, <1>3, <1>4

\* Taking the head of a queue: its head is an element that the tail does not hold.
LEMMA TailElements ==
    ASSUME NEW S, NEW q \in Seq(S), q # << >>, Once(q)
    PROVE  /\ SeqElements(q) = {Head(q)} \cup SeqElements(Tail(q))
           /\ Head(q) \in Samples => Head(q) \notin SeqElements(Tail(q))
           /\ Once(Tail(q))
<1>1. /\ Len(Tail(q)) = Len(q) - 1 /\ Len(q) \in Nat /\ Len(q) > 0
      /\ \A i \in 1 .. Len(q) - 1 : Tail(q)[i] = q[i + 1]
      /\ Head(q) = q[1]
  BY HeadTailProperties, LenProperties, EmptySeq
<1>2. ASSUME NEW y \in SeqElements(q) PROVE y \in {Head(q)} \cup SeqElements(Tail(q))
  <2>1. PICK i \in 1 .. Len(q) : y = q[i]
    BY <1>2 DEF SeqElements
  <2>2. CASE i = 1
    BY <1>1, <2>1, <2>2
  <2>3. CASE i # 1
    <3>1. i - 1 \in 1 .. Len(q) - 1 /\ (i - 1) + 1 = i
      BY <1>1, <2>3
    <3>2. Tail(q)[i - 1] = y
      BY <1>1, <2>1, <3>1
    <3> QED
      BY <1>1, <3>1, <3>2 DEF SeqElements
  <2> QED
    BY <2>2, <2>3
<1>3. ASSUME NEW y \in SeqElements(Tail(q))
      PROVE  \E i \in 2 .. Len(q) : y = q[i]
  <2>1. PICK i \in 1 .. Len(q) - 1 : y = Tail(q)[i]
    BY <1>1, <1>3 DEF SeqElements
  <2>2. y = q[i + 1] /\ i + 1 \in 2 .. Len(q)
    BY <1>1, <2>1
  <2> QED
    BY <2>2
<1>4. SeqElements(q) = {Head(q)} \cup SeqElements(Tail(q))
  <2>1. Head(q) \in SeqElements(q)
    BY <1>1 DEF SeqElements
  <2>2. ASSUME NEW y \in SeqElements(Tail(q)) PROVE y \in SeqElements(q)
    <3>1. PICK i \in 2 .. Len(q) : y = q[i]
      BY <1>3
    <3> QED
      BY <1>1, <3>1 DEF SeqElements
  <2> QED
    BY <1>2, <2>1, <2>2
<1>5. ASSUME Head(q) \in Samples, Head(q) \in SeqElements(Tail(q)) PROVE FALSE
  <2>1. PICK i \in 2 .. Len(q) : Head(q) = q[i]
    BY <1>3, <1>5
  <2> QED
    BY <1>1, <1>5, <2>1 DEF Once
<1>6. Once(Tail(q))
  <2> SUFFICES ASSUME NEW i \in 1 .. Len(q) - 1, NEW j \in 1 .. Len(q) - 1,
                      Tail(q)[i] \in Samples, Tail(q)[i] = Tail(q)[j]
               PROVE  i = j
    BY <1>1 DEF Once
  <2>1. /\ i + 1 \in 1 .. Len(q) /\ j + 1 \in 1 .. Len(q)
        /\ q[i + 1] \in Samples /\ q[i + 1] = q[j + 1]
    BY <1>1
  <2>2. i + 1 = j + 1
    BY <2>1 DEF Once
  <2> QED
    BY <2>2
<1> QED
  BY <1>4, <1>5, <1>6

\* Counting the entries of a queue that hold a sample counts its samples.
LEMMA CountOnce ==
    ASSUME NEW S, NEW q \in Seq(S), Once(q)
    PROVE  /\ IsFiniteSet(SeqElements(q) \cap Samples)
           /\ Cardinality(SampleEntries(q)) = Cardinality(SeqElements(q) \cap Samples)
           /\ Cardinality(SampleEntries(q)) <= Len(q)
           /\ SeqElements(q) \subseteq Samples => Cardinality(SampleEntries(q)) = Len(q)
<1>1. /\ Len(q) \in Nat /\ IsFiniteSet(1 .. Len(q)) /\ Cardinality(1 .. Len(q)) = Len(q)
  <2>1. Len(q) \in Nat
    BY LenProperties
  <2>2. \A n \in Nat : IsFiniteSet(1 .. n) /\ Cardinality(1 .. n) = IF 1 > n THEN 0 ELSE n - 1 + 1
    BY FS_Interval
  <2> QED
    BY <2>1, <2>2
<1>2. SampleEntries(q) \in SUBSET (1 .. Len(q))
  BY DEF SampleEntries
<1>3. IsFiniteSet(SampleEntries(q)) /\ Cardinality(SampleEntries(q)) <= Len(q)
  BY <1>1, <1>2, FS_Subset
<1> DEFINE f == [i \in SampleEntries(q) |-> q[i]]
<1>4. f \in Bijection(SampleEntries(q), SeqElements(q) \cap Samples)
  <2>1. f \in [SampleEntries(q) -> SeqElements(q) \cap Samples]
    BY DEF SampleEntries, SeqElements
  <2>2. \A i, j \in SampleEntries(q) : f[i] = f[j] => i = j
    BY DEF SampleEntries, Once
  <2>3. \A y \in SeqElements(q) \cap Samples : \E i \in SampleEntries(q) : f[i] = y
    BY DEF SampleEntries, SeqElements
  <2> HIDE DEF f
  <2> QED
    BY <2>1, <2>2, <2>3, Fun_IsBij
<1>5. ExistsBijection(SampleEntries(q), SeqElements(q) \cap Samples)
  BY <1>4 DEF ExistsBijection
<1>6. /\ IsFiniteSet(SeqElements(q) \cap Samples)
      /\ Cardinality(SeqElements(q) \cap Samples) = Cardinality(SampleEntries(q))
  BY <1>3, <1>5, FS_Bijection
<1>7. ASSUME SeqElements(q) \subseteq Samples PROVE Cardinality(SampleEntries(q)) = Len(q)
  <2>1. SampleEntries(q) = 1 .. Len(q)
    BY <1>7 DEF SampleEntries, SeqElements
  <2> QED
    BY <1>1, <2>1
<1> QED
  BY <1>3, <1>6, <1>7

LEMMA DisjointUnion ==
    ASSUME NEW S, NEW T, IsFiniteSet(S), IsFiniteSet(T), S \cap T = {}
    PROVE  /\ IsFiniteSet(S \cup T)
           /\ Cardinality(S \cup T) = Cardinality(S) + Cardinality(T)
<1>1. IsFiniteSet(S \cup T) /\ Cardinality(S \cup T) = Cardinality(S) + Cardinality(T) - Cardinality({})
  BY FS_Union
<1>2. Cardinality(S) \in Nat /\ Cardinality(T) \in Nat /\ Cardinality({}) = 0
  BY FS_CardinalityType, FS_EmptySet
<1> QED
  BY <1>1, <1>2

\* A set of samples is finite, so its subsets have no more elements.
LEMMA SampleSets ==
    /\ \A S \in SUBSET Samples : IsFiniteSet(S) /\ Cardinality(S) \in Nat
    /\ \A S, T \in SUBSET Samples : S \subseteq T => Cardinality(S) <= Cardinality(T)
    /\ \A S \in SUBSET Samples, s \in Samples :
            Cardinality(S \cup {s}) <= Cardinality(S) + 1
<1>1. IsFiniteSet(Samples)
  BY ConstantTypes, FS_Interval DEF Samples
<1>2. ASSUME NEW S \in SUBSET Samples PROVE IsFiniteSet(S) /\ Cardinality(S) \in Nat
  <2>1. IsFiniteSet(S)
    BY <1>1, FS_Subset
  <2> QED
    BY <2>1, FS_CardinalityType
<1>3. ASSUME NEW S \in SUBSET Samples, NEW T \in SUBSET Samples, S \subseteq T
      PROVE  Cardinality(S) <= Cardinality(T)
  <2>1. IsFiniteSet(T) /\ S \in SUBSET T
    BY <1>2, <1>3
  <2> QED
    BY <2>1, FS_Subset
<1>4. ASSUME NEW S \in SUBSET Samples, NEW s \in Samples
      PROVE  Cardinality(S \cup {s}) <= Cardinality(S) + 1
  <2>1. IsFiniteSet(S) /\ Cardinality(S) \in Nat
    BY <1>2
  <2>2. Cardinality(S \cup {s}) = IF s \in S THEN Cardinality(S) ELSE Cardinality(S) + 1
    BY <2>1, FS_AddElement
  <2> QED
    BY <2>1, <2>2
<1> QED
  BY <1>2, <1>3, <1>4

\* What the types say of the places.
PlaceShape ==
    /\ pending_queue \in Seq(Samples \cup {DONE}) /\ cancel_queue \in Seq(Samples)
    /\ queue \in Seq(Samples \cup {EndSignal}) /\ collected \in Seq(Samples)
    /\ task \in [Samples -> {"none", "new", "generating", "refused", "putting"}]
    /\ held \in Samples \cup {DONE, -1}
    /\ {Pending, Held, Unfinished, Cancelled, Queued, Batch, trained} \subseteq SUBSET Samples
    /\ InPipeline = Pending \cup Held \cup Unfinished \cup Cancelled \cup Queued
                        \cup Batch \cup trained
    /\ fed \in Nat /\ {failures, dropped_samples} \subseteq Nat

LEMMA PlaceTypes == Typed => PlaceShape
<1> SUFFICES ASSUME Typed PROVE PlaceShape
  OBVIOUS
<1>1. /\ pending_queue \in Seq(Samples \cup {DONE}) /\ cancel_queue \in Seq(Samples)
      /\ queue \in Seq(Samples \cup {EndSignal}) /\ collected \in Seq(Samples)
      /\ task \in [Samples -> {"none", "new", "generating", "refused", "putting"}]
      /\ held \in Samples \cup {DONE, -1} /\ trained \subseteq Samples
  BY TypedParts DEF PendingOK, CancelOK, MQ!TypeOK, TrainOK, TaskOK, ProcOK
<1>2. /\ fed \in Nat /\ {failures, dropped_samples} \subseteq Nat
  BY TypedParts, ConstantTypes DEF FeedOK, DoneOK, MQ!TypeOK
<1>3. Cancelled \subseteq Samples /\ Batch \subseteq Samples /\ Unfinished \subseteq Samples
  BY <1>1 DEF Cancelled, Batch, SeqElements, Unfinished
<1>4. InPipeline = Pending \cup Held \cup Unfinished \cup Cancelled \cup Queued
                      \cup Batch \cup trained
  BY <1>1, <1>3 DEF InPipeline, Pending, Held, Cancelled, Queued, Batch
<1> QED
  BY <1>1, <1>2, <1>3, <1>4 DEF PlaceShape, Pending, Held, Queued

LEMMA PlaceTypesNext == Typed' => PlaceShape'
  BY PlaceTypes, PTL

LEMMA PipelineParts ==
    /\ Typed => InPipeline = Pending \cup Held \cup Unfinished \cup Cancelled \cup Queued
                                \cup Batch \cup trained
    /\ Typed' => InPipeline' = Pending' \cup Held' \cup Unfinished' \cup Cancelled' \cup Queued'
                                 \cup Batch' \cup trained'
  BY PlaceTypes, PlaceTypesNext DEF PlaceShape

\* Counted place by place, the samples ahead of the trainer are its samples in flight.
LEMMA CountInFlight ==
    ASSUME Typed, OnePlace
    PROVE  /\ Outstanding = Cardinality(InFlight)
           /\ Cardinality(Unfinished \cup Cancelled) = Cardinality(Unfinished) + Len(cancel_queue)
           /\ Cardinality(Queued) <= Len(queue)
<1>1. /\ Cardinality(SampleEntries(queue)) = Cardinality(Queued)
      /\ Cardinality(SampleEntries(queue)) <= Len(queue)
  BY PlaceTypes, CountOnce DEF PlaceShape, OnePlace, Queued
<1>2. Len(cancel_queue) = Cardinality(Cancelled)
  <2>1. Cancelled \subseteq Samples /\ Cancelled \cap Samples = Cancelled
    BY PlaceTypes DEF PlaceShape
  <2> QED
    BY <2>1, PlaceTypes, CountOnce DEF PlaceShape, OnePlace, Cancelled
<1>3. Cardinality(Held) = IF held \in Samples THEN 1 ELSE 0
  <2>1. CASE held \in Samples
    <3>1. Held = {held}
      BY <2>1 DEF Held
    <3> QED
      BY <2>1, <3>1, FS_Singleton
  <2>2. CASE held \notin Samples
    <3>1. Held = {}
      BY <2>2 DEF Held
    <3> QED
      BY <2>2, <3>1, FS_EmptySet
  <2> QED
    BY <2>1, <2>2
<1>4. {Held, Unfinished, Cancelled, Queued} \subseteq SUBSET Samples
  BY PlaceTypes DEF PlaceShape
<1>5. /\ Unfinished \cap Cancelled = {} /\ (Unfinished \cup Cancelled) \cap Queued = {}
      /\ (Unfinished \cup Cancelled \cup Queued) \cap Held = {}
  BY <1>4, Zenon DEF OnePlace, Apart
<1>6. \A S \in SUBSET Samples : IsFiniteSet(S) /\ Cardinality(S) \in Nat
  BY SampleSets
<1>7. Cardinality(Unfinished \cup Cancelled) = Cardinality(Unfinished) + Cardinality(Cancelled)
  BY <1>4, <1>5, <1>6, DisjointUnion
<1>8. Cardinality(Unfinished \cup Cancelled \cup Queued)
        = Cardinality(Unfinished) + Cardinality(Cancelled) + Cardinality(Queued)
  <2>1. IsFiniteSet(Unfinished \cup Cancelled) /\ IsFiniteSet(Queued)
    BY <1>4, <1>6
  <2>2. Cardinality((Unfinished \cup Cancelled) \cup Queued)
          = Cardinality(Unfinished \cup Cancelled) + Cardinality(Queued)
    BY <1>5, <2>1, DisjointUnion
  <2> QED
    BY <1>7, <2>2
<1>9. Cardinality(InFlight)
        = Cardinality(Unfinished) + Cardinality(Cancelled) + Cardinality(Queued) + Cardinality(Held)
  <2>1. IsFiniteSet(Unfinished \cup Cancelled \cup Queued) /\ IsFiniteSet(Held)
    BY <1>4, <1>6
  <2>2. Cardinality((Unfinished \cup Cancelled \cup Queued) \cup Held)
          = Cardinality(Unfinished \cup Cancelled \cup Queued) + Cardinality(Held)
    BY <1>5, <2>1, DisjointUnion
  <2> QED
    BY <1>8, <2>2 DEF InFlight
<1>10. {Cardinality(Unfinished), Cardinality(Cancelled), Cardinality(Queued)} \subseteq Nat
  BY <1>4, <1>6
<1> QED
  BY <1>1, <1>2, <1>3, <1>7, <1>9, <1>10 DEF Outstanding

\* The same for the whole pipeline.
LEMMA CountPipeline == ASSUME Typed, OnePlace PROVE PipelineSize = Cardinality(InPipeline)
<1>1. /\ Cardinality(SampleEntries(pending_queue)) = Cardinality(Pending)
      /\ Len(collected) = Cardinality(Batch)
  <2>1. Batch \subseteq Samples /\ Batch \cap Samples = Batch
    BY PlaceTypes DEF PlaceShape
  <2>2. Len(collected) = Cardinality(Batch)
    BY <2>1, PlaceTypes, CountOnce DEF PlaceShape, OnePlace, Batch
  <2> QED
    BY <2>2, PlaceTypes, CountOnce DEF PlaceShape, OnePlace, Pending
<1>2. PipelineSize = Outstanding + Cardinality(Pending) + Cardinality(Batch) + Cardinality(trained)
  <2>1. {Cardinality(Unfinished), Len(cancel_queue), Cardinality(SampleEntries(queue)),
         Cardinality(Pending), Cardinality(Batch), Cardinality(trained)} \subseteq Nat
    <3>1. /\ SampleEntries(queue) \in SUBSET (1 .. Len(queue)) /\ IsFiniteSet(1 .. Len(queue))
      BY PlaceTypes, LenProperties, FS_Interval DEF PlaceShape, SampleEntries
    <3>2. Cardinality(SampleEntries(queue)) \in Nat
      BY <3>1, FS_Subset, FS_CardinalityType
    <3> QED
      BY <3>2, PlaceTypes, SampleSets, LenProperties DEF PlaceShape
  <2> QED
    BY <1>1, <2>1 DEF PipelineSize, Outstanding
<1>3. {InFlight, Pending, Batch, trained} \subseteq SUBSET Samples
  BY PlaceTypes DEF PlaceShape, InFlight
<1>4. /\ InFlight \cap Pending = {} /\ (InFlight \cup Pending) \cap Batch = {}
      /\ (InFlight \cup Pending \cup Batch) \cap trained = {}
  BY <1>3, Zenon DEF OnePlace, Apart, InFlight
<1>5. \A S \in SUBSET Samples : IsFiniteSet(S) /\ Cardinality(S) \in Nat
  BY SampleSets
<1>6. Cardinality(InFlight \cup Pending) = Cardinality(InFlight) + Cardinality(Pending)
  BY <1>3, <1>4, <1>5, DisjointUnion
<1>7. Cardinality(InFlight \cup Pending \cup Batch)
        = Cardinality(InFlight) + Cardinality(Pending) + Cardinality(Batch)
  <2>1. IsFiniteSet(InFlight \cup Pending) /\ IsFiniteSet(Batch)
    BY <1>3, <1>5
  <2>2. Cardinality((InFlight \cup Pending) \cup Batch)
          = Cardinality(InFlight \cup Pending) + Cardinality(Batch)
    BY <1>4, <2>1, DisjointUnion
  <2> QED
    BY <1>6, <2>2
<1>8. Cardinality(InFlight \cup Pending \cup Batch \cup trained)
        = Cardinality(InFlight) + Cardinality(Pending) + Cardinality(Batch) + Cardinality(trained)
  <2>1. IsFiniteSet(InFlight \cup Pending \cup Batch) /\ IsFiniteSet(trained)
    BY <1>3, <1>5
  <2>2. Cardinality((InFlight \cup Pending \cup Batch) \cup trained)
          = Cardinality(InFlight \cup Pending \cup Batch) + Cardinality(trained)
    BY <1>4, <2>1, DisjointUnion
  <2> QED
    BY <1>7, <2>2
<1>9. InPipeline = InFlight \cup Pending \cup Batch \cup trained
  BY PlaceTypes DEF PlaceShape, InFlight
<1> QED
  BY <1>2, <1>8, <1>9, CountInFlight
-----------------------------------------------------------------------------
(* Every sample is in one place.                                           *)

\* What a step leaves alone holds the same samples.
LEMMA PlacesKept ==
    ASSUME OnePlace
    PROVE  /\ UNCHANGED pending_queue => Pending' = Pending /\ Once(pending_queue)'
           /\ UNCHANGED held => Held' = Held
           /\ UNCHANGED task => Unfinished' = Unfinished
           /\ UNCHANGED cancel_queue => Cancelled' = Cancelled /\ Once(cancel_queue)'
           /\ UNCHANGED queue => Queued' = Queued /\ Once(queue)'
           /\ UNCHANGED collected => Batch' = Batch /\ Once(collected)'
  BY DEF OnePlace, Once, Pending, Held, Unfinished, Cancelled, Queued, Batch, SeqElements

placeVars == <<pending_queue, held, task, cancel_queue, queue, collected, trained>>

\* Moving samples about loses none.
LEMMA FlowKept ==
    ASSUME Typed, Typed', OnlyFed, LostCounted, InPipeline' = InPipeline, fed' = fed,
           failures' >= failures, dropped_samples' >= dropped_samples
    PROVE  OnlyFed' /\ LostCounted'
<1>1. Cardinality((1 .. fed) \ InPipeline) \in Nat
  <2>1. (1 .. fed) \ InPipeline \in SUBSET Samples
    BY TypedParts, ConstantTypes DEF FeedOK, Samples
  <2> QED
    BY <2>1, SampleSets
<1>2. {failures, dropped_samples, failures', dropped_samples'} \subseteq Nat
  BY DEF Typed, TypeOK, MQ!TypeOK
<1> QED
  BY <1>1, <1>2 DEF OnlyFed, LostCounted

\* A step that loses one sample counts it.
LEMMA FlowLost ==
    ASSUME Typed, Typed', OnlyFed, LostCounted, fed' = fed, NEW s \in Samples,
           InPipeline' \subseteq InPipeline, InPipeline \subseteq InPipeline' \cup {s},
           \/ failures' = failures + 1 /\ dropped_samples' = dropped_samples
           \/ failures' = failures /\ dropped_samples' = dropped_samples + 1
    PROVE  OnlyFed' /\ LostCounted'
<1> DEFINE lost == (1 .. fed) \ InPipeline
           then == (1 .. fed) \ InPipeline'
<1>1. lost \in SUBSET Samples /\ then \in SUBSET Samples
  BY TypedParts, ConstantTypes DEF FeedOK, Samples
<1>2. then \subseteq lost \cup {s}
  OBVIOUS
<1>3. Cardinality(lost) \in Nat /\ Cardinality(then) \in Nat
  <2> HIDE DEF lost, then
  <2> QED
    BY <1>1, SampleSets
<1>4. Cardinality(then) <= Cardinality(lost \cup {s})
  <2>1. lost \cup {s} \in SUBSET Samples
    BY <1>1
  <2> HIDE DEF lost, then
  <2> QED
    BY <1>1, <1>2, <2>1, SampleSets
<1>5. Cardinality(lost \cup {s}) <= Cardinality(lost) + 1 /\ Cardinality(lost \cup {s}) \in Nat
  <2>1. lost \cup {s} \in SUBSET Samples
    BY <1>1
  <2> HIDE DEF lost, then
  <2> QED
    BY <1>1, <2>1, SampleSets
<1>6. Cardinality(lost) <= failures + dropped_samples
  BY DEF LostCounted
<1>7. {failures, dropped_samples} \subseteq Nat
  BY TypedParts DEF DoneOK, MQ!TypeOK
<1>8. Cardinality(then) <= failures' + dropped_samples'
  <2> HIDE DEF lost, then
  <2> QED
    BY <1>3, <1>4, <1>5, <1>6, <1>7
<1>9. then = (1 .. fed') \ InPipeline'
  OBVIOUS
<1> QED
  BY <1>8, <1>9 DEF OnlyFed, LostCounted

\* The queue after a put: the new sample, and what was there, without the oldest one
\* if the queue was full, which is counted.
LEMMA PutPlaces ==
    ASSUME Typed, OnePlace, NEW x \in Samples \cup {EndSignal}, MQ!PutSample(x), x \notin Queued
    PROVE  /\ Once(queue)'
           /\ Queued' \subseteq Queued \cup ({x} \cap Samples) /\ {x} \cap Samples \subseteq Queued'
           /\ \/ Queued \subseteq Queued' /\ dropped_samples' \in {dropped_samples, dropped_samples + 1}
              \/ /\ dropped_samples' = dropped_samples + 1
                 /\ \E s \in Samples : Queued \subseteq Queued' \cup {s}
<1>1. queue \in Seq(Samples \cup {EndSignal}) /\ Once(queue) /\ EndSignal \notin Samples
  BY PlaceTypes DEF PlaceShape, OnePlace, EndSignal, Samples
<1>2. x \in Samples => x \notin SeqElements(queue)
  BY DEF Queued
<1>3. CASE ~MQ!Full
  <2>1. queue' = Append(queue, x) /\ dropped_samples' = dropped_samples
    BY <1>3 DEF MQ!PutSample
  <2>2. SeqElements(queue') = SeqElements(queue) \cup {x}
    BY <1>1, <2>1, AppendElements
  <2>3. Once(queue)'
    BY <1>1, <1>2, <2>1, AppendOnce
  <2> QED
    BY <2>1, <2>2, <2>3 DEF Queued
<1>4. CASE MQ!Full
  <2>1. queue' = Append(Tail(queue), x) /\ dropped_samples' = dropped_samples + 1
    BY <1>4 DEF MQ!PutSample
  <2>2. queue # << >>
    BY <1>4, ConstantTypes, Len(<< >>) = 0 DEF MQ!Full
  <2>3. Tail(queue) \in Seq(Samples \cup {EndSignal})
    BY <1>1, <2>2, HeadTailProperties
  <2>4. /\ SeqElements(queue) = {Head(queue)} \cup SeqElements(Tail(queue))
        /\ Once(Tail(queue))
    BY <1>1, <2>2, TailElements
  <2>5. SeqElements(queue') = SeqElements(Tail(queue)) \cup {x}
    <3>1. \A r \in Seq(Samples \cup {EndSignal}) : SeqElements(Append(r, x)) = SeqElements(r) \cup {x}
      BY AppendElements
    <3> QED
      BY <2>1, <2>3, <3>1
  <2>6. Once(queue)'
    BY <1>2, <2>1, <2>3, <2>4, AppendOnce
  <2>7. CASE Head(queue) \in Samples
    BY <2>1, <2>4, <2>5, <2>6, <2>7 DEF Queued
  <2>8. CASE Head(queue) \notin Samples
    BY <2>1, <2>4, <2>5, <2>6, <2>8 DEF Queued
  <2> QED
    BY <2>7, <2>8
<1> QED
  BY <1>3, <1>4

\* The processor keeps the sample it holds until it submits it.
LEMMA HeldStays == ASSUME Typed, HeldKept, [Next]_vars PROVE HeldKept'
<1>1. CASE UNCHANGED <<held, why, proc>>
  BY <1>1 DEF HeldKept
<1>2. ASSUME UNCHANGED <<held, why>>, NotifyAll PROVE HeldKept'
  BY <1>2, Zenon DEF HeldKept, NotifyAll
<1>3. CASE ProcStep
  <2>1. CASE ProcLoop
    BY <2>1 DEF ProcLoop, HeldKept
  <2>2. CASE ProcGet
    BY <2>2 DEF ProcGet, HeldKept, Samples, DONE
  <2>3. CASE ProcMarkPaused \/ ProcIdle
    BY <2>3 DEF ProcMarkPaused, ProcIdle, HeldKept
  <2>4. CASE ProcDrain
    BY <2>4 DEF ProcDrain, HeldKept
  <2>5. CASE ProcDrainLocked \/ ProcDrainWait
    BY <2>5 DEF ProcDrainLocked, ProcDrainWait, HeldKept
  <2>6. CASE ProcWoken
    BY <2>6 DEF ProcWoken, HeldKept
  <2>7. CASE ProcSubmit
    BY <2>7 DEF ProcSubmit, HeldKept, Samples
  <2> QED
    BY <1>3, <2>1, <2>2, <2>3, <2>4, <2>5, <2>6, <2>7 DEF ProcStep
<1>4. CASE MonitorStep
  <2>1. UNCHANGED <<held, why>> /\ (UNCHANGED proc \/ NotifyAll)
    BY <1>4 DEF MonitorStep, MonitorTop, MonitorCheckRunning, MonitorTick, MonitorRecover,
       MonitorFrame
  <2> QED
    BY <1>1, <1>2, <2>1
<1>5. CASE CallStep
  <2>1. UNCHANGED <<held, why>> /\ (UNCHANGED proc \/ NotifyAll)
    BY <1>5 DEF CallStep, CallFrame, PauseCall, PauseLocked, PauseCancelled, PauseGathered,
       PauseReturns, UpdateCall, UpdateCounts, UpdateReturns, ResumeCall, ResumeServers, ResumeReturns
  <2> QED
    BY <1>1, <1>2, <2>1
<1>6. CASE FeedStep \/ MainStep \/ TrainerNext \/ Terminated \/ UNCHANGED vars
  BY <1>1, <1>6 DEF FeedStep, FeedSample, FeedDone, FeedBlocks, MainStep, MainEndSignal, MainLock,
     MainStop, MainFrame, TrainerNext, TrainerGet, TrainerStep, SyncCallPause, SyncPaused,
     SyncSendResume, TrainerLog, TrainerFinish, TrainFrame, Terminated, vars, procVars
<1>7. ASSUME NEW s \in Samples, TaskStep(s) PROVE HeldKept'
  BY <1>1, <1>7 DEF TaskStep, TaskStart, TaskComplete, TaskPut, TaskCancelled, TaskFails, TaskFrame,
     procVars
<1> QED
  BY <1>3, <1>4, <1>5, <1>6, <1>7 DEF Next

\* A step that moves no sample, feeds none and drops none.
LEMMA PlacesFrame ==
    ASSUME Typed, Typed', InPlaces, UNCHANGED <<placeVars, fed, failures, dropped_samples>>
    PROVE  InPlaces'
<1>1. /\ Pending' = Pending /\ Held' = Held /\ Unfinished' = Unfinished /\ Cancelled' = Cancelled
      /\ Queued' = Queued /\ Batch' = Batch /\ trained' = trained
      /\ Once(pending_queue)' /\ Once(cancel_queue)' /\ Once(queue)' /\ Once(collected)'
  BY PlacesKept DEF InPlaces, placeVars
<1>2. OnePlace'
  BY <1>1 DEF InPlaces, OnePlace
<1>3. InPipeline' = InPipeline
  BY <1>1, PipelineParts
<1> QED
  BY <1>2, <1>3, FlowKept, PlaceTypes DEF PlaceShape, InPlaces

LEMMA FeederPlaces == ASSUME Typed, Typed', InPlaces, FeedStep PROVE InPlaces'
<1>1. CASE FeedSample
  <2>1. /\ pending_queue' = Append(pending_queue, fed + 1) /\ fed' = fed + 1
        /\ UNCHANGED <<held, task, cancel_queue, queue, collected, trained, failures, dropped_samples>>
    BY <1>1 DEF FeedSample, procVars, taskVars, trainVars, mqVars
  <2>2. fed + 1 \in Samples /\ fed + 1 \notin InPipeline /\ fed \in Nat
    BY <1>1, ConstantTypes, TypedParts DEF FeedSample, FeedOK, FeedInv, Samples, InPlaces, OnlyFed
  <2>3. pending_queue \in Seq(Samples \cup {DONE}) /\ Once(pending_queue)
    BY PlaceTypes DEF PlaceShape, InPlaces, OnePlace
  <2>4. Pending' = Pending \cup {fed + 1}
    <3>1. SeqElements(Append(pending_queue, fed + 1)) = SeqElements(pending_queue) \cup {fed + 1}
      BY <2>2, <2>3, AppendElements
    <3> QED
      BY <2>1, <2>2, <3>1 DEF Pending
  <2>5. Once(pending_queue)'
    <3>1. fed + 1 \notin SeqElements(pending_queue)
      BY <2>2, PlaceTypes DEF PlaceShape, Pending
    <3> QED
      BY <2>1, <2>2, <2>3, <3>1, AppendOnce
  <2>6. /\ Held' = Held /\ Unfinished' = Unfinished /\ Cancelled' = Cancelled
        /\ Queued' = Queued /\ Batch' = Batch /\ trained' = trained
        /\ Once(cancel_queue)' /\ Once(queue)' /\ Once(collected)'
    BY <2>1, PlacesKept DEF InPlaces
  <2>7. fed + 1 \notin Pending \cup Held \cup Unfinished \cup Cancelled \cup Queued \cup Batch \cup trained
    BY <2>2, PlaceTypes DEF PlaceShape
  <2>8. OnePlace'
    BY <2>4, <2>5, <2>6, <2>7 DEF InPlaces, OnePlace, Apart
  <2>9. InPipeline' = InPipeline \cup {fed + 1}
    BY <2>4, <2>6, PipelineParts
  <2>10. (1 .. fed') \ InPipeline' = (1 .. fed) \ InPipeline
    BY <2>1, <2>2, <2>9
  <2>11. OnlyFed'
    BY <2>1, <2>2, <2>9 DEF InPlaces, OnlyFed
  <2>12. LostCounted'
    <3>1. Cardinality((1 .. fed') \ InPipeline') = Cardinality((1 .. fed) \ InPipeline)
      BY <2>10
    <3> QED
      BY <2>1, <3>1, Zenon DEF InPlaces, LostCounted
  <2> QED
    BY <2>8, <2>11, <2>12 DEF InPlaces
<1>2. CASE FeedDone
  <2>1. /\ pending_queue' = Append(pending_queue, DONE)
        /\ UNCHANGED <<held, task, cancel_queue, queue, collected, trained, fed, failures,
                       dropped_samples>>
    BY <1>2 DEF FeedDone, procVars, taskVars, trainVars, mqVars
  <2>2. DONE \notin Samples
    BY DEF DONE, Samples
  <2>3. pending_queue \in Seq(Samples \cup {DONE}) /\ Once(pending_queue)
    BY PlaceTypes DEF PlaceShape, InPlaces, OnePlace
  <2>4. Pending' = Pending
    BY <2>1, <2>2, <2>3, AppendElements DEF Pending
  <2>5. Once(pending_queue)'
    BY <2>1, <2>2, <2>3, AppendOnce
  <2>6. /\ Held' = Held /\ Unfinished' = Unfinished /\ Cancelled' = Cancelled
        /\ Queued' = Queued /\ Batch' = Batch /\ trained' = trained
        /\ Once(cancel_queue)' /\ Once(queue)' /\ Once(collected)'
    BY <2>1, PlacesKept DEF InPlaces
  <2>7. OnePlace'
    BY <2>4, <2>5, <2>6 DEF InPlaces, OnePlace
  <2>8. InPipeline' = InPipeline
    BY <2>4, <2>6, PipelineParts
  <2> QED
    BY <2>1, <2>7, <2>8, FlowKept, PlaceTypes DEF PlaceShape, InPlaces
<1>3. CASE FeedBlocks
  BY <1>3, PlacesFrame DEF FeedBlocks, feedVars, procVars, taskVars, trainVars, genVars, mqVars,
     placeVars
<1> QED
  BY <1>1, <1>2, <1>3 DEF FeedStep

LEMMA ProcessorPlaces ==
    ASSUME Typed, Typed', InPlaces, HeldKept, ProcStep
    PROVE  InPlaces'
<1>1. UNCHANGED <<queue, collected, trained, fed, failures, dropped_samples>>
  BY DEF ProcStep, ProcFrame, ProcLoop, ProcGet, ProcMarkPaused, ProcDrain, ProcDrainLocked,
     ProcDrainWait, ProcIdle, ProcWoken, ProcSubmit, feedVars, taskVars, trainVars, mqVars
<1>2. ASSUME OnePlace', InPipeline' = InPipeline PROVE InPlaces'
  BY <1>1, <1>2, FlowKept, PlaceTypes DEF PlaceShape, InPlaces
<1>3. /\ Queued' = Queued /\ Batch' = Batch /\ trained' = trained
      /\ Once(queue)' /\ Once(collected)'
  BY <1>1, PlacesKept DEF InPlaces
\* A cancelled sample is taken up again.
<1>4. ASSUME ProcLoop, cancel_queue' # cancel_queue PROVE InPlaces'
  <2>1. /\ cancel_queue # << >> /\ held' = Head(cancel_queue) /\ cancel_queue' = Tail(cancel_queue)
        /\ proc = "loop" /\ UNCHANGED <<pending_queue, task>>
    BY <1>4 DEF ProcLoop, ProcFrame, genVars, taskVars
  <2>2. Held = {}
    BY <2>1 DEF HeldKept, Held
  <2>3. cancel_queue \in Seq(Samples) /\ Once(cancel_queue)
    BY PlaceTypes DEF PlaceShape, InPlaces, OnePlace
  <2>4. Head(cancel_queue) \in Samples
    BY <2>1, <2>3, HeadTailProperties
  <2>5. /\ SeqElements(cancel_queue) = {Head(cancel_queue)} \cup SeqElements(Tail(cancel_queue))
        /\ Head(cancel_queue) \notin SeqElements(Tail(cancel_queue))
        /\ Once(Tail(cancel_queue))
    BY <2>1, <2>3, <2>4, TailElements
  <2>6. /\ Cancelled = {held'} \cup Cancelled' /\ held' \notin Cancelled' /\ Held' = {held'}
        /\ Once(cancel_queue)'
    BY <2>1, <2>4, <2>5 DEF Cancelled, Held
  <2>7. Pending' = Pending /\ Unfinished' = Unfinished /\ Once(pending_queue)'
    BY <2>1, PlacesKept DEF InPlaces
  <2>8. OnePlace'
    BY <1>3, <2>2, <2>6, <2>7 DEF InPlaces, OnePlace, Apart
  <2>9. InPipeline' = InPipeline
    BY <1>3, <2>2, <2>6, <2>7, PipelineParts
  <2> QED
    BY <1>2, <2>8, <2>9
\* A fed sample, or the end marker, is taken.
<1>5. ASSUME ProcGet PROVE InPlaces'
  <2>1. /\ pending_queue # << >> /\ held' = Head(pending_queue)
        /\ pending_queue' = Tail(pending_queue)
        /\ proc = "get" /\ UNCHANGED <<cancel_queue, task>>
    BY <1>5 DEF ProcGet, ProcFrame, taskVars
  <2>2. Held = {}
    BY <2>1 DEF HeldKept, Held
  <2>3. pending_queue \in Seq(Samples \cup {DONE}) /\ Once(pending_queue)
    BY PlaceTypes DEF PlaceShape, InPlaces, OnePlace
  <2>4. /\ SeqElements(pending_queue) = {Head(pending_queue)} \cup SeqElements(Tail(pending_queue))
        /\ Head(pending_queue) \in Samples => Head(pending_queue) \notin SeqElements(Tail(pending_queue))
        /\ Once(Tail(pending_queue))
    BY <2>1, <2>3, TailElements
  <2>5. /\ Pending = Held' \cup Pending' /\ Held' \cap Pending' = {} /\ Once(pending_queue)'
    BY <2>1, <2>4 DEF Pending, Held
  <2>6. Cancelled' = Cancelled /\ Unfinished' = Unfinished /\ Once(cancel_queue)'
    BY <2>1, PlacesKept DEF InPlaces
  <2>7. OnePlace'
    BY <1>3, <2>2, <2>5, <2>6 DEF InPlaces, OnePlace, Apart
  <2>8. InPipeline' = InPipeline
    BY <1>3, <2>2, <2>5, <2>6, PipelineParts
  <2> QED
    BY <1>2, <2>7, <2>8
\* The sample in hand becomes a task.
<1>6. ASSUME ProcSubmit, ~paused PROVE InPlaces'
  <2>1. /\ task' = [task EXCEPT ![held] = "new"] /\ held' = -1
        /\ UNCHANGED <<cancel_queue, pending_queue>>
    BY <1>6 DEF ProcSubmit, genVars
  <2>2. task \in [Samples -> {"none", "new", "generating", "refused", "putting"}]
    BY PlaceTypes DEF PlaceShape
  <2>3. Unfinished' = Unfinished \cup Held
    BY <2>1, <2>2 DEF Unfinished, Held
  <2>4. Held' = {}
    BY <2>1 DEF Held, Samples
  <2>5. /\ Cancelled' = Cancelled /\ Pending' = Pending
        /\ Once(cancel_queue)' /\ Once(pending_queue)'
    BY <2>1, PlacesKept DEF InPlaces
  <2>6. OnePlace'
    BY <1>3, <2>3, <2>4, <2>5 DEF InPlaces, OnePlace, Apart
  <2>7. InPipeline' = InPipeline
    BY <1>3, <2>3, <2>4, <2>5, PipelineParts
  <2> QED
    BY <1>2, <2>6, <2>7
<1>7. ASSUME UNCHANGED <<pending_queue, held, task, cancel_queue>> PROVE InPlaces'
  BY <1>1, <1>7, PlacesFrame DEF placeVars
<1>8. CASE ProcLoop \/ ProcMarkPaused \/ ProcDrain \/ ProcDrainLocked \/ ProcDrainWait \/ ProcIdle
           \/ ProcWoken
  <2>1. \/ ProcLoop /\ cancel_queue' # cancel_queue
        \/ UNCHANGED <<pending_queue, held, task, cancel_queue>>
    BY <1>8 DEF ProcLoop, ProcMarkPaused, ProcDrain, ProcDrainLocked, ProcDrainWait, ProcIdle,
       ProcWoken, ProcFrame, genVars, taskVars
  <2> QED
    BY <1>4, <1>7, <2>1
<1>9. CASE ProcSubmit
  <2>1. paused => UNCHANGED <<pending_queue, held, task, cancel_queue>>
    BY <1>9 DEF ProcSubmit, genVars
  <2> QED
    BY <1>6, <1>7, <1>9, <2>1
<1> QED
  BY <1>5, <1>8, <1>9 DEF ProcStep

LEMMA TaskPlaces ==
    ASSUME Typed, Typed', InPlaces, NEW s \in Samples, TaskStep(s)
    PROVE  InPlaces'
<1>1. UNCHANGED <<pending_queue, held, collected, trained, fed>>
  BY DEF TaskStep, TaskStart, TaskComplete, TaskPut, TaskCancelled, TaskFails, TaskFrame, feedVars,
     procVars, trainVars
<1>2. /\ Pending' = Pending /\ Held' = Held /\ Batch' = Batch /\ trained' = trained
      /\ Once(pending_queue)' /\ Once(collected)'
  BY <1>1, PlacesKept DEF InPlaces
<1>3. task \in [Samples -> {"none", "new", "generating", "refused", "putting"}]
  BY PlaceTypes DEF PlaceShape
<1>4. ASSUME Finish(s), task[s] # "none" PROVE s \in Unfinished /\ Unfinished' = Unfinished \ {s}
  BY <1>3, <1>4 DEF Finish, Unfinished
<1>5. CASE TaskStart(s) \/ TaskComplete(s)
  <2>1. Unfinished' = Unfinished
    BY <1>3, <1>5 DEF TaskStart, TaskComplete, Unfinished
  <2>2. UNCHANGED <<cancel_queue, queue, failures, dropped_samples>>
    BY <1>5 DEF TaskStart, TaskComplete, mqVars
  <2>3. /\ Cancelled' = Cancelled /\ Queued' = Queued
        /\ Once(cancel_queue)' /\ Once(queue)'
    BY <2>2, PlacesKept DEF InPlaces
  <2>4. OnePlace'
    BY <1>2, <2>1, <2>3 DEF InPlaces, OnePlace
  <2>5. InPipeline' = InPipeline
    BY <1>2, <2>1, <2>3, PipelineParts
  <2> QED
    BY <1>1, <2>2, <2>4, <2>5, FlowKept, PlaceTypes DEF PlaceShape, InPlaces
\* The finished sample goes to the queue, which may drop its oldest.
<1>6. CASE TaskPut(s)
  <2>1. MQ!PutSample(s) /\ Finish(s) /\ task[s] # "none" /\ UNCHANGED <<failures, cancel_queue>>
    BY <1>6 DEF TaskPut
  <2>2. s \in Unfinished /\ Unfinished' = Unfinished \ {s}
    BY <1>4, <2>1
  <2>3. s \notin Queued
    BY <2>2 DEF InPlaces, OnePlace, Apart
  <2>4. /\ Once(queue)' /\ Queued' \subseteq Queued \cup {s} /\ s \in Queued'
        /\ \/ Queued \subseteq Queued' /\ dropped_samples' \in {dropped_samples, dropped_samples + 1}
           \/ /\ dropped_samples' = dropped_samples + 1
              /\ \E d \in Samples : Queued \subseteq Queued' \cup {d}
    BY <2>1, <2>3, PutPlaces DEF InPlaces
  <2>5. Cancelled' = Cancelled /\ Once(cancel_queue)'
    BY <2>1, PlacesKept DEF InPlaces
  <2>6. OnePlace'
    BY <1>2, <2>2, <2>4, <2>5 DEF InPlaces, OnePlace, Apart
  <2>7. CASE Queued \subseteq Queued' /\ dropped_samples' \in {dropped_samples, dropped_samples + 1}
    <3>1. InPipeline' = InPipeline
      BY <1>2, <2>2, <2>4, <2>5, <2>7, PipelineParts
    <3> QED
      BY <1>1, <2>1, <2>6, <2>7, <3>1, FlowKept, PlaceTypes DEF PlaceShape, InPlaces
  <2>8. CASE /\ dropped_samples' = dropped_samples + 1
             /\ \E d \in Samples : Queued \subseteq Queued' \cup {d}
    <3>1. PICK d \in Samples : Queued \subseteq Queued' \cup {d}
      BY <2>8
    <3>2. InPipeline' \subseteq InPipeline /\ InPipeline \subseteq InPipeline' \cup {d}
      BY <1>2, <2>2, <2>4, <2>5, <3>1, PipelineParts
    <3>3. failures' = failures /\ fed' = fed
      BY <1>1, <2>1
    <3>4. OnlyFed' /\ LostCounted'
      BY <2>8, <3>2, <3>3, FlowLost, Zenon DEF InPlaces
    <3> QED
      BY <2>6, <3>4 DEF InPlaces
  <2> QED
    BY <2>4, <2>7, <2>8
\* The cancelled sample waits to be taken up again.
<1>7. CASE TaskCancelled(s)
  <2>1. /\ cancel_queue' = Append(cancel_queue, s) /\ Finish(s) /\ task[s] # "none"
        /\ UNCHANGED <<failures, queue, dropped_samples>>
    BY <1>7 DEF TaskCancelled, mqVars
  <2>2. s \in Unfinished /\ Unfinished' = Unfinished \ {s}
    BY <1>4, <2>1
  <2>3. cancel_queue \in Seq(Samples) /\ Once(cancel_queue) /\ s \notin SeqElements(cancel_queue)
    BY <2>2, PlaceTypes DEF PlaceShape, InPlaces, OnePlace, Apart, Cancelled
  <2>4. Cancelled' = Cancelled \cup {s} /\ Once(cancel_queue)'
    BY <2>1, <2>3, AppendElements, AppendOnce DEF Cancelled
  <2>5. Queued' = Queued /\ Once(queue)'
    BY <2>1, PlacesKept DEF InPlaces
  <2>6. OnePlace'
    BY <1>2, <2>2, <2>4, <2>5 DEF InPlaces, OnePlace, Apart
  <2>7. InPipeline' = InPipeline
    BY <1>2, <2>2, <2>4, <2>5, PipelineParts
  <2> QED
    BY <1>1, <2>1, <2>6, <2>7, FlowKept, PlaceTypes DEF PlaceShape, InPlaces
\* The agent loop raised: the sample is lost and counted.
<1>8. CASE TaskFails(s)
  <2>1. /\ failures' = failures + 1 /\ Finish(s) /\ task[s] # "none"
        /\ UNCHANGED <<cancel_queue, queue, dropped_samples>>
    BY <1>8 DEF TaskFails, mqVars
  <2>2. s \in Unfinished /\ Unfinished' = Unfinished \ {s}
    BY <1>4, <2>1
  <2>3. /\ Cancelled' = Cancelled /\ Queued' = Queued
        /\ Once(cancel_queue)' /\ Once(queue)'
    BY <2>1, PlacesKept DEF InPlaces
  <2>4. OnePlace'
    BY <1>2, <2>2, <2>3 DEF InPlaces, OnePlace, Apart
  <2>5. InPipeline' \subseteq InPipeline /\ InPipeline \subseteq InPipeline' \cup {s}
    BY <1>2, <2>2, <2>3, PipelineParts
  <2>6. fed' = fed /\ failures' = failures + 1 /\ dropped_samples' = dropped_samples
    BY <1>1, <2>1
  <2>7. OnlyFed' /\ LostCounted'
    BY <2>5, <2>6, FlowLost, Zenon DEF InPlaces
  <2> QED
    BY <2>4, <2>7 DEF InPlaces
<1> QED
  BY <1>5, <1>6, <1>7, <1>8 DEF TaskStep

\* The end signal takes a place in the queue like a sample, and may drop one.
LEMMA MainPlaces == ASSUME Typed, Typed', InPlaces, MainStep PROVE InPlaces'
<1>1. UNCHANGED <<pending_queue, held, task, cancel_queue, collected, trained, fed, failures>>
  BY DEF MainStep, MainEndSignal, MainLock, MainStop, MainFrame, feedVars, procVars, taskVars,
     genVars, trainVars
<1>2. CASE UNCHANGED mqVars
  BY <1>1, <1>2, PlacesFrame DEF placeVars, mqVars
<1>3. CASE MQ!PutSample(EndSignal)
  <2>1. /\ Pending' = Pending /\ Held' = Held /\ Unfinished' = Unfinished /\ Cancelled' = Cancelled
        /\ Batch' = Batch /\ trained' = trained
        /\ Once(pending_queue)' /\ Once(cancel_queue)' /\ Once(collected)'
    BY <1>1, PlacesKept DEF InPlaces
  <2>2. EndSignal \notin Samples /\ EndSignal \notin Queued /\ EndSignal \in Samples \cup {EndSignal}
    BY DEF EndSignal, Samples, Queued
  <2>3. /\ Once(queue)' /\ Queued' \subseteq Queued
        /\ \/ Queued \subseteq Queued' /\ dropped_samples' \in {dropped_samples, dropped_samples + 1}
           \/ /\ dropped_samples' = dropped_samples + 1
              /\ \E d \in Samples : Queued \subseteq Queued' \cup {d}
    <3>1. /\ Once(queue)' /\ Queued' \subseteq Queued \cup ({EndSignal} \cap Samples)
          /\ \/ Queued \subseteq Queued' /\ dropped_samples' \in {dropped_samples, dropped_samples + 1}
             \/ /\ dropped_samples' = dropped_samples + 1
                /\ \E d \in Samples : Queued \subseteq Queued' \cup {d}
      BY <1>3, <2>2, PutPlaces DEF InPlaces
    <3> QED
      BY <2>2, <3>1
  <2>4. OnePlace'
    BY <2>1, <2>3 DEF InPlaces, OnePlace, Apart
  <2>5. CASE Queued \subseteq Queued' /\ dropped_samples' \in {dropped_samples, dropped_samples + 1}
    <3>1. InPipeline' = InPipeline
      BY <2>1, <2>3, <2>5, PipelineParts
    <3> QED
      BY <1>1, <2>4, <2>5, <3>1, FlowKept, PlaceTypes DEF PlaceShape, InPlaces
  <2>6. CASE /\ dropped_samples' = dropped_samples + 1
             /\ \E d \in Samples : Queued \subseteq Queued' \cup {d}
    <3>1. PICK d \in Samples : Queued \subseteq Queued' \cup {d}
      BY <2>6
    <3>2. InPipeline' \subseteq InPipeline /\ InPipeline \subseteq InPipeline' \cup {d}
      BY <2>1, <2>3, <3>1, PipelineParts
    <3> QED
      BY <1>1, <2>4, <2>6, <3>2, FlowLost DEF InPlaces
  <2> QED
    BY <2>3, <2>5, <2>6
<1>4. UNCHANGED mqVars \/ MQ!PutSample(EndSignal)
  BY DEF MainStep, MainEndSignal, MainLock, MainStop
<1> QED
  BY <1>2, <1>3, <1>4

LEMMA TrainerPlaces == ASSUME Typed, Typed', InPlaces, TrainerNext PROVE InPlaces'
<1>1. UNCHANGED <<pending_queue, held, task, cancel_queue, fed, failures>>
  BY DEF TrainerNext, TrainerGet, TrainerStep, SyncCallPause, SyncPaused, SyncSendResume,
     TrainerLog, TrainerFinish, TrainFrame, feedVars, procVars, taskVars, genVars
<1>2. dropped_samples' = dropped_samples
  BY DEF TrainerNext, TrainerGet, TrainerStep, SyncCallPause, SyncPaused, SyncSendResume,
     TrainerLog, TrainerFinish, mqVars, MQ!GetSample, MQ!WaitForSample, MQ!TakeSample,
     MQ!ReturnNone, MQ!UpdateParamVersion, MQ!GetValidate, MQ!counters
<1>3. /\ Pending' = Pending /\ Held' = Held /\ Unfinished' = Unfinished /\ Cancelled' = Cancelled
      /\ Once(pending_queue)' /\ Once(cancel_queue)'
  BY <1>1, PlacesKept DEF InPlaces
<1>4. /\ collected \in Seq(Samples) /\ Once(collected) /\ queue \in Seq(Samples \cup {EndSignal})
      /\ Once(queue) /\ EndSignal \notin Samples
  BY PlaceTypes DEF PlaceShape, InPlaces, OnePlace, EndSignal, Samples
<1>5. ASSUME OnePlace', InPipeline' = InPipeline PROVE InPlaces'
  BY <1>1, <1>2, <1>5, FlowKept, PlaceTypes DEF PlaceShape, InPlaces
<1>6. CASE UNCHANGED <<queue, collected, trained>>
  BY <1>1, <1>2, <1>6, PlacesFrame DEF placeVars
<1>7. CASE TrainerGet /\ queue' # queue
  <2>1. queue # << >> /\ queue' = Tail(queue) /\ UNCHANGED trained
    BY <1>7 DEF TrainerGet, MQ!GetSample, MQ!WaitForSample, MQ!TakeSample, MQ!ReturnNone
  <2>2. /\ SeqElements(queue) = {Head(queue)} \cup SeqElements(Tail(queue))
        /\ Head(queue) \in Samples => Head(queue) \notin SeqElements(Tail(queue))
        /\ Once(Tail(queue)) /\ Head(queue) \in Samples \cup {EndSignal}
    BY <1>4, <2>1, TailElements, HeadTailProperties
  <2>3. Once(queue)'
    BY <2>1, <2>2
  <2>4. CASE Head(queue) = EndSignal
    <3>1. UNCHANGED collected
      BY <1>7, <2>4 DEF TrainerGet
    <3>2. Queued' = Queued
      BY <1>4, <2>1, <2>2, <2>4 DEF Queued
    <3>3. Batch' = Batch /\ Once(collected)'
      BY <3>1, PlacesKept DEF InPlaces
    <3>4. OnePlace'
      BY <1>3, <2>1, <2>3, <3>2, <3>3 DEF InPlaces, OnePlace
    <3>5. InPipeline' = InPipeline
      BY <1>3, <2>1, <3>2, <3>3, PipelineParts
    <3> QED
      BY <1>5, <3>4, <3>5
  <2>5. CASE Head(queue) # EndSignal
    <3>1. collected' = Append(collected, Head(queue)) /\ Head(queue) \in Samples
      BY <1>7, <2>2, <2>5 DEF TrainerGet
    <3>2. /\ Queued = {Head(queue)} \cup Queued' /\ Head(queue) \notin Queued'
      BY <2>1, <2>2, <3>1 DEF Queued
    <3>3. Head(queue) \notin Batch
      BY <3>1, <3>2 DEF InPlaces, OnePlace, Apart
    <3>4. Batch' = Batch \cup {Head(queue)}
      BY <1>4, <3>1, AppendElements DEF Batch
    <3>5. Once(collected)'
      BY <1>4, <3>1, <3>3, AppendOnce DEF Batch
    <3>6. OnePlace'
      BY <1>3, <2>1, <2>3, <3>2, <3>3, <3>4, <3>5 DEF InPlaces, OnePlace, Apart
    <3>7. InPipeline' = InPipeline
      BY <1>3, <2>1, <3>2, <3>4, PipelineParts
    <3> QED
      BY <1>5, <3>6, <3>7
  <2> QED
    BY <2>4, <2>5
\* The batch is trained.
<1>8. CASE TrainerStep
  <2>1. trained' = trained \cup Batch /\ collected' = << >> /\ UNCHANGED queue
    BY <1>8 DEF TrainerStep, mqVars, Batch
  <2>2. Batch' = {} /\ Once(collected)'
    BY <2>1, Len(<< >>) = 0 DEF Batch, SeqElements, Once
  <2>3. Queued' = Queued /\ Once(queue)'
    BY <2>1, PlacesKept DEF InPlaces
  <2>4. OnePlace'
    BY <1>3, <2>1, <2>2, <2>3 DEF InPlaces, OnePlace, Apart
  <2>5. InPipeline' = InPipeline
    BY <1>3, <2>1, <2>2, <2>3, PipelineParts
  <2> QED
    BY <1>5, <2>4, <2>5
<1>9. UNCHANGED <<queue, collected, trained>> \/ (TrainerGet /\ queue' # queue) \/ TrainerStep
  BY DEF TrainerNext, TrainerGet, TrainerStep, SyncCallPause, SyncPaused, SyncSendResume, TrainerLog,
     TrainerFinish, mqVars, MQ!UpdateParamVersion, MQ!GetValidate
<1> QED
  BY <1>6, <1>7, <1>8, <1>9

LEMMA AccountedStep == ASSUME Typed, Typed', Accounted, [Next]_vars PROVE Accounted'
<1>1. HeldKept'
  BY HeldStays DEF Accounted
<1>2. CASE MonitorStep \/ CallStep \/ Terminated \/ UNCHANGED vars
  <2>1. UNCHANGED <<placeVars, fed, failures, dropped_samples>>
    <3>1. CASE MonitorStep
      BY <3>1 DEF MonitorStep, MonitorTop, MonitorCheckRunning, MonitorTick, MonitorRecover,
         MonitorFrame, feedVars, taskVars, trainVars, genVars, mqVars, placeVars
    <3>2. CASE CallStep
      <4>1. CallFrame /\ (UNCHANGED mqVars \/ MQ!PutValidate(version))
        BY <3>2 DEF CallStep, PauseCall, PauseLocked, PauseCancelled, PauseGathered, PauseReturns,
           UpdateCall, UpdateCounts, UpdateReturns, ResumeCall, ResumeServers, ResumeReturns
      <4> QED
        BY <4>1 DEF CallFrame, MQ!PutValidate, MQ!counters, feedVars, taskVars, trainVars, mqVars,
           placeVars
    <3>3. CASE Terminated \/ UNCHANGED vars
      BY <3>3 DEF Terminated, vars, feedVars, procVars, taskVars, trainVars, genVars, mqVars, placeVars
    <3> QED
      BY <1>2, <3>1, <3>2, <3>3
  <2> QED
    BY <1>1, <2>1, PlacesFrame DEF Accounted
<1>3. CASE Next /\ ~(MonitorStep \/ CallStep \/ Terminated)
  <2>1. InPlaces'
    BY <1>3, FeederPlaces, ProcessorPlaces, MainPlaces, TrainerPlaces, TaskPlaces DEF Next, Accounted
  <2> QED
    BY <1>1, <2>1 DEF Accounted
<1> QED
  BY <1>2, <1>3

LEMMA InitialPlaces == Init => Accounted
<1> SUFFICES ASSUME Init PROVE Accounted
  OBVIOUS
<1>1. /\ pending_queue = << >> /\ cancel_queue = << >> /\ queue = << >> /\ collected = << >>
      /\ held = -1 /\ trained = {} /\ task = [s \in Samples |-> "none"] /\ fed = 0
      /\ failures = 0 /\ dropped_samples = 0
  BY DEF Init, MQ!Init
<1>2. -1 \notin Samples
  BY DEF Samples
<1>3. SeqElements(<< >>) = {} /\ Once(<< >>)
  BY Len(<< >>) = 0 DEF SeqElements, Once
<1>4. /\ Pending = {} /\ Held = {} /\ Unfinished = {} /\ Cancelled = {} /\ Queued = {} /\ Batch = {}
  BY <1>1, <1>2, <1>3 DEF Pending, Held, Unfinished, Cancelled, Queued, Batch
<1>5. OnePlace
  BY <1>1, <1>3, <1>4 DEF OnePlace, Apart
<1>6. InPipeline = {}
  BY <1>1, <1>4, InitialTypes, PipelineParts
<1>7. (1 .. fed) \ InPipeline = {}
  BY <1>1
<1>8. OnlyFed /\ LostCounted
  BY <1>1, <1>6, <1>7, FS_EmptySet DEF OnlyFed, LostCounted
<1> QED
  BY <1>1, <1>2, <1>5, <1>8 DEF Accounted, InPlaces, HeldKept

LEMMA AlwaysAccounted == Spec => [](Typed /\ Accounted)
<1>1. ASSUME Typed, Accounted, [Next]_vars PROVE Typed' /\ Accounted'
  BY <1>1, TypedStep, AccountedStep
<1> QED
  BY <1>1, InitialTypes, InitialPlaces, PTL DEF Spec

\* No sample is duplicated or silently lost: whatever pause, cancellation,
\* resubmission, the bounded queue and failing generations do, a fed sample is in
\* exactly one place of the pipeline, or one of the drops or failures counted.
THEOREM AsyncSampleAccounting == Spec => []SampleAccounting
<1>1. Typed /\ Accounted => SampleAccounting
  BY CountPipeline DEF Accounted, InPlaces, LostCounted, SampleAccounting
<1> QED
  BY <1>1, AlwaysAccounted, PTL
-----------------------------------------------------------------------------
(* How much is generated ahead of the trainer.                             *)

\* staleness_samples may fall one short of what is in flight: update_param_version
\* counts before it asks the queue for its size, and does not see the sample the
\* processor holds.  While it waits for that answer it owns the lock, so nothing is
\* submitted.  A processor that has passed the staleness test takes one more.
Bounded ==
    /\ Cardinality(InFlight) <= staleness_samples + 1
    /\ Cardinality(InFlight) <= MaxRequired + 1
    /\ proc = "get" => Cardinality(InFlight) <= MaxRequired
    /\ update = "counting" => /\ lock = "update"
                              /\ Cardinality(Unfinished \cup Cancelled) <= counted

FlightShape ==
    /\ InFlight \in SUBSET Samples /\ Unfinished \cup Cancelled \in SUBSET Samples
    /\ staleness_samples \in Nat /\ counted \in Nat

LEMMA FlightTypes == Typed => FlightShape
  BY PlaceTypes, TypedParts DEF PlaceShape, InFlight, FlightShape, VersionsOK, DoneOK

LEMMA FlightTypesNext == Typed' => FlightShape'
  BY FlightTypes, PTL

\* Fewer in flight, and no new permission to take one.
LEMMA BoundKept ==
    ASSUME Typed, Typed', Bounded, InFlight' \subseteq InFlight,
           staleness_samples' = staleness_samples, proc' = "get" => proc = "get",
           update' = "counting" => /\ update = "counting"
                                   /\ (lock = "update" => lock' = "update") /\ counted' = counted
                                   /\ (Unfinished \cup Cancelled)' \subseteq Unfinished \cup Cancelled
    PROVE  Bounded'
<1>1. /\ InFlight \in SUBSET Samples /\ InFlight' \in SUBSET Samples
      /\ Unfinished \cup Cancelled \in SUBSET Samples
      /\ (Unfinished \cup Cancelled)' \in SUBSET Samples
      /\ staleness_samples \in Nat /\ counted \in Nat
  BY FlightTypes, FlightTypesNext DEF FlightShape
<1>2. /\ Cardinality(InFlight) \in Nat /\ Cardinality(InFlight') \in Nat
      /\ Cardinality(InFlight') <= Cardinality(InFlight)
  BY <1>1, SampleSets
<1>3. ASSUME update' = "counting"
      PROVE  lock' = "update" /\ Cardinality((Unfinished \cup Cancelled)') <= counted'
  <2> DEFINE ahead == Unfinished \cup Cancelled
  <2>1. ahead \in SUBSET Samples /\ ahead' \in SUBSET Samples /\ ahead' \subseteq ahead
    BY <1>1, <1>3
  <2>2. lock' = "update" /\ Cardinality(ahead) <= counted /\ counted' = counted
    BY <1>3 DEF Bounded
  <2> HIDE DEF ahead
  <2>3. Cardinality(ahead') <= Cardinality(ahead) /\ Cardinality(ahead) \in Nat
        /\ Cardinality(ahead') \in Nat
    BY <2>1, SampleSets
  <2>4. Cardinality(ahead') <= counted'
    BY <1>1, <2>2, <2>3
  <2> QED
    BY <2>2, <2>4 DEF ahead
<1>4. MaxRequired \in Nat
  BY ConstantTypes
<1> QED
  BY <1>1, <1>2, <1>3, <1>4 DEF Bounded

\* A step that leaves samples, staleness_samples and update_param_version's count alone.
LEMMA BoundFrame ==
    ASSUME Typed, Typed', Accounted, Bounded,
           UNCHANGED <<task, cancel_queue, queue, held, staleness_samples, counted>>,
           proc' = "get" => proc = "get", update' = "counting" => update = "counting",
           lock = "update" => lock' = "update"
    PROVE  Bounded'
<1>1. /\ Unfinished' = Unfinished /\ Cancelled' = Cancelled /\ Queued' = Queued /\ Held' = Held
  BY PlacesKept DEF Accounted, InPlaces
<1>2. InFlight' = InFlight /\ (Unfinished \cup Cancelled)' = Unfinished \cup Cancelled
  BY <1>1 DEF InFlight
<1> QED
  BY <1>2, BoundKept

\* A lock that somebody owns is not taken.
LEMMA OwnedLock ==
    ASSUME lock = "update", NEW c, Acquire(c) \/ KeepLock
    PROVE  lock' = "update"
  BY DEF Acquire, KeepLock, Nobody

\* Who releases the lock owns it.
LEMMA ProcessorLock == ASSUME ProcStep, lock = "update" PROVE lock' = "update"
<1>1. CASE ProcLoop \/ ProcDrain \/ ProcWoken
  BY <1>1, OwnedLock DEF ProcLoop, ProcDrain, ProcWoken
<1>2. CASE ProcGet
  BY <1>2 DEF ProcGet, KeepLock
<1> QED
  BY <1>1, <1>2 DEF ProcStep, ProcMarkPaused, ProcDrainLocked, ProcDrainWait, ProcIdle, ProcSubmit, Holds

LEMMA ProcessorBound ==
    ASSUME Typed, Typed', Accounted, Bounded, ProcStep
    PROVE  Bounded'
<1>1. UNCHANGED <<queue, counted, update>>
  BY DEF ProcStep, ProcFrame, ProcLoop, ProcGet, ProcMarkPaused, ProcDrain, ProcDrainLocked,
     ProcDrainWait, ProcIdle, ProcWoken, ProcSubmit, callVars, mqVars
<1>2. Queued' = Queued
  BY <1>1, PlacesKept DEF Accounted, InPlaces
<1>3. lock = "update" => lock' = "update"
  BY ProcessorLock
\* A cancelled sample is taken up again.
<1>4. ASSUME ProcLoop, cancel_queue' # cancel_queue PROVE Bounded'
  <2>1. /\ cancel_queue # << >> /\ held' = Head(cancel_queue) /\ cancel_queue' = Tail(cancel_queue)
        /\ proc' = "drain" /\ UNCHANGED <<task, staleness_samples>>
    BY <1>4 DEF ProcLoop, ProcFrame, genVars, taskVars, flagVars
  <2>2. cancel_queue \in Seq(Samples) /\ Once(cancel_queue)
    BY PlaceTypes DEF PlaceShape, Accounted, InPlaces, OnePlace
  <2>3. Cancelled = {held'} \cup Cancelled'
    BY <2>1, <2>2, TailElements DEF Cancelled
  <2>4. Unfinished' = Unfinished
    BY <2>1, PlacesKept DEF Accounted, InPlaces
  <2>5. /\ InFlight' \subseteq InFlight
        /\ (Unfinished \cup Cancelled)' \subseteq Unfinished \cup Cancelled
    BY <1>2, <2>3, <2>4 DEF InFlight, Held
  <2> QED
    BY <1>1, <1>3, <2>1, <2>5, BoundKept
\* The processor goes on to take a sample: the staleness test lets it take one.
<1>5. ASSUME ProcLoop, cancel_queue' = cancel_queue, proc' = "get" PROVE Bounded'
  <2>1. ~ShouldPause /\ UNCHANGED <<task, held, staleness_samples>>
    BY <1>5 DEF ProcLoop, ProcFrame, genVars, taskVars, flagVars
  <2>2. /\ Unfinished' = Unfinished /\ Cancelled' = Cancelled /\ Held' = Held
    BY <1>5, <2>1, PlacesKept DEF Accounted, InPlaces
  <2>3. /\ InFlight' = InFlight /\ (Unfinished \cup Cancelled)' = Unfinished \cup Cancelled
    BY <1>2, <2>2 DEF InFlight
  <2>4. /\ staleness_samples \in Nat /\ MaxRequired \in Nat /\ Cardinality(InFlight) \in Nat
    BY FlightTypes, SampleSets, ConstantTypes DEF FlightShape
  <2>5. Cardinality(InFlight) <= MaxRequired
    BY <2>1, <2>4 DEF Bounded, ShouldPause
  <2> QED
    BY <1>1, <1>3, <2>1, <2>3, <2>4, <2>5 DEF Bounded
\* It takes one, and counts it.
<1>6. ASSUME ProcGet PROVE Bounded'
  <2>1. /\ proc = "get" /\ proc' = "drain" /\ staleness_samples' = staleness_samples + 1
        /\ UNCHANGED <<task, cancel_queue>>
    BY <1>6 DEF ProcGet, ProcFrame, taskVars
  <2>2. Unfinished' = Unfinished /\ Cancelled' = Cancelled
    BY <2>1, PlacesKept DEF Accounted, InPlaces
  <2>3. InFlight' \subseteq InFlight \cup Held' /\ (Unfinished \cup Cancelled)' = Unfinished \cup Cancelled
    BY <1>2, <2>2 DEF InFlight
  <2>4. /\ staleness_samples \in Nat /\ MaxRequired \in Nat /\ InFlight \in SUBSET Samples
        /\ InFlight' \in SUBSET Samples
    BY FlightTypes, FlightTypesNext, ConstantTypes DEF FlightShape
  <2>5. Cardinality(InFlight') <= Cardinality(InFlight) + 1
    <3>1. CASE Held' = {}
      <4>1. InFlight' \subseteq InFlight
        BY <2>3, <3>1
      <4>2. /\ Cardinality(InFlight') <= Cardinality(InFlight)
            /\ Cardinality(InFlight) \in Nat /\ Cardinality(InFlight') \in Nat
        BY <2>4, <4>1, SampleSets
      <4> QED
        BY <4>2
    <3>2. CASE Held' # {}
      <4>1. PICK s \in Samples : Held' = {s}
        BY <3>2 DEF Held
      <4>2. InFlight \cup {s} \in SUBSET Samples /\ InFlight' \subseteq InFlight \cup {s}
        BY <2>3, <2>4, <4>1
      <4>3. /\ Cardinality(InFlight') <= Cardinality(InFlight \cup {s})
            /\ Cardinality(InFlight \cup {s}) <= Cardinality(InFlight) + 1
            /\ Cardinality(InFlight) \in Nat /\ Cardinality(InFlight') \in Nat
            /\ Cardinality(InFlight \cup {s}) \in Nat
        BY <2>4, <4>2, SampleSets
      <4> QED
        BY <4>3
    <3> QED
      BY <3>1, <3>2
  <2>6. Cardinality(InFlight) \in Nat /\ Cardinality(InFlight') \in Nat
    BY <2>4, SampleSets
  <2>7. update' = "counting" =>
            lock' = "update" /\ Cardinality((Unfinished \cup Cancelled)') <= counted'
    BY <1>1, <1>3, <2>3, Zenon DEF Bounded
  <2>8. /\ Cardinality(InFlight') <= staleness_samples' + 1 /\ Cardinality(InFlight') <= MaxRequired + 1
    BY <2>1, <2>4, <2>5, <2>6 DEF Bounded
  <2> QED
    BY <2>1, <2>7, <2>8 DEF Bounded
\* The sample in hand becomes a task, with the lock.
<1>7. ASSUME ProcSubmit, ~paused PROVE Bounded'
  <2>1. /\ task' = [task EXCEPT ![held] = "new"] /\ held' = -1 /\ lock = "proc"
        /\ proc' = "loop" /\ UNCHANGED <<cancel_queue, staleness_samples>>
    BY <1>7 DEF ProcSubmit, genVars, flagVars, Holds
  <2>2. task \in [Samples -> {"none", "new", "generating", "refused", "putting"}]
    BY PlaceTypes DEF PlaceShape
  <2>3. Unfinished' = Unfinished \cup Held
    BY <2>1, <2>2 DEF Unfinished, Held
  <2>4. Held' = {} /\ Cancelled' = Cancelled
    BY <2>1, PlacesKept DEF Held, Samples, Accounted, InPlaces
  <2>5. InFlight' \subseteq InFlight
    BY <1>2, <2>3, <2>4 DEF InFlight
  <2>6. update' # "counting"
    BY <1>1, <2>1 DEF Bounded
  <2> QED
    BY <2>1, <2>5, <2>6, BoundKept
<1>8. ASSUME UNCHANGED <<task, cancel_queue, held, staleness_samples>>, proc' # "get" PROVE Bounded'
  BY <1>1, <1>3, <1>8, BoundFrame
<1>9. CASE ProcLoop
  <2>1. UNCHANGED <<task, staleness_samples>> /\ (cancel_queue' = cancel_queue => held' = held)
    BY <1>9 DEF ProcLoop, ProcFrame, taskVars, flagVars
  <2> QED
    BY <1>4, <1>5, <1>8, <1>9, <2>1
<1>10. CASE ProcSubmit /\ paused
  <2>1. UNCHANGED <<task, cancel_queue, held, staleness_samples>> /\ proc' # "get"
    BY <1>10 DEF ProcSubmit, genVars, flagVars
  <2> QED
    BY <1>8, <2>1
<1>11. CASE ProcMarkPaused \/ ProcDrain \/ ProcDrainLocked \/ ProcDrainWait \/ ProcIdle \/ ProcWoken
  <2>1. UNCHANGED <<task, cancel_queue, held, staleness_samples>> /\ proc' # "get"
    BY <1>11 DEF ProcMarkPaused, ProcDrain, ProcDrainLocked, ProcDrainWait, ProcIdle, ProcWoken,
       ProcFrame, taskVars, genVars, flagVars
  <2> QED
    BY <1>8, <2>1
<1> QED
  BY <1>6, <1>7, <1>9, <1>10, <1>11 DEF ProcStep

LEMMA TaskBound ==
    ASSUME Typed, Typed', Accounted, Bounded, NEW s \in Samples, TaskStep(s)
    PROVE  Bounded'
<1>1. UNCHANGED <<held, staleness_samples, proc, lock, update, counted>>
  BY DEF TaskStep, TaskStart, TaskComplete, TaskPut, TaskCancelled, TaskFails, TaskFrame,
     procVars, flagVars, callVars
<1>2. Held' = Held
  BY <1>1, PlacesKept DEF Accounted, InPlaces
<1>3. task \in [Samples -> {"none", "new", "generating", "refused", "putting"}]
  BY PlaceTypes DEF PlaceShape
<1>4. ASSUME Finish(s), task[s] # "none" PROVE s \in Unfinished /\ Unfinished' = Unfinished \ {s}
  BY <1>3, <1>4 DEF Finish, Unfinished
<1>5. ASSUME InFlight' \subseteq InFlight, (Unfinished \cup Cancelled)' \subseteq Unfinished \cup Cancelled
      PROVE  Bounded'
  BY <1>1, <1>5, BoundKept
<1>6. CASE TaskStart(s) \/ TaskComplete(s)
  <2>1. Unfinished' = Unfinished
    BY <1>3, <1>6 DEF TaskStart, TaskComplete, Unfinished
  <2>2. UNCHANGED <<cancel_queue, queue>>
    BY <1>6 DEF TaskStart, TaskComplete, mqVars
  <2>3. Cancelled' = Cancelled /\ Queued' = Queued
    BY <2>2, PlacesKept DEF Accounted, InPlaces
  <2> QED
    BY <1>2, <1>5, <2>1, <2>3 DEF InFlight
<1>7. CASE TaskPut(s)
  <2>1. MQ!PutSample(s) /\ Finish(s) /\ task[s] # "none" /\ UNCHANGED cancel_queue
    BY <1>7 DEF TaskPut
  <2>2. s \in Unfinished /\ Unfinished' = Unfinished \ {s}
    BY <1>4, <2>1
  <2>3. s \notin Queued
    BY <2>2 DEF Accounted, InPlaces, OnePlace, Apart
  <2>4. Queued' \subseteq Queued \cup {s}
    BY <2>1, <2>3, PutPlaces DEF Accounted, InPlaces
  <2>5. Cancelled' = Cancelled
    BY <2>1, PlacesKept DEF Accounted, InPlaces
  <2> QED
    BY <1>2, <1>5, <2>2, <2>4, <2>5 DEF InFlight
<1>8. CASE TaskCancelled(s)
  <2>1. /\ cancel_queue' = Append(cancel_queue, s) /\ Finish(s) /\ task[s] # "none"
        /\ UNCHANGED queue
    BY <1>8 DEF TaskCancelled, mqVars
  <2>2. s \in Unfinished /\ Unfinished' = Unfinished \ {s}
    BY <1>4, <2>1
  <2>3. cancel_queue \in Seq(Samples)
    BY PlaceTypes DEF PlaceShape
  <2>4. Cancelled' = Cancelled \cup {s}
    BY <2>1, <2>3, AppendElements DEF Cancelled
  <2>5. Queued' = Queued
    BY <2>1, PlacesKept DEF Accounted, InPlaces
  <2> QED
    BY <1>2, <1>5, <2>2, <2>4, <2>5 DEF InFlight
<1>9. CASE TaskFails(s)
  <2>1. Finish(s) /\ task[s] # "none" /\ UNCHANGED <<cancel_queue, queue>>
    BY <1>9 DEF TaskFails, mqVars
  <2>2. Unfinished' = Unfinished \ {s}
    BY <1>4, <2>1
  <2>3. Cancelled' = Cancelled /\ Queued' = Queued
    BY <2>1, PlacesKept DEF Accounted, InPlaces
  <2> QED
    BY <1>2, <1>5, <2>2, <2>3 DEF InFlight
<1> QED
  BY <1>6, <1>7, <1>8, <1>9 DEF TaskStep

LEMMA TrainerBound == ASSUME Typed, Typed', Accounted, Bounded, TrainerNext PROVE Bounded'
<1>1. UNCHANGED <<held, task, cancel_queue, staleness_samples, proc, lock, counted>>
      /\ (update' = "counting" => update = "counting")
  BY DEF TrainerNext, TrainerGet, TrainerStep, SyncCallPause, SyncPaused, SyncSendResume,
     TrainerLog, TrainerFinish, TrainFrame, procVars, taskVars, genVars, flagVars, loopVars, callVars
<1>2. UNCHANGED queue \/ (queue # << >> /\ queue' = Tail(queue))
  BY DEF TrainerNext, TrainerGet, TrainerStep, SyncCallPause, SyncPaused, SyncSendResume,
     TrainerLog, TrainerFinish, mqVars, MQ!GetSample, MQ!WaitForSample, MQ!TakeSample,
     MQ!ReturnNone, MQ!UpdateParamVersion, MQ!GetValidate
<1>3. Queued' \subseteq Queued
  <2>1. CASE UNCHANGED queue
    BY <2>1, PlacesKept DEF Accounted, InPlaces
  <2>2. CASE queue # << >> /\ queue' = Tail(queue)
    <3>1. queue \in Seq(Samples \cup {EndSignal}) /\ Once(queue)
      BY PlaceTypes DEF PlaceShape, Accounted, InPlaces, OnePlace
    <3>2. SeqElements(queue) = {Head(queue)} \cup SeqElements(Tail(queue))
      BY <2>2, <3>1, TailElements
    <3> QED
      BY <2>2, <3>2 DEF Queued
  <2> QED
    BY <1>2, <2>1, <2>2
<1>4. Held' = Held /\ Unfinished' = Unfinished /\ Cancelled' = Cancelled
  BY <1>1, PlacesKept DEF Accounted, InPlaces
<1>5. InFlight' \subseteq InFlight /\ (Unfinished \cup Cancelled)' \subseteq Unfinished \cup Cancelled
  BY <1>3, <1>4 DEF InFlight
<1> QED
  BY <1>1, <1>5, BoundKept

LEMMA MainBound == ASSUME Typed, Typed', Accounted, Bounded, MainStep PROVE Bounded'
<1>1. UNCHANGED <<held, task, cancel_queue, staleness_samples, proc, counted, update>>
  BY DEF MainStep, MainEndSignal, MainLock, MainStop, MainFrame, procVars, taskVars, genVars, callVars
<1>2. lock = "update" => lock' = "update"
  <2>1. CASE MainLock
    BY <2>1, OwnedLock DEF MainLock
  <2> QED
    BY <2>1 DEF MainStep, MainEndSignal, MainStop, Holds, loopVars
<1>3. Queued' \subseteq Queued
  <2>1. CASE UNCHANGED mqVars
    BY <2>1, PlacesKept DEF Accounted, InPlaces, mqVars
  <2>2. CASE MQ!PutSample(EndSignal)
    <3>1. EndSignal \notin Samples /\ EndSignal \notin Queued /\ EndSignal \in Samples \cup {EndSignal}
      BY DEF EndSignal, Samples, Queued
    <3>2. Queued' \subseteq Queued \cup ({EndSignal} \cap Samples)
      BY <2>2, <3>1, PutPlaces DEF Accounted, InPlaces
    <3> QED
      BY <3>1, <3>2
  <2> QED
    BY <2>1, <2>2 DEF MainStep, MainEndSignal, MainLock, MainStop
<1>4. Held' = Held /\ Unfinished' = Unfinished /\ Cancelled' = Cancelled
  BY <1>1, PlacesKept DEF Accounted, InPlaces
<1>5. InFlight' \subseteq InFlight /\ (Unfinished \cup Cancelled)' \subseteq Unfinished \cup Cancelled
  BY <1>3, <1>4 DEF InFlight
<1> QED
  BY <1>1, <1>2, <1>5, BoundKept

\* The recount of update_param_version.
LEMMA CallBound == ASSUME Typed, Typed', Accounted, Bounded, CallStep PROVE Bounded'
<1>1. UNCHANGED <<held, task, cancel_queue, queue>>
  <2>1. CallFrame /\ (UNCHANGED mqVars \/ MQ!PutValidate(version))
    BY DEF CallStep, PauseCall, PauseLocked, PauseCancelled, PauseGathered, PauseReturns,
       UpdateCall, UpdateCounts, UpdateReturns, ResumeCall, ResumeServers, ResumeReturns
  <2> QED
    BY <2>1 DEF CallFrame, MQ!PutValidate, taskVars, mqVars
<1>2. proc' = "get" => proc = "get"
  BY Zenon DEF CallStep, PauseCall, PauseLocked, PauseCancelled, PauseGathered, PauseReturns,
     UpdateCall, UpdateCounts, UpdateReturns, ResumeCall, ResumeServers, ResumeReturns, NotifyAll
<1>3. /\ Unfinished' = Unfinished /\ Cancelled' = Cancelled /\ Queued' = Queued /\ Held' = Held
  BY <1>1, PlacesKept DEF Accounted, InPlaces
<1>4. InFlight' = InFlight /\ (Unfinished \cup Cancelled)' = Unfinished \cup Cancelled
  BY <1>3 DEF InFlight
<1>5. /\ staleness_samples \in Nat /\ counted \in Nat /\ MaxRequired \in Nat
      /\ Cardinality(InFlight) \in Nat /\ Cardinality(Unfinished \cup Cancelled) \in Nat
      /\ Cardinality(Queued) \in Nat /\ Len(queue) \in Nat /\ finished \in Nat
      /\ Cardinality(Unfinished) \in Nat /\ Len(cancel_queue) \in Nat
  <2>1. {InFlight, Unfinished \cup Cancelled, Queued, Unfinished} \subseteq SUBSET Samples
    BY FlightTypes, PlaceTypes DEF FlightShape, PlaceShape
  <2>2. /\ Cardinality(InFlight) \in Nat /\ Cardinality(Unfinished \cup Cancelled) \in Nat
        /\ Cardinality(Queued) \in Nat /\ Cardinality(Unfinished) \in Nat
    BY <2>1, SampleSets
  <2>3. Len(queue) \in Nat /\ Len(cancel_queue) \in Nat
    BY PlaceTypes, LenProperties DEF PlaceShape
  <2> QED
    BY <2>2, <2>3, FlightTypes, ConstantTypes, TypedParts DEF FlightShape, DoneOK
<1>6. /\ Cardinality(Unfinished \cup Cancelled) = Cardinality(Unfinished) + Len(cancel_queue)
      /\ Cardinality(Queued) <= Len(queue)
  BY CountInFlight DEF Accounted, InPlaces
<1>7. CASE UpdateCounts
  <2>1. /\ lock' = "update" /\ counted' = CountOutstanding /\ UNCHANGED <<staleness_samples, proc>>
    BY <1>7 DEF UpdateCounts, Holds, KeepLock
  <2>2. Cardinality(Unfinished \cup Cancelled) <= CountOutstanding
    BY <1>5, <1>6 DEF CountOutstanding, ActiveTasks
  <2> QED
    BY <1>4, <2>1, <2>2 DEF Bounded
<1>8. CASE UpdateReturns
  <2>1. /\ update = "counting" /\ update' = "returned" /\ staleness_samples' = counted + Len(queue)
        /\ UNCHANGED proc
    BY <1>8 DEF UpdateReturns
  <2>2. Cardinality(InFlight) <= Cardinality(Unfinished \cup Cancelled) + Cardinality(Queued) + 1
    <3> DEFINE ahead == Unfinished \cup Cancelled
               flight == ahead \cup Queued
    <3>1. ahead \in SUBSET Samples /\ Queued \in SUBSET Samples /\ flight \in SUBSET Samples
      BY FlightTypes, PlaceTypes DEF FlightShape, PlaceShape
    <3>2. InFlight = flight \cup Held
      BY DEF InFlight
    <3>3. ahead \cap Queued = {}
      BY <3>1 DEF Accounted, InPlaces, OnePlace, Apart
    <3> HIDE DEF ahead
    <3>4. Cardinality(flight) = Cardinality(ahead) + Cardinality(Queued)
      BY <3>1, <3>3, SampleSets, DisjointUnion
    <3> HIDE DEF flight
    <3>5. CASE Held = {}
      BY <1>5, <3>2, <3>4, <3>5 DEF ahead
    <3>6. CASE Held # {}
      <4>1. PICK s \in Samples : Held = {s}
        BY <3>6 DEF Held
      <4>2. Cardinality(flight \cup {s}) <= Cardinality(flight) + 1
        BY <3>1, SampleSets
      <4>3. InFlight = flight \cup {s}
        BY <3>2, <4>1
      <4> QED
        BY <1>5, <3>4, <4>2, <4>3 DEF ahead
    <3> QED
      BY <3>5, <3>6
  <2>3. Cardinality(Unfinished \cup Cancelled) <= counted
    BY <2>1 DEF Bounded
  <2>4. Cardinality(InFlight) <= counted + Len(queue) + 1
    BY <1>5, <1>6, <2>2, <2>3
  <2> QED
    BY <1>4, <1>5, <2>1, <2>4 DEF Bounded
<1>9. CASE ~UpdateCounts /\ ~UpdateReturns
  <2>1. UNCHANGED <<staleness_samples, counted>> /\ (update' = "counting" => update = "counting")
    BY <1>9 DEF CallStep, PauseCall, PauseLocked, PauseCancelled, PauseGathered, PauseReturns,
       UpdateCall, ResumeCall, ResumeServers, ResumeReturns
  <2>2. lock = "update" => lock' = "update"
    <3>1. CASE PauseCall \/ UpdateCall \/ ResumeCall
      BY <3>1, OwnedLock DEF PauseCall, UpdateCall, ResumeCall
    <3>2. CASE PauseLocked \/ PauseCancelled \/ PauseGathered \/ PauseReturns
      BY <3>2 DEF PauseLocked, PauseCancelled, PauseGathered, PauseReturns, Holds
    <3>3. CASE ResumeServers \/ ResumeReturns
      BY <3>3 DEF ResumeServers, ResumeReturns, Holds
    <3> QED
      BY <1>9, <3>1, <3>2, <3>3 DEF CallStep
  <2> QED
    BY <1>1, <1>2, <2>1, <2>2, BoundFrame
<1> QED
  BY <1>7, <1>8, <1>9

LEMMA BoundedStep == ASSUME Typed, Typed', Accounted, Bounded, [Next]_vars PROVE Bounded'
<1>1. CASE FeedStep
  BY <1>1, BoundFrame DEF FeedStep, FeedSample, FeedDone, FeedBlocks, KeepLock, procVars, taskVars,
     callVars, genVars, flagVars, mqVars
<1>2. CASE MonitorStep
  <2>1. UNCHANGED <<task, cancel_queue, queue, held, staleness_samples, counted, update>>
    BY <1>2 DEF MonitorStep, MonitorTop, MonitorCheckRunning, MonitorTick, MonitorRecover,
       MonitorFrame, taskVars, genVars, callVars, mqVars
  <2>2. proc' = "get" => proc = "get"
    BY <1>2, Zenon DEF MonitorStep, MonitorTop, MonitorCheckRunning, MonitorTick, MonitorRecover,
       NotifyAll
  <2>3. lock = "update" => lock' = "update"
    <3>1. CASE MonitorTop \/ MonitorTick
      BY <3>1, OwnedLock DEF MonitorTop, MonitorTick
    <3> QED
      BY <1>2, <3>1 DEF MonitorStep, MonitorCheckRunning, MonitorRecover, Holds
  <2> QED
    BY <2>1, <2>2, <2>3, BoundFrame
<1>3. CASE Terminated \/ UNCHANGED vars
  BY <1>3, BoundFrame DEF Terminated, vars, loopVars, procVars, taskVars, callVars, genVars, flagVars,
     mqVars
<1> QED
  BY <1>1, <1>2, <1>3, ProcessorBound, TaskBound, TrainerBound, MainBound, CallBound DEF Next

LEMMA InitialBound == Init => Bounded
<1> SUFFICES ASSUME Init PROVE Bounded
  OBVIOUS
<1>1. /\ cancel_queue = << >> /\ queue = << >> /\ held = -1
      /\ task = [s \in Samples |-> "none"] /\ staleness_samples = 0 /\ proc = "loop"
      /\ update = "none"
  BY DEF Init, MQ!Init
<1>2. InFlight = {}
  <2>1. SeqElements(<< >>) = {}
    BY Len(<< >>) = 0 DEF SeqElements
  <2> QED
    BY <1>1, <2>1 DEF InFlight, Held, Unfinished, Cancelled, Queued, Samples
<1> QED
  BY <1>1, <1>2, FS_EmptySet, ConstantTypes DEF Bounded

\* Whatever pauses, cancellations and recounts do, no more than max_required_samples
\* and the one sample the recount does not see is generated ahead of the trainer.
THEOREM AsyncOutstandingBound == Spec => []OutstandingBound
<1>1. Typed /\ Accounted /\ Bounded => OutstandingBound
  BY CountInFlight DEF Accounted, InPlaces, Bounded, OutstandingBound
<1>2. Typed /\ Accounted /\ Bounded /\ [Next]_vars => Typed' /\ Accounted' /\ Bounded'
  BY TypedStep, AccountedStep, BoundedStep
<1> QED
  BY <1>1, <1>2, InitialTypes, InitialPlaces, InitialBound, PTL DEF Spec
-----------------------------------------------------------------------------
(* Why the processor survives its first wait.                              *)

\* Until the processor has waited for a task for the first time, nothing has come
\* back from a task: the trainer collects from an empty queue, and has made no call.
NothingBack ==
    /\ finished = 0 /\ cancel_queue = << >> /\ queue = << >> /\ waitq = << >>
    /\ trainer = "collect" /\ main = "streaming"
    /\ pause = "none" /\ update = "none" /\ resume = "none"

\* pending_queue still brings the processor to a wait, when it submits n samples
\* more without suspending: by the end marker, or by the concurrency limit.
Enough(n) ==
    \/ pending_queue # << >> /\ pending_queue[Len(pending_queue)] = DONE
    \/ Len(pending_queue) + Cardinality(Unfinished) + n >= PendingCapacity

\* Nothing is taken yet.  The feeder, once it runs, runs until the queue is full or
\* the end marker is in it, and the monitor returns the lock before it suspends.
BeforeFirst ==
    /\ NothingBack /\ proc \in {"loop", "get"} /\ ~paused /\ staleness_samples = 0
    /\ Unfinished = {}
    /\ lock \in {Nobody, "monitor"}
    /\ lock = "monitor" => cur = "monitor" /\ monitor \in {"check_running", "recover"}
    /\ pending_queue # << >> => Head(pending_queue) \in Samples
    /\ feed # "feeding" => pending_queue # << >>
    /\ cur # "feed" /\ pending_queue # << >> => Enough(0)

\* The processor submits its first samples and keeps the event loop while it does:
\* no task starts, and nobody takes the lock from it.
FirstBurst ==
    /\ NothingBack /\ cur = "proc"
    /\ proc \in {"loop", "get", "mark", "drain", "drain_locked", "submit"}
    /\ lock = IF proc \in {"mark", "drain_locked", "submit"} THEN "proc" ELSE Nobody
    /\ paused => proc \in {"drain", "drain_locked"} /\ why = "pause"
    /\ Unfinished = {} => held \in Samples
    /\ proc = "drain_locked" => Unfinished # {}
    /\ Cardinality(Unfinished) <= MaxConcurrent
    /\ proc = "submit" => why = "limit" /\ Cardinality(Unfinished) < MaxConcurrent
    /\ proc \in {"loop", "get"} => Enough(0)
    /\ why = "limit" /\ proc \in {"drain", "drain_locked", "submit"} =>
           held \in Samples /\ Enough(1)

\* It waits for a task, with the lock.
FirstWaiting == proc = "drain_wait" /\ lock = "proc"

FirstWait == ~done_bound => BeforeFirst \/ FirstBurst \/ FirstWaiting

\* Only a failed generation is raised by the wait.
RaisedFailed == raised <= failures /\ ProcessorSurvives

LEMMA ConcurrencyTypes ==
    MaxConcurrent \in Nat /\ MaxConcurrent > 0 /\ PendingCapacity \in Nat /\ PendingCapacity > 0
<1>1. {ServerSlots, PendingCapacity} \subseteq Nat \ {0}
  BY FullyAsyncAssumption
<1> QED
  BY <1>1, ConstantTypes DEF MaxConcurrent

\* Tasks in hand: none has finished.
LEMMA BurstTasks ==
    ASSUME Typed, NothingBack
    PROVE  /\ ActiveTasks = Cardinality(Unfinished) /\ Cardinality(Unfinished) \in Nat
           /\ Cardinality(Unfinished) > 0 <=> Unfinished # {}
           /\ Len(pending_queue) \in Nat
<1>1. Unfinished \in SUBSET Samples /\ finished = 0 /\ pending_queue \in Seq(Samples \cup {DONE})
  BY PlaceTypes DEF PlaceShape, NothingBack
<1>2. IsFiniteSet(Unfinished) /\ Cardinality(Unfinished) \in Nat
  BY <1>1, SampleSets
<1> QED
  BY <1>1, <1>2, FS_EmptySet, LenProperties DEF ActiveTasks

\* Nobody takes the lock from the processor that waits with it.
LEMMA WaitingStays ==
    ASSUME FirstWaiting, [Next]_vars, done_bound' = FALSE
    PROVE  FirstWaiting'
<1>1. CASE FeedStep
  BY <1>1 DEF FirstWaiting, FeedStep, FeedSample, FeedDone, FeedBlocks, KeepLock, procVars
<1>2. CASE ProcStep
  BY <1>2 DEF FirstWaiting, ProcStep, ProcLoop, ProcGet, ProcMarkPaused, ProcDrain, ProcDrainLocked,
     ProcDrainWait, ProcIdle, ProcWoken, ProcSubmit
<1>3. CASE MonitorStep
  BY <1>3 DEF FirstWaiting, MonitorStep, MonitorTop, MonitorCheckRunning, MonitorTick, MonitorRecover,
     Holds, Acquire, KeepLock, Nobody
<1>4. CASE MainStep
  BY <1>4 DEF FirstWaiting, MainStep, MainEndSignal, MainLock, MainStop, MainFrame, Holds, Acquire,
     loopVars, procVars, Nobody
<1>5. CASE CallStep
  BY <1>5 DEF FirstWaiting, CallStep, PauseCall, PauseLocked, PauseCancelled, PauseGathered,
     PauseReturns, UpdateCall, UpdateCounts, UpdateReturns, ResumeCall, ResumeServers, ResumeReturns,
     Holds, Acquire, Nobody
<1>6. CASE TrainerNext \/ Terminated \/ UNCHANGED vars
  BY <1>6 DEF FirstWaiting, TrainerNext, TrainerGet, TrainerStep, SyncCallPause, SyncPaused,
     SyncSendResume, TrainerLog, TrainerFinish, TrainFrame, Terminated, vars, loopVars, procVars
<1>7. ASSUME NEW s \in Samples, TaskStep(s) PROVE FirstWaiting'
  BY <1>7 DEF FirstWaiting, TaskStep, TaskStart, TaskComplete, TaskPut, TaskCancelled, TaskFails,
     TaskFrame, procVars
<1> QED
  BY <1>1, <1>2, <1>3, <1>4, <1>5, <1>6, <1>7 DEF Next

\* While nothing has come back, the trainer only looks at its empty queue.
LEMMA TrainerIdle ==
    ASSUME NothingBack, TrainerNext
    PROVE  /\ NothingBack'
           /\ UNCHANGED <<loopVars, feedVars, procVars, taskVars, genVars, flagVars>>
<1>1. TrainerGet
  BY DEF NothingBack, TrainerNext, TrainerStep, SyncCallPause, SyncPaused, SyncSendResume, TrainerLog,
     TrainerFinish
<1>2. queue' = queue
  BY <1>1 DEF NothingBack, TrainerGet, MQ!GetSample, MQ!WaitForSample, MQ!TakeSample, MQ!ReturnNone
<1>3. UNCHANGED <<trainer, callVars>> /\ TrainFrame
  BY <1>1, <1>2 DEF TrainerGet
<1> QED
  BY <1>2, <1>3 DEF NothingBack, TrainFrame, loopVars, genVars, doneVars, callVars

\* Enough depends on the pending queue and on the tasks.
LEMMA EnoughKept ==
    ASSUME NEW n, UNCHANGED <<pending_queue, Unfinished>>
    PROVE  Enough(n)' <=> Enough(n)
  BY DEF Enough

LEMMA UnfinishedKept == UNCHANGED task => Unfinished' = Unfinished
  BY DEF Unfinished

\* A sample taken from pending_queue is one that will be submitted.
LEMMA EnoughTaken ==
    ASSUME Typed, NothingBack, Enough(0), pending_queue # << >>, Head(pending_queue) # DONE,
           pending_queue' = Tail(pending_queue), Unfinished' = Unfinished
    PROVE  Enough(1)'
<1>1. /\ Len(pending_queue) \in Nat /\ Len(pending_queue) > 0 /\ Cardinality(Unfinished) \in Nat
      /\ Len(Tail(pending_queue)) = Len(pending_queue) - 1
      /\ \A i \in 1 .. Len(pending_queue) - 1 : Tail(pending_queue)[i] = pending_queue[i + 1]
      /\ Head(pending_queue) = pending_queue[1]
  <2>1. pending_queue \in Seq(Samples \cup {DONE})
    BY PlaceTypes DEF PlaceShape
  <2> QED
    BY <2>1, BurstTasks, HeadTailProperties, EmptySeq
<1>2. CASE pending_queue[Len(pending_queue)] = DONE
  <2> DEFINE n == Len(pending_queue) - 1
  <2>1. n \in Nat /\ n > 0 /\ n + 1 = Len(pending_queue)
    <3>1. Len(pending_queue) # 1
      BY <1>1, <1>2
    <3> QED
      BY <1>1, <3>1
  <2> HIDE DEF n
  <2>2. Tail(pending_queue)[n] = DONE /\ Len(Tail(pending_queue)) = n
    <3>1. n \in 1 .. Len(pending_queue) - 1 /\ Len(Tail(pending_queue)) = n
      BY <1>1, <2>1 DEF n
    <3>2. Tail(pending_queue)[n] = pending_queue[n + 1]
      BY <1>1, <3>1
    <3> QED
      BY <1>2, <2>1, <3>1, <3>2
  <2>3. Tail(pending_queue) # << >>
    BY <2>1, <2>2, Len(<< >>) = 0
  <2> QED
    BY <2>2, <2>3 DEF Enough
<1>3. CASE Len(pending_queue) + Cardinality(Unfinished) + 0 >= PendingCapacity
  <2>1. Len(pending_queue') = Len(pending_queue) - 1 /\ Cardinality(Unfinished') = Cardinality(Unfinished)
    BY <1>1
  <2>2. Len(pending_queue') + Cardinality(Unfinished') + 1 >= PendingCapacity
    BY <1>1, <1>3, <2>1, ConcurrencyTypes
  <2> QED
    BY <2>2 DEF Enough
<1> QED
  BY <1>2, <1>3 DEF Enough

\* Before the first sample: the feeder fills the queue, the monitor takes and
\* returns the lock, and the processor may be left waiting for a sample.
LEMMA BeforeFeed ==
    ASSUME Typed, BeforeFirst, FeedStep
    PROVE  BeforeFirst'
<1>1. /\ pending_queue \in Seq(Samples \cup {DONE}) /\ Len(pending_queue) \in Nat
      /\ Cardinality(Unfinished) = 0
  BY PlaceTypes, LenProperties, FS_EmptySet DEF PlaceShape, BeforeFirst
<1>2. /\ lock = Nobody
      /\ UNCHANGED <<lock, waitq, procVars, taskVars, callVars, trainer, finished, cancel_queue,
                     queue, main, paused, staleness_samples, Unfinished>>
  BY DEF BeforeFirst, FeedStep, FeedSample, FeedDone, FeedBlocks, Runs, Idle, KeepLock, genVars,
     doneVars, flagVars, mqVars, trainVars, taskVars, Unfinished
<1>3. NothingBack' /\ Unfinished' = {} /\ proc' \in {"loop", "get"} /\ lock' = Nobody /\ ~paused'
      /\ staleness_samples' = 0
  BY <1>2 DEF BeforeFirst, NothingBack, callVars, procVars
<1>4. ASSUME NEW x \in Samples \cup {DONE}
      PROVE  LET q == Append(pending_queue, x)
             IN  /\ q # << >> /\ Len(q) = Len(pending_queue) + 1 /\ q[Len(q)] = x
                 /\ Head(q) = IF pending_queue = << >> THEN x ELSE Head(pending_queue)
  <2> DEFINE q == Append(pending_queue, x)
  <2>1. /\ q \in Seq(Samples \cup {DONE}) /\ Len(q) = Len(pending_queue) + 1 /\ q # << >>
        /\ q[Len(q)] = x /\ \A i \in 1 .. Len(pending_queue) : q[i] = pending_queue[i]
    BY <1>1, AppendProperties
  <2>2. Head(q) = q[1]
    BY <2>1, HeadTailProperties
  <2>3. CASE pending_queue = << >>
    BY <2>1, <2>2, <2>3
  <2>4. CASE pending_queue # << >>
    <3>1. Head(pending_queue) = pending_queue[1] /\ 1 \in 1 .. Len(pending_queue)
      BY <1>1, <2>4, HeadTailProperties, EmptySeq
    <3> QED
      BY <2>1, <2>2, <2>4, <3>1
  <2> QED
    BY <2>1, <2>3, <2>4
<1>5. CASE FeedSample
  <2>1. fed + 1 \in Samples /\ pending_queue' = Append(pending_queue, fed + 1) /\ cur' = "feed"
    BY <1>5, ConstantTypes, TypedParts DEF FeedSample, FeedOK, FeedInv, Samples, KeepRunning
  <2>2. pending_queue' # << >> /\ Head(pending_queue') \in Samples
    BY <1>4, <2>1 DEF BeforeFirst
  <2> QED
    BY <1>3, <2>1, <2>2 DEF BeforeFirst, Nobody
<1>6. CASE FeedDone
  <2>1. pending_queue' = Append(pending_queue, DONE) /\ pending_queue # << >> /\ cur' = Idle
    BY <1>6 DEF FeedDone, BeforeFirst, Suspend
  <2>2. /\ pending_queue' # << >> /\ Head(pending_queue') \in Samples
        /\ pending_queue'[Len(pending_queue')] = DONE
    BY <1>4, <2>1 DEF BeforeFirst
  <2>3. Enough(0)'
    BY <2>2 DEF Enough
  <2> QED
    BY <1>3, <2>2, <2>3 DEF BeforeFirst, Nobody
<1>7. CASE FeedBlocks
  <2>1. UNCHANGED <<pending_queue, feed>> /\ Len(pending_queue) >= PendingCapacity
    BY <1>7 DEF FeedBlocks, genVars, feedVars
  <2>2. Enough(0)
    BY <1>1, <2>1, ConcurrencyTypes DEF Enough
  <2>3. Enough(0)'
    BY <1>2, <2>1, <2>2, EnoughKept
  <2> QED
    BY <1>3, <2>1, <2>3 DEF BeforeFirst, Nobody
<1> QED
  BY <1>5, <1>6, <1>7 DEF FeedStep

LEMMA BeforeMonitor == ASSUME Typed, BeforeFirst, MonitorStep PROVE BeforeFirst'
<1>1. /\ UNCHANGED <<why, held, done_bound, taskVars, callVars, trainer, genVars, feed, main, queue,
                     staleness_samples, Unfinished>>
      /\ Enough(0)' <=> Enough(0)
  <2>1. UNCHANGED <<why, held, done_bound, taskVars, callVars, trainer, genVars, feed, main, queue,
                    staleness_samples>>
    BY DEF MonitorStep, MonitorTop, MonitorCheckRunning, MonitorTick, MonitorRecover, MonitorFrame,
       trainVars, feedVars, mqVars
  <2>2. UNCHANGED <<pending_queue, Unfinished>>
    BY <2>1, UnfinishedKept DEF taskVars, genVars
  <2> QED
    BY <2>1, <2>2, EnoughKept
<1>2. ~paused' /\ proc' = proc
  <2>1. ~paused /\ proc # "idle_wait" /\ proc # "submit_wait"
    BY DEF BeforeFirst
  <2>2. ASSUME NotifyAll PROVE proc' = proc
    BY <2>1, <2>2 DEF NotifyAll
  <2> QED
    BY <2>1, <2>2 DEF MonitorStep, MonitorTop, MonitorCheckRunning, MonitorTick, MonitorRecover
<1>3. /\ waitq' = << >> /\ lock' \in {Nobody, "monitor"} /\ cur # "feed" /\ cur' # "feed"
      /\ lock' = "monitor" => cur' = "monitor" /\ monitor' \in {"check_running", "recover"}
  <2>1. cur # "feed" /\ waitq = << >>
    BY DEF MonitorStep, MonitorTop, MonitorCheckRunning, MonitorTick, MonitorRecover, Holds, Runs, Idle,
       BeforeFirst, NothingBack
  <2>2. CASE MonitorTop
    BY <2>1, <2>2 DEF MonitorTop, Acquire, BeforeFirst, KeepRunning
  <2>3. CASE MonitorCheckRunning
    BY <2>1, <2>3 DEF MonitorCheckRunning, Release, Suspend, Idle, Nobody
  <2>4. CASE MonitorTick
    BY <2>1, <2>4 DEF MonitorTick, Acquire, BeforeFirst, KeepRunning, KeepLock
  <2>5. CASE MonitorRecover
    BY <2>1, <2>5 DEF MonitorRecover, Release, KeepRunning, Nobody
  <2> QED
    BY <2>1, <2>2, <2>3, <2>4, <2>5 DEF MonitorStep
<1> QED
  BY <1>1, <1>2, <1>3 DEF BeforeFirst, NothingBack, callVars, genVars, doneVars

LEMMA BeforeProcessor ==
    ASSUME Typed, BeforeFirst, ProcStep
    PROVE  BeforeFirst' \/ FirstBurst'
<1>1. /\ pending_queue \in Seq(Samples \cup {DONE}) /\ Len(pending_queue) \in Nat
      /\ Cardinality(Unfinished) = 0
  BY PlaceTypes, LenProperties, FS_EmptySet DEF PlaceShape, BeforeFirst
<1>2. ProcLoop \/ ProcGet
  BY DEF ProcStep, ProcMarkPaused, ProcDrain, ProcDrainLocked, ProcDrainWait, ProcIdle, ProcWoken,
     ProcSubmit, BeforeFirst
<1>3. lock = Nobody /\ cur # "feed" /\ cancel_queue = << >>
  BY <1>2 DEF ProcLoop, ProcGet, Runs, Idle, BeforeFirst, NothingBack
<1>4. /\ UNCHANGED <<callVars, trainer, queue, main, feed, task, Unfinished>>
  BY <1>2, UnfinishedKept DEF ProcLoop, ProcGet, ProcFrame, feedVars, taskVars, trainVars, mqVars
<1>5. CASE ProcLoop
  <2>1. ~ShouldPause
    <3>1. queue = << >> /\ staleness_samples = 0 /\ Len(<< >>) = 0
      BY DEF BeforeFirst, NothingBack
    <3> QED
      BY <3>1, ConstantTypes DEF ShouldPause
  <2>2. /\ proc' = "get" /\ UNCHANGED <<lock, waitq, genVars, flagVars>>
        /\ cur' # "feed"
    BY <1>3, <1>5, <2>1 DEF ProcLoop, BeforeFirst, KeepLock, Idle
  <2>3. pending_queue' = pending_queue
    BY <2>2 DEF genVars
  <2>4. pending_queue' # << >> => Enough(0)'
    BY <1>3, <1>4, <2>3, EnoughKept DEF BeforeFirst
  <2> QED
    BY <1>3, <1>4, <2>2, <2>3, <2>4
       DEF BeforeFirst, NothingBack, genVars, doneVars, flagVars, callVars, Nobody
<1>6. CASE ProcGet
  <2>1. /\ pending_queue # << >> /\ held' = Head(pending_queue)
        /\ pending_queue' = Tail(pending_queue) /\ proc' = "drain" /\ cur' = "proc"
        /\ UNCHANGED <<lock, waitq, finished, cancel_queue, paused>>
        /\ why' = IF Head(pending_queue) = DONE THEN "done" ELSE "limit"
    BY <1>6 DEF ProcGet, KeepRunning, KeepLock, doneVars
  <2>2. held' \in Samples /\ why' = "limit"
    BY <2>1 DEF BeforeFirst, DONE, Samples
  <2>3. Enough(0)
    BY <1>3, <2>1 DEF BeforeFirst
  <2>4. Enough(1)'
    BY <1>4, <2>1, <2>2, <2>3, EnoughTaken DEF BeforeFirst
  <2>5. Cardinality(Unfinished') <= MaxConcurrent
    BY <1>1, <1>4, ConcurrencyTypes
  <2>6. NothingBack'
    BY <1>4, <2>1 DEF BeforeFirst, NothingBack, callVars
  <2>7. ~paused' /\ lock' = Nobody
    BY <1>3, <2>1 DEF BeforeFirst
  <2> QED
    BY <2>1, <2>2, <2>4, <2>5, <2>6, <2>7 DEF FirstBurst
<1> QED
  BY <1>2, <1>5, <1>6

LEMMA BeforeStep ==
    ASSUME Typed, BeforeFirst, [Next]_vars
    PROVE  BeforeFirst' \/ FirstBurst'
<1>1. /\ trainer = "collect" /\ main = "streaming" /\ pause = "none" /\ update = "none"
      /\ resume = "none" /\ proc \in {"loop", "get"}
      /\ \A s \in Samples : task[s] = "none"
  BY DEF BeforeFirst, NothingBack, Unfinished
<1>2. ~MainStep
  BY <1>1 DEF MainStep, MainEndSignal, MainLock, MainStop
<1>3. ~CallStep
  BY <1>1 DEF CallStep, PauseCall, PauseLocked, PauseCancelled, PauseGathered, PauseReturns,
     UpdateCall, UpdateCounts, UpdateReturns, ResumeCall, ResumeServers, ResumeReturns
<1>4. ~Terminated /\ \A s \in Samples : ~TaskStep(s)
  BY <1>1 DEF Terminated, TaskStep, TaskStart, TaskComplete, TaskPut, TaskCancelled, TaskFails
<1>5. ASSUME NothingBack', UNCHANGED <<loopVars, feedVars, procVars, taskVars, genVars, flagVars, monitor>>
      PROVE  BeforeFirst'
  <2>1. UNCHANGED <<pending_queue, Unfinished>>
    BY <1>5, UnfinishedKept DEF taskVars, genVars
  <2>2. Enough(0)' <=> Enough(0)
    BY <2>1, EnoughKept
  <2> QED
    BY <1>5, <2>1, <2>2 DEF BeforeFirst, loopVars, feedVars, procVars, flagVars
<1>6. CASE TrainerNext
  <2>1. UNCHANGED monitor
    BY <1>6 DEF TrainerNext, TrainerGet, TrainerStep, SyncCallPause, SyncPaused, SyncSendResume,
       TrainerLog, TrainerFinish, TrainFrame
  <2> QED
    BY <1>5, <1>6, <2>1, TrainerIdle DEF BeforeFirst
<1>7. CASE UNCHANGED vars
  <2>1. UNCHANGED <<loopVars, feedVars, procVars, taskVars, genVars, flagVars, monitor, callVars,
                    trainVars, main, mqVars>>
    BY <1>7 DEF vars
  <2>2. NothingBack'
    BY <2>1 DEF BeforeFirst, NothingBack, loopVars, genVars, doneVars, callVars, trainVars, mqVars
  <2> QED
    BY <1>5, <2>1, <2>2
<1> QED
  BY <1>2, <1>3, <1>4, <1>6, <1>7, BeforeFeed, BeforeMonitor, BeforeProcessor DEF Next

\* The first burst: only the processor runs.
LEMMA BurstProcessor ==
    ASSUME Typed, Accounted, FirstBurst, ProcStep, PendingCapacity > MaxConcurrent
    PROVE  FirstBurst' \/ FirstWaiting'
<1>1. /\ pending_queue \in Seq(Samples \cup {DONE}) /\ Len(pending_queue) \in Nat
      /\ ActiveTasks = Cardinality(Unfinished) /\ Cardinality(Unfinished) \in Nat
      /\ Cardinality(Unfinished) > 0 <=> Unfinished # {}
  BY PlaceTypes, BurstTasks DEF PlaceShape, FirstBurst
<1>2. /\ UNCHANGED <<callVars, trainer, queue, main>>
  BY DEF ProcStep, ProcLoop, ProcGet, ProcMarkPaused, ProcDrain, ProcDrainLocked,
     ProcDrainWait, ProcIdle, ProcWoken, ProcSubmit, ProcFrame, trainVars, mqVars
<1>3. held \in Samples => why = "limit" /\ proc \notin {"loop", "get", "mark"}
  BY DEF Accounted, HeldKept
<1>4. ASSUME UNCHANGED <<finished, cancel_queue>>, waitq' = << >> PROVE NothingBack'
  BY <1>2, <1>4 DEF FirstBurst, NothingBack, callVars
<1>5. waitq = << >>
  BY DEF FirstBurst, NothingBack
\* At the top of the loop some sample is submitted, and pending_queue has another entry.
<1>6. CASE ProcLoop
  <2>1. /\ proc = "loop" /\ ~paused /\ lock = Nobody /\ Enough(0) /\ cancel_queue = << >>
    BY <1>6 DEF ProcLoop, FirstBurst, NothingBack
  <2>2. pending_queue # << >>
    BY <1>1, <2>1, ConcurrencyTypes, Len(<< >>) = 0 DEF Enough, FirstBurst
  <2>3. UNCHANGED <<why, held, genVars, flagVars, task>>
    BY <1>6, <2>1 DEF ProcLoop, ProcFrame, taskVars
  <2>4. /\ cur' = "proc" /\ waitq' = << >>
        /\ \/ proc' = "mark" /\ lock' = "proc"
           \/ proc' = "get" /\ lock' = Nobody
    BY <1>5, <1>6, <2>1, <2>2 DEF ProcLoop, Acquire, KeepLock, KeepRunning
  <2>5. UNCHANGED <<pending_queue, finished, cancel_queue, paused, Unfinished>>
    BY <2>3, UnfinishedKept DEF genVars, doneVars, flagVars
  <2>6. Enough(0)'
    BY <2>1, <2>5, EnoughKept
  <2>7. NothingBack'
    BY <1>4, <2>4, <2>5
  <2> QED
    BY <2>1, <2>3, <2>4, <2>5, <2>6, <2>7 DEF FirstBurst, Nobody
<1>7. CASE ProcGet
  <2>1. /\ proc = "get" /\ pending_queue # << >> /\ held' = Head(pending_queue)
        /\ pending_queue' = Tail(pending_queue) /\ proc' = "drain" /\ cur' = "proc"
        /\ UNCHANGED <<lock, waitq, finished, cancel_queue, paused, task>>
        /\ why' = IF Head(pending_queue) = DONE THEN "done" ELSE "limit"
    BY <1>7 DEF ProcGet, KeepRunning, KeepLock, doneVars, ProcFrame, taskVars
  <2>2. /\ Enough(0) /\ ~paused /\ lock = Nobody /\ Unfinished # {}
        /\ Cardinality(Unfinished) <= MaxConcurrent
    BY <1>3, <2>1 DEF FirstBurst
  <2>3. Unfinished' = Unfinished
    BY <2>1, UnfinishedKept
  <2>4. why' = "limit" => held' \in Samples /\ Enough(1)'
    <3> SUFFICES ASSUME why' = "limit" PROVE held' \in Samples /\ Enough(1)'
      OBVIOUS
    <3>1. Head(pending_queue) # DONE /\ Head(pending_queue) \in Samples \cup {DONE}
      BY <1>1, <2>1, HeadTailProperties
    <3>2. Enough(1)'
      BY <2>1, <2>2, <2>3, <3>1, EnoughTaken DEF FirstBurst
    <3> QED
      BY <2>1, <3>1, <3>2
  <2>5. NothingBack'
    BY <1>4, <1>5, <2>1
  <2> QED
    BY <2>1, <2>2, <2>3, <2>4, <2>5 DEF FirstBurst
<1>8. CASE ProcMarkPaused
  <2>1. /\ proc = "mark" /\ proc' = "drain" /\ why' = "pause" /\ cur' = "proc" /\ waitq' = << >>
        /\ lock' = Nobody /\ UNCHANGED <<held, finished, cancel_queue, task>>
    BY <1>5, <1>8 DEF ProcMarkPaused, Release, KeepRunning, ProcFrame, genVars, doneVars, taskVars
  <2>2. Unfinished' = Unfinished /\ NothingBack'
    BY <1>4, <2>1, UnfinishedKept
  <2> QED
    BY <2>1, <2>2 DEF FirstBurst
<1>9. CASE ProcDrain
  <2>1. /\ proc = "drain" /\ lock = Nobody
        /\ UNCHANGED <<why, held, genVars, flagVars, task>>
    BY <1>9 DEF ProcDrain, FirstBurst, ProcFrame, taskVars
  <2>2. UNCHANGED <<pending_queue, finished, cancel_queue, paused, Unfinished>>
    BY <2>1, UnfinishedKept DEF genVars, doneVars, flagVars
  <2>3. KeepDraining => Unfinished # {}
    BY <1>1, ConcurrencyTypes DEF KeepDraining
  <2>4. ~KeepDraining => why = "limit" /\ Cardinality(Unfinished) < MaxConcurrent
    <3>1. CASE why = "limit"
      BY <1>1, <3>1, ConcurrencyTypes DEF KeepDraining
    <3>2. CASE why # "limit"
      <4>1. Unfinished # {}
        BY <1>3, <3>2 DEF FirstBurst
      <4> QED
        BY <1>1, <3>2, <4>1 DEF KeepDraining
    <3> QED
      BY <3>1, <3>2
  <2>5. /\ cur' = "proc" /\ waitq' = << >> /\ lock' = "proc"
        /\ \/ KeepDraining /\ proc' = "drain_locked"
           \/ ~KeepDraining /\ proc' = "submit"
    BY <1>5, <1>9, <2>1, <2>4 DEF ProcDrain, Acquire, KeepRunning
  <2>6. Enough(1)' <=> Enough(1)
    BY <2>2, EnoughKept
  <2>7. NothingBack'
    BY <1>4, <2>2, <2>5
  <2>8. why' = "limit" => held' \in Samples /\ Enough(1)'
    BY <2>1, <2>6 DEF FirstBurst
  <2>9. paused' => proc' = "drain_locked" /\ why' = "pause"
    BY <2>1, <2>2, <2>4, <2>5 DEF FirstBurst
  <2>10. /\ Unfinished' = {} => held' \in Samples
         /\ Cardinality(Unfinished') <= MaxConcurrent
    BY <2>1, <2>2 DEF FirstBurst
  <2>11. proc' = "drain_locked" => Unfinished' # {}
    BY <2>2, <2>3, <2>5
  <2>12. proc' = "submit" => why' = "limit" /\ Cardinality(Unfinished') < MaxConcurrent
    BY <2>1, <2>2, <2>4, <2>5
  <2> QED
    BY <2>5, <2>7, <2>8, <2>9, <2>10, <2>11, <2>12 DEF FirstBurst
<1>10. CASE ProcDrainLocked
  <2>1. ActiveTasks > 0 /\ lock = "proc"
    BY <1>1, <1>10 DEF ProcDrainLocked, FirstBurst
  <2>2. proc' = "drain_wait" /\ lock' = "proc"
    BY <1>1, <1>10, <2>1 DEF ProcDrainLocked, KeepLock
  <2> QED
    BY <2>2 DEF FirstWaiting
<1>11. CASE ProcSubmit
  <2>1. /\ proc = "submit" /\ ~paused /\ held \in Samples /\ Enough(1)
        /\ Cardinality(Unfinished) < MaxConcurrent
    BY <1>11 DEF ProcSubmit, FirstBurst
  <2>2. /\ task' = [task EXCEPT ![held] = "new"] /\ held' = -1 /\ proc' = "loop" /\ cur' = "proc"
        /\ lock' = Nobody /\ waitq' = << >> /\ UNCHANGED <<genVars, flagVars>>
    BY <1>5, <1>11, <2>1 DEF ProcSubmit, Release, KeepRunning
  <2>3. /\ task \in [Samples -> {"none", "new", "generating", "refused", "putting"}]
        /\ Unfinished \in SUBSET Samples
    BY PlaceTypes DEF PlaceShape
  <2>4. Unfinished' = Unfinished \cup {held} /\ held \notin Unfinished
    <3>1. Unfinished' = Unfinished \cup {held}
      BY <2>1, <2>2, <2>3 DEF Unfinished
    <3>2. held \notin Unfinished
      BY <2>1 DEF Accounted, InPlaces, OnePlace, Apart, Held
    <3> QED
      BY <3>1, <3>2
  <2>5. Cardinality(Unfinished') = Cardinality(Unfinished) + 1
    <3>1. IsFiniteSet(Unfinished)
      BY <2>3, SampleSets
    <3> QED
      BY <2>4, <3>1, FS_AddElement
  <2>6. UNCHANGED <<pending_queue, finished, cancel_queue, paused>>
    BY <2>2 DEF genVars, doneVars, flagVars
  <2>7. Enough(0)'
    <3>1. CASE pending_queue # << >> /\ pending_queue[Len(pending_queue)] = DONE
      BY <2>6, <3>1 DEF Enough
    <3>2. CASE Len(pending_queue) + Cardinality(Unfinished) + 1 >= PendingCapacity
      <4>1. Len(pending_queue') + Cardinality(Unfinished') + 0 >= PendingCapacity
        BY <1>1, <2>5, <2>6, <3>2, ConcurrencyTypes
      <4> QED
        BY <4>1 DEF Enough
    <3> QED
      BY <2>1, <3>1, <3>2 DEF Enough
  <2>8. NothingBack'
    BY <1>4, <2>2, <2>6
  <2>9. Unfinished' # {} /\ Cardinality(Unfinished') <= MaxConcurrent
    BY <1>1, <2>1, <2>4, <2>5, ConcurrencyTypes
  <2> QED
    BY <2>1, <2>2, <2>6, <2>7, <2>8, <2>9 DEF FirstBurst
<1> QED
  BY <1>6, <1>7, <1>8, <1>9, <1>10, <1>11
     DEF ProcStep, ProcDrainWait, ProcIdle, ProcWoken, FirstBurst

LEMMA BurstStep ==
    ASSUME Typed, Accounted, FirstBurst, [Next]_vars, PendingCapacity > MaxConcurrent
    PROVE  FirstBurst' \/ FirstWaiting'
<1>1. /\ trainer = "collect" /\ cur = "proc" /\ lock \in {"proc", Nobody}
      /\ pause = "none" /\ update = "none" /\ resume = "none"
  BY DEF FirstBurst, NothingBack
<1>2. ~FeedStep /\ ~MonitorStep
  BY <1>1 DEF FeedStep, FeedSample, FeedDone, FeedBlocks, MonitorStep, MonitorTop, MonitorCheckRunning,
     MonitorTick, MonitorRecover, Holds, Runs, Idle
<1>3. ~MainStep
  BY <1>1 DEF MainStep, MainEndSignal, MainLock, MainStop, Holds, Runs, Idle
<1>4. ~CallStep
  BY <1>1 DEF CallStep, PauseCall, PauseLocked, PauseCancelled, PauseGathered, PauseReturns,
     UpdateCall, UpdateCounts, UpdateReturns, ResumeCall, ResumeServers, ResumeReturns
<1>5. ~Terminated /\ \A s \in Samples : ~TaskStep(s)
  BY <1>1 DEF Terminated, TaskStep, TaskStart, TaskComplete, TaskPut, TaskCancelled, TaskFails, Idle
<1>6. ASSUME NothingBack', UNCHANGED <<loopVars, procVars, taskVars, genVars, flagVars>>
      PROVE  FirstBurst'
  <2>1. UNCHANGED <<pending_queue, Unfinished>>
    BY <1>6, UnfinishedKept DEF taskVars, genVars
  <2>2. (Enough(0)' <=> Enough(0)) /\ (Enough(1)' <=> Enough(1))
    BY <2>1, EnoughKept
  <2> QED
    BY <1>6, <2>1, <2>2 DEF FirstBurst, loopVars, procVars, flagVars
<1>7. CASE TrainerNext
  BY <1>6, <1>7, TrainerIdle DEF FirstBurst
<1>8. CASE UNCHANGED vars
  <2>1. UNCHANGED <<loopVars, procVars, taskVars, genVars, flagVars, callVars, trainVars, main, mqVars>>
    BY <1>8 DEF vars
  <2>2. NothingBack'
    BY <2>1 DEF FirstBurst, NothingBack, loopVars, genVars, doneVars, callVars, trainVars, mqVars
  <2> QED
    BY <1>6, <2>1, <2>2
<1> QED
  BY <1>2, <1>3, <1>4, <1>5, <1>7, <1>8, BurstProcessor DEF Next

LEMMA FirstWaitStep ==
    ASSUME Typed, Typed', Accounted, FirstWait, [Next]_vars, PendingCapacity > MaxConcurrent
    PROVE  FirstWait'
<1>1. done_bound => done_bound'
  BY DEF Next, FeedStep, FeedSample, FeedDone, FeedBlocks, ProcStep, ProcLoop, ProcGet, ProcMarkPaused,
     ProcDrain, ProcDrainLocked, ProcDrainWait, ProcIdle, ProcWoken, ProcSubmit, MonitorStep, MonitorTop,
     MonitorCheckRunning, MonitorTick, MonitorRecover, MonitorFrame, MainStep, MainEndSignal, MainLock,
     MainStop, MainFrame, CallStep, PauseCall, PauseLocked, PauseCancelled, PauseGathered, PauseReturns,
     UpdateCall, UpdateCounts, UpdateReturns, ResumeCall, ResumeServers, ResumeReturns, CallFrame,
     TrainerNext, TrainerGet, TrainerStep, SyncCallPause, SyncPaused, SyncSendResume, TrainerLog,
     TrainerFinish, TrainFrame, TaskStep, TaskStart, TaskComplete, TaskPut, TaskCancelled, TaskFails,
     TaskFrame, Terminated, vars, procVars
<1>2. done_bound' \in BOOLEAN
  BY DEF Typed, TypeOK
<1> QED
  BY <1>1, <1>2, WaitingStays, BeforeStep, BurstStep DEF FirstWait

LEMMA RaisedFailedStep ==
    ASSUME Typed, Typed', FirstWait, RaisedFailed, [Next]_vars
    PROVE  RaisedFailed'
<1>1. /\ raised \in Nat /\ failures \in Nat /\ raised <= failures /\ (proc = "dead" => failures > 0)
  BY TypedParts DEF DoneOK, RaisedFailed, ProcessorSurvives
<1>2. ASSUME UNCHANGED <<raised, failures>>, proc' = "dead" => proc = "dead" PROVE RaisedFailed'
  BY <1>1, <1>2 DEF RaisedFailed, ProcessorSurvives
<1>3. CASE FeedStep \/ MainStep \/ TrainerNext \/ Terminated \/ UNCHANGED vars
  BY <1>2, <1>3 DEF FeedStep, FeedSample, FeedDone, FeedBlocks, MainStep, MainEndSignal, MainLock,
     MainStop, MainFrame, TrainerNext, TrainerGet, TrainerStep, SyncCallPause, SyncPaused,
     SyncSendResume, TrainerLog, TrainerFinish, TrainFrame, Terminated, vars, procVars, taskVars,
     genVars, doneVars
\* With the lock and no task left, the processor is past its first wait.
<1>4. CASE ProcStep
  <2>1. CASE ProcDrainLocked
    <3>1. UNCHANGED <<raised, failures>>
      BY <2>1 DEF ProcDrainLocked, ProcFrame, taskVars, genVars, doneVars
    <3>2. ~done_bound => ActiveTasks # 0
      <4>1. ASSUME ~done_bound PROVE FirstBurst /\ Unfinished # {}
        BY <2>1, <4>1 DEF ProcDrainLocked, FirstWait, BeforeFirst, FirstBurst, FirstWaiting
      <4> QED
        BY <4>1, BurstTasks DEF FirstBurst
    <3>3. proc' # "dead"
      BY <2>1, <3>2 DEF ProcDrainLocked
    <3> QED
      BY <1>2, <3>1, <3>3
  <2>2. CASE ProcDrainWait
    BY <1>1, <2>2 DEF ProcDrainWait, ProcFrame, taskVars, RaisedFailed, ProcessorSurvives
  <2>3. CASE ProcLoop \/ ProcGet \/ ProcMarkPaused \/ ProcDrain \/ ProcIdle \/ ProcWoken \/ ProcSubmit
    BY <1>2, <2>3 DEF ProcLoop, ProcGet, ProcMarkPaused, ProcDrain, ProcIdle, ProcWoken, ProcSubmit,
       ProcFrame, taskVars, genVars, doneVars
  <2> QED
    BY <1>4, <2>1, <2>2, <2>3 DEF ProcStep
<1>5. ASSUME NotifyAll PROVE proc' = "dead" => proc = "dead"
  BY <1>5 DEF NotifyAll
<1>6. CASE MonitorStep
  <2>1. UNCHANGED <<raised, failures>>
    BY <1>6 DEF MonitorStep, MonitorTop, MonitorCheckRunning, MonitorTick, MonitorRecover, MonitorFrame,
       taskVars, genVars, doneVars
  <2>2. proc' = proc \/ NotifyAll
    BY <1>6 DEF MonitorStep, MonitorTop, MonitorCheckRunning, MonitorTick, MonitorRecover
  <2> QED
    BY <1>2, <1>5, <2>1, <2>2
<1>7. CASE CallStep
  <2>1. failures' = failures /\ (proc' = proc \/ NotifyAll)
    BY <1>7 DEF CallStep, PauseCall, PauseLocked, PauseCancelled, PauseGathered, PauseReturns,
       UpdateCall, UpdateCounts, UpdateReturns, ResumeCall, ResumeServers, ResumeReturns, CallFrame,
       taskVars
  <2>2. raised' \in {raised, 0}
    BY <1>7 DEF CallStep, PauseCall, PauseLocked, PauseCancelled, PauseGathered, PauseReturns,
       UpdateCall, UpdateCounts, UpdateReturns, ResumeCall, ResumeServers, ResumeReturns, doneVars
  <2>3. proc' = "dead" => proc = "dead"
    BY <1>5, <2>1
  <2> QED
    BY <1>1, <2>1, <2>2, <2>3 DEF RaisedFailed, ProcessorSurvives
<1>8. ASSUME NEW s \in Samples, TaskStep(s) PROVE RaisedFailed'
  <2>1. proc' = proc /\ \/ UNCHANGED <<raised, failures>>
                        \/ raised' = raised + 1 /\ failures' = failures + 1
    BY <1>8 DEF TaskStep, TaskStart, TaskComplete, TaskPut, TaskCancelled, TaskFails, TaskFrame, doneVars,
       procVars
  <2> QED
    BY <1>1, <2>1 DEF RaisedFailed, ProcessorSurvives
<1> QED
  BY <1>3, <1>4, <1>6, <1>7, <1>8 DEF Next

LEMMA InitialWait == Init => FirstWait /\ RaisedFailed
<1> SUFFICES ASSUME Init PROVE FirstWait /\ RaisedFailed
  OBVIOUS
<1>1. NothingBack
  BY DEF Init, NothingBack, MQ!Init
<1>2. Unfinished = {}
  BY DEF Init, Unfinished
<1>3. BeforeFirst
  BY <1>1, <1>2 DEF Init, BeforeFirst, Nobody
<1> QED
  BY <1>3 DEF Init, FirstWait, RaisedFailed, ProcessorSurvives

\* With a pending_queue deeper than the concurrency limit, the processor dies only
\* of a sample whose generation raised, never of an empty active_tasks.
THEOREM AsyncProcessorSurvives ==
    PendingCapacity > MaxConcurrent => (Spec => []ProcessorSurvives)
<1> SUFFICES ASSUME PendingCapacity > MaxConcurrent PROVE Spec => []ProcessorSurvives
  OBVIOUS
<1>1. Typed /\ Accounted /\ FirstWait /\ RaisedFailed /\ [Next]_vars
      => Typed' /\ Accounted' /\ FirstWait' /\ RaisedFailed'
  BY TypedStep, AccountedStep, FirstWaitStep, RaisedFailedStep
<1>2. RaisedFailed => ProcessorSurvives
  BY DEF RaisedFailed
<1> QED
  BY <1>1, <1>2, InitialTypes, InitialPlaces, InitialWait, PTL DEF Spec
=============================================================================
