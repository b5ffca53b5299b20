------------------------- MODULE MessageQueueProofs -------------------------
(* Theorems about MessageQueue, for every number of consumers, every set of *)
(* samples and every capacity.                                             *)
EXTENDS MessageQueue, SequenceTheorems, TLAPS

\* The sample sequence after a put or a get is a sequence of samples.
LEMMA QueueOps ==
    ASSUME NEW q \in Seq(Samples)
    PROVE  /\ \A x \in Samples : Append(q, x) \in Seq(Samples) /\ Len(Append(q, x)) = Len(q) + 1
           /\ q # << >> => /\ Tail(q) \in Seq(Samples) /\ Len(Tail(q)) = Len(q) - 1
                           /\ Head(q) \in Samples /\ Len(q) > 0
           /\ Len(q) \in Nat /\ (Len(q) = 0 <=> q = << >>)
<1>1. \A x \in Samples : Append(q, x) \in Seq(Samples) /\ Len(Append(q, x)) = Len(q) + 1
  OBVIOUS
<1>2. Len(q) \in Nat /\ (Len(q) = 0 <=> q = << >>)
  BY EmptySeq
<1>3. ASSUME q # << >>
      PROVE  /\ Tail(q) \in Seq(Samples) /\ Len(Tail(q)) = Len(q) - 1
             /\ Head(q) \in Samples /\ Len(q) > 0
  BY <1>3, HeadTailProperties, <1>2
<1> QED
  BY <1>1, <1>2, <1>3

\* The state of the queue keeps its types.
THEOREM QueueTypes == Spec => []TypeOK
<1>1. Init => TypeOK
  BY QueueAssumption DEF Init, TypeOK
<1>2. TypeOK /\ [Next]_mqVars => TypeOK'
  <2> SUFFICES ASSUME TypeOK, [Next]_mqVars PROVE TypeOK'
    OBVIOUS
  <2> USE QueueAssumption DEF TypeOK
  <2>1. ASSUME NEW x \in Samples, PutSample(x) PROVE TypeOK'
    <3>1. queue' \in Seq(Samples)
      BY <2>1, QueueOps DEF PutSample, Full
    <3>2. caller' \in [Consumers -> {"idle", "waiting", "notified"}]
      BY <2>1 DEF PutSample, NotifyAll
    <3>3. dropped_samples' \in Nat /\ total_produced' \in Nat
      BY <2>1 DEF PutSample
    <3> QED
      BY <2>1, <3>1, <3>2, <3>3 DEF PutSample
  <2>2. ASSUME NEW c \in Consumers, GetSample(c) PROVE TypeOK'
    <3>1. CASE WaitForSample(c)
      BY <3>1 DEF WaitForSample, counters
    <3>2. CASE TakeSample(c)
      BY <3>2, QueueOps DEF TakeSample
    <3>3. CASE ReturnNone(c)
      BY <3>3 DEF ReturnNone, counters
    <3> QED
      BY <2>2, <3>1, <3>2, <3>3 DEF GetSample
  <2>3. ASSUME NEW v \in Versions, UpdateParamVersion(v) \/ PutValidate(v) PROVE TypeOK'
    <3>1. v \in Nat
      OBVIOUS
    <3>2. CASE UpdateParamVersion(v)
      BY <3>1, <3>2 DEF UpdateParamVersion, counters
    <3>3. CASE PutValidate(v)
      BY <3>1, <3>3 DEF PutValidate, counters
    <3> QED
      BY <2>3, <3>2, <3>3
  <2>4. CASE ClearQueue
    BY <2>4, QueueOps DEF ClearQueue
  <2>5. CASE Shutdown
    BY <2>5 DEF Shutdown, NotifyAll, counters
  <2>6. CASE GetValidate
    BY <2>6, HeadTailProperties DEF GetValidate, counters
  <2>7. CASE UNCHANGED mqVars
    BY <2>7 DEF mqVars, counters
  <2> QED
    BY <2>1, <2>2, <2>3, <2>4, <2>5, <2>6, <2>7 DEF Next
<1> QED
  BY <1>1, <1>2, PTL DEF Spec

\* Every sample put was handed out, dropped, cleared or is still queued, and the
\* queue is never longer than max_queue_size, whatever the callers do.
THEOREM QueueAccounting == Spec => []Accounting
<1>1. Init => Accounting
  BY QueueAssumption, EmptySeq DEF Init, Accounting
<1>2. TypeOK /\ Accounting /\ [Next]_mqVars => Accounting'
  <2> SUFFICES ASSUME TypeOK, Accounting, [Next]_mqVars PROVE Accounting'
    OBVIOUS
  <2> USE QueueAssumption DEF TypeOK, Accounting
  <2>1. ASSUME NEW x \in Samples, PutSample(x) PROVE Accounting'
    <3>1. CASE Full
      <4>1. queue # << >> /\ Len(queue) = Capacity
        BY <3>1, QueueOps DEF Full
      <4>2. Tail(queue) \in Seq(Samples) /\ Len(Tail(queue)) = Len(queue) - 1
        BY <4>1, QueueOps
      <4>3. Len(queue') = Len(queue)
        BY <2>1, <3>1, <4>2, QueueOps DEF PutSample
      <4>4. total_produced' = total_produced + 1 /\ dropped_samples' = dropped_samples + 1
            /\ total_consumed' = total_consumed /\ cleared' = cleared
        BY <2>1, <3>1 DEF PutSample, counters
      <4>5. Len(queue) \in Nat
        BY QueueOps
      <4>6. total_produced' = total_consumed' + dropped_samples' + cleared' + Len(queue')
        BY <4>3, <4>4, <4>5, SMT
      <4>7. Len(queue') <= Capacity
        BY <4>1, <4>3, <4>5
      <4> QED
        BY <4>6, <4>7
    <3>2. CASE ~Full
      BY <2>1, <3>2, QueueOps DEF PutSample, Full
    <3> QED
      BY <3>1, <3>2
  <2>2. ASSUME NEW c \in Consumers, GetSample(c) PROVE Accounting'
    <3>1. CASE WaitForSample(c)
      BY <3>1 DEF WaitForSample, counters
    <3>2. CASE TakeSample(c)
      BY <3>2, QueueOps DEF TakeSample
    <3>3. CASE ReturnNone(c)
      BY <3>3 DEF ReturnNone, counters
    <3> QED
      BY <2>2, <3>1, <3>2, <3>3 DEF GetSample
  <2>3. ASSUME NEW v \in Versions, UpdateParamVersion(v) \/ PutValidate(v) PROVE Accounting'
    BY <2>3 DEF UpdateParamVersion, PutValidate, counters
  <2>4. CASE ClearQueue
    BY <2>4, QueueOps, EmptySeq DEF ClearQueue
  <2>5. CASE Shutdown
    BY <2>5 DEF Shutdown, counters
  <2>6. CASE GetValidate
    BY <2>6 DEF GetValidate, counters
  <2>7. CASE UNCHANGED mqVars
    BY <2>7 DEF mqVars, counters
  <2> QED
    BY <2>1, <2>2, <2>3, <2>4, <2>5, <2>6, <2>7 DEF Next
<1> QED
  BY <1>1, <1>2, QueueTypes, PTL DEF Spec

\* No caller of get_sample sleeps without a notification while a sample is queued
\* or after shutdown: the notification of put_sample and shutdown reaches every
\* caller that waits, and a caller waits again only after it has looked.
THEOREM QueueWakesCallers == Spec => []NoLostWakeup
<1>1. Init => NoLostWakeup
  BY DEF Init, NoLostWakeup
<1>2. TypeOK /\ NoLostWakeup /\ [Next]_mqVars => NoLostWakeup'
  <2> SUFFICES ASSUME TypeOK, NoLostWakeup, [Next]_mqVars PROVE NoLostWakeup'
    OBVIOUS
  <2> USE DEF TypeOK, NoLostWakeup
  <2>1. ASSUME NEW x \in Samples, PutSample(x) PROVE NoLostWakeup'
    BY <2>1 DEF PutSample, NotifyAll
  <2>2. ASSUME NEW c \in Consumers, GetSample(c) PROVE NoLostWakeup'
    <3>1. CASE WaitForSample(c)
      BY <3>1 DEF WaitForSample
    <3>2. CASE TakeSample(c)
      BY <3>2 DEF TakeSample
    <3>3. CASE ReturnNone(c)
      BY <3>3 DEF ReturnNone
    <3> QED
      BY <2>2, <3>1, <3>2, <3>3 DEF GetSample
  <2>3. ASSUME NEW v \in Versions, UpdateParamVersion(v) \/ PutValidate(v) PROVE NoLostWakeup'
    BY <2>3 DEF UpdateParamVersion, PutValidate
  <2>4. CASE ClearQueue
    BY <2>4 DEF ClearQueue
  <2>5. CASE Shutdown
    BY <2>5 DEF Shutdown, NotifyAll
  <2>6. CASE GetValidate
    BY <2>6 DEF GetValidate
  <2>7. CASE UNCHANGED mqVars
    BY <2>7 DEF mqVars
  <2> QED
    BY <2>1, <2>2, <2>3, <2>4, <2>5, <2>6, <2>7 DEF Next
<1> QED
  BY <1>1, <1>2, QueueTypes, PTL DEF Spec
=============================================================================
