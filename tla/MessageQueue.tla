---------------------------- MODULE MessageQueue ----------------------------
(***************************************************************************)
(* The Ray actor of fully_async_policy/message_queue.py that carries       *)
(* finished samples from the rollouter to the trainer.  Every method runs  *)
(* under the actor's asyncio lock, so each is one step; only get_sample     *)
(* suspends, on the condition that shares that lock.                       *)
(***************************************************************************)
EXTENDS Integers, Sequences, FiniteSets

CONSTANTS
    Consumers,   \* callers of get_sample
    Samples,     \* values that can be put
    Versions,    \* parameter versions
    Capacity,    \* max_queue_size
    NoSample     \* what a caller of get_sample holds before it returns

ASSUME QueueAssumption ==
    Capacity \in Nat \ {0} /\ Versions \subseteq Nat /\ NoSample \notin Samples

VARIABLES
    queue,            \* the bounded deque
    open,             \* self.running
    total_produced,
    total_consumed,
    dropped_samples,
    cleared,          \* ghost: samples removed by clear_queue
    mq_version,       \* self.current_param_version
    val_queue,        \* the unbounded deque of validation records
    caller,           \* [Consumers -> "idle", "waiting" or "notified"]
    got               \* [Consumers -> last sample get_sample returned]

counters == <<total_produced, total_consumed, dropped_samples, cleared>>
mqVars == <<queue, open, counters, mq_version, val_queue, caller, got>>

Init ==
    /\ queue = << >> /\ open = TRUE
    /\ total_produced = 0 /\ total_consumed = 0
    /\ dropped_samples = 0 /\ cleared = 0
    /\ mq_version = 0 /\ val_queue = << >>
    /\ caller = [c \in Consumers |-> "idle"]
    /\ got = [c \in Consumers |-> NoSample]

\* _consumer_condition.notify_all()
NotifyAll == [c \in Consumers |-> IF caller[c] = "waiting" THEN "notified" ELSE caller[c]]

\* A full queue loses its oldest sample; the new one is always queued.
Full == Len(queue) >= Capacity

\* Mutant: a dropped sample is not counted.
PutSampleUncounted(x) ==
    /\ queue' = Append(IF Full THEN Tail(queue) ELSE queue, x)
    /\ total_produced' = total_produced + 1
    /\ caller' = NotifyAll
    /\ UNCHANGED <<open, total_consumed, dropped_samples, cleared, mq_version,
                   val_queue, got>>

PutSample(x) ==
    /\ queue' = Append(IF Full THEN Tail(queue) ELSE queue, x)
    /\ dropped_samples' = IF Full THEN dropped_samples + 1 ELSE dropped_samples
    /\ total_produced' = total_produced + 1
    /\ caller' = NotifyAll
    /\ UNCHANGED <<open, total_consumed, cleared, mq_version, val_queue, got>>

\* get_sample with the lock: the first call, or a caller that was notified and
\* looks again.
Runnable(c) == caller[c] \in {"idle", "notified"}

WaitForSample(c) ==
    /\ Runnable(c) /\ queue = << >> /\ open
    /\ caller' = [caller EXCEPT ![c] = "waiting"]
    /\ UNCHANGED <<queue, open, counters, mq_version, val_queue, got>>

TakeSample(c) ==
    /\ Runnable(c) /\ queue # << >>
    /\ got' = [got EXCEPT ![c] = Head(queue)] /\ queue' = Tail(queue)
    /\ total_consumed' = total_consumed + 1
    /\ caller' = [caller EXCEPT ![c] = "idle"]
    /\ UNCHANGED <<open, total_produced, dropped_samples, cleared, mq_version, val_queue>>

\* Closed and empty: the caller gets None.
ReturnNone(c) ==
    /\ Runnable(c) /\ queue = << >> /\ ~open
    /\ caller' = [caller EXCEPT ![c] = "idle"]
    /\ got' = [got EXCEPT ![c] = NoSample]
    /\ UNCHANGED <<queue, open, counters, mq_version, val_queue>>

GetSample(c) == WaitForSample(c) \/ TakeSample(c) \/ ReturnNone(c)

UpdateParamVersion(v) ==
    /\ mq_version' = v
    /\ UNCHANGED <<queue, open, counters, val_queue, caller, got>>

ClearQueue ==
    /\ queue' = << >> /\ cleared' = cleared + Len(queue)
    /\ UNCHANGED <<open, total_produced, total_consumed, dropped_samples,
                   mq_version, val_queue, caller, got>>

\* Mutant: shutdown does not wake the waiting callers.
ShutdownSilent ==
    /\ open' = FALSE
    /\ UNCHANGED <<queue, counters, mq_version, val_queue, caller, got>>

Shutdown ==
    /\ open' = FALSE /\ caller' = NotifyAll
    /\ UNCHANGED <<queue, counters, mq_version, val_queue, got>>

PutValidate(v) ==
    /\ val_queue' = Append(val_queue, v)
    /\ UNCHANGED <<queue, open, counters, mq_version, caller, got>>

GetValidate ==
    /\ val_queue' = IF val_queue = << >> THEN << >> ELSE Tail(val_queue)
    /\ UNCHANGED <<queue, open, counters, mq_version, caller, got>>

Next ==
    \/ \E x \in Samples : PutSample(x)
    \/ \E c \in Consumers : GetSample(c)
    \/ \E v \in Versions : UpdateParamVersion(v) \/ PutValidate(v)
    \/ ClearQueue \/ Shutdown \/ GetValidate

Spec == Init /\ [][Next]_mqVars
-----------------------------------------------------------------------------
\* Types of the state.
TypeOK ==
    /\ queue \in Seq(Samples) /\ open \in BOOLEAN
    /\ total_produced \in Nat /\ total_consumed \in Nat
    /\ dropped_samples \in Nat /\ cleared \in Nat
    /\ mq_version \in Nat /\ val_queue \in Seq(Nat)
    /\ caller \in [Consumers -> {"idle", "waiting", "notified"}]
    /\ got \in [Consumers -> Samples \cup {NoSample}]

\* The statistics the rollouter steers by add up: every sample ever put was
\* handed out, dropped when the queue was full, cleared, or is still queued, and
\* the queue never outgrows max_queue_size.
Accounting ==
    /\ total_produced = total_consumed + dropped_samples + cleared + Len(queue)
    /\ Len(queue) <= Capacity

\* No lost wake-up: while a sample is queued, or after shutdown, no caller of
\* get_sample is left asleep on the condition without a notification.
NoLostWakeup == queue # << >> \/ ~open => \A c \in Consumers : caller[c] # "waiting"
=============================================================================
