----------------------------- MODULE FullyAsync -----------------------------
(***************************************************************************)
(* The fully asynchronous policy trainer: FullyAsyncRollouter (the feeder, *)
(* processor, monitor and sample tasks on one asyncio event loop, and the  *)
(* pause, update_param_version and resume calls that arrive on it),        *)
(* ParameterSynchronizer, FullyAsyncTrainer and, as an instance, the        *)
(* MessageQueue between them.                                              *)
(*                                                                         *)
(* cur is the coroutine the rollouter's event loop is running: a coroutine *)
(* keeps the loop until it suspends (cur = Idle), which is what makes a    *)
(* run of statements without a real suspension atomic.  self.lock is an    *)
(* asyncio.Lock, which hands itself to its waiters in arrival order.       *)
(* The trainer and the queue are other processes and interleave freely.    *)
(***************************************************************************)
EXTENDS Integers, Sequences, FiniteSets

CONSTANTS
    TotalRolloutSteps,   \* samples the feeder adds before "DONE"
    RequiredSamples,     \* samples of one training step
    TriggerSteps,        \* config.trigger_parameter_sync_step
    StalenessPercent,    \* staleness_threshold, in percent
    ServerSlots,         \* 16 requests per rollout server
    PendingCapacity,     \* pending_queue's maxsize
    TestFreq,            \* config.rollout.test_freq
    PartialRollouts,     \* the values config.partial_rollout may have
    MaxTaskFailures      \* bound: samples whose generation raises

ASSUME FullyAsyncAssumption ==
    /\ {TotalRolloutSteps, RequiredSamples, TriggerSteps, ServerSlots,
        PendingCapacity, TestFreq} \subseteq Nat \ {0}
    /\ StalenessPercent \in Nat /\ MaxTaskFailures \in Nat
    /\ PartialRollouts \subseteq BOOLEAN

Samples == 1 .. TotalRolloutSteps
SeqElements(q) == {q[i] : i \in 1 .. Len(q)}
DONE == 0          \* the end marker of pending_queue
EndSignal == 0     \* the None that ends the trainer's collection

\* set_max_required_samples
MaxRequired == (RequiredSamples * (100 + StalenessPercent) * TriggerSteps) \div 100
MaxConcurrent == IF ServerSlots < MaxRequired THEN ServerSlots ELSE MaxRequired

VARIABLES
    partial,             \* config.async_training.partial_rollout
    \* event loop and self.lock
    cur, lock, waitq,
    \* feeder
    feed, fed, pending_queue,
    \* processor: its place, what the drain loop is for, the sample it holds,
    \* and whether its local done_tasks has been assigned
    proc, why, held, done_bound,
    \* sample tasks
    \* (finished: done tasks still in self.active_tasks; raised: of those, the
    \* ones that raised)
    task, finished, raised, cancel_queue, failures,
    \* rollouter state
    version, staleness_samples, paused, running, monitor_loop_trigger,
    \* monitor, main coroutine, the three remote calls, and the number of tasks
    \* and cancelled samples update_param_version has counted
    monitor, main, pause, update, resume, counted,
    \* inference servers: server.paused
    server_paused,
    \* trainer
    trainer, collected, trained, train_version, local_trigger_step

\* MessageQueue
VARIABLES queue, open, total_produced, total_consumed, dropped_samples, cleared,
          mq_version, val_queue, caller, got

MQ == INSTANCE MessageQueue WITH
        Consumers <- {"trainer"}, Samples <- Samples \cup {EndSignal},
        Versions <- Nat, Capacity <- MaxRequired, NoSample <- -1

mqVars    == <<queue, open, total_produced, total_consumed, dropped_samples, cleared,
               mq_version, val_queue, caller, got>>
loopVars  == <<cur, lock, waitq>>
feedVars  == <<feed, fed>>
procVars  == <<proc, why, held, done_bound>>
taskVars  == <<task, failures>>
callVars  == <<pause, update, resume, counted>>
trainVars == <<trainer, collected, trained, train_version, local_trigger_step>>
\* shared rollouter state, by what is written together
doneVars  == <<finished, raised>>
genVars   == <<doneVars, cancel_queue, pending_queue>>
flagVars  == <<version, staleness_samples, paused, running, monitor_loop_trigger,
               server_paused>>
vars == <<partial, loopVars, feedVars, procVars, taskVars, callVars, trainVars,
          genVars, flagVars, monitor, main, mqVars>>

Idle == "idle"
Nobody == "nobody"

\* The state after TaskRunner's first sync_weights and wait_last_valid, when both
\* fit() calls have started.
Init ==
    /\ partial \in PartialRollouts
    /\ cur = Idle /\ lock = Nobody /\ waitq = << >>
    /\ feed = "feeding" /\ fed = 0 /\ pending_queue = << >>
    /\ proc = "loop" /\ why = "none" /\ held = -1 /\ done_bound = FALSE
    /\ task = [s \in Samples |-> "none"] /\ finished = 0 /\ raised = 0
    /\ cancel_queue = << >> /\ failures = 0
    /\ version = 0 /\ staleness_samples = 0
    /\ paused = FALSE /\ running = TRUE /\ monitor_loop_trigger = TRUE
    /\ monitor = "top" /\ main = "streaming"
    /\ pause = "none" /\ update = "none" /\ resume = "none"
    /\ counted = 0
    /\ server_paused = FALSE
    /\ trainer = "collect" /\ collected = << >> /\ trained = {}
    /\ train_version = 0 /\ local_trigger_step = 1
    /\ MQ!Init
-----------------------------------------------------------------------------
(* The event loop and the lock.                                            *)

Runs(c) == cur \in {Idle, c}
Suspend == cur' = Idle
KeepRunning(c) == cur' = c

\* `async with self.lock`: go on at once, or suspend behind the other waiters.
Acquire(c) ==
    \/ /\ lock = Nobody
       /\ lock' = c /\ KeepRunning(c) /\ UNCHANGED waitq
    \/ /\ lock # Nobody
       /\ waitq' = Append(waitq, c) /\ Suspend /\ UNCHANGED lock

Release ==
    /\ lock' = IF waitq = << >> THEN Nobody ELSE Head(waitq)
    /\ waitq' = IF waitq = << >> THEN << >> ELSE Tail(waitq)

Holds(c) == Runs(c) /\ lock = c
KeepLock == UNCHANGED <<lock, waitq>>

\* condition.notify_all(): the processor is the only coroutine that waits on it.
NotifyAll == proc' = CASE proc = "idle_wait" -> "idle_woken"
                       [] proc = "submit_wait" -> "submit_woken"
                       [] OTHER -> proc

\* Mutant: only the queue's size is tested.
ShouldPauseFullOnly == Len(queue) >= MaxRequired

\* _should_pause_generation (get_statistics_sync blocks the loop, so it is atomic)
ShouldPause == Len(queue) >= MaxRequired \/ staleness_samples >= MaxRequired
-----------------------------------------------------------------------------
(* _feed_samples: one put per step, then the end marker.                   *)

\* Mutant: the end of the feed is tested with > instead of >=.
FeedSampleOffByOne ==
    /\ Runs("feed") /\ feed = "feeding" /\ Len(pending_queue) < PendingCapacity
    /\ pending_queue' = Append(pending_queue, fed + 1) /\ fed' = fed + 1
    /\ feed' = IF fed + 1 > TotalRolloutSteps THEN "done" ELSE "feeding"
    /\ KeepRunning("feed") /\ KeepLock
    /\ UNCHANGED <<partial, procVars, taskVars, callVars, trainVars, doneVars,
                   cancel_queue, flagVars, monitor, main, mqVars>>

FeedSample ==
    /\ Runs("feed") /\ feed = "feeding" /\ Len(pending_queue) < PendingCapacity
    /\ pending_queue' = Append(pending_queue, fed + 1) /\ fed' = fed + 1
    /\ feed' = IF fed + 1 >= TotalRolloutSteps THEN "done" ELSE "feeding"
    /\ KeepRunning("feed") /\ KeepLock
    /\ UNCHANGED <<partial, procVars, taskVars, callVars, trainVars, doneVars,
                   cancel_queue, flagVars, monitor, main, mqVars>>

FeedDone ==
    /\ Runs("feed") /\ feed = "done" /\ Len(pending_queue) < PendingCapacity
    /\ pending_queue' = Append(pending_queue, DONE) /\ feed' = "ended"
    /\ Suspend /\ KeepLock
    /\ UNCHANGED <<partial, fed, procVars, taskVars, callVars, trainVars,
                   doneVars, cancel_queue, flagVars, monitor, main, mqVars>>

\* A full pending_queue suspends the feeder.
FeedBlocks ==
    /\ cur = "feed" /\ Len(pending_queue) >= PendingCapacity
    /\ Suspend /\ KeepLock
    /\ UNCHANGED <<partial, feedVars, procVars, taskVars, callVars, trainVars,
                   genVars, flagVars, monitor, main, mqVars>>
-----------------------------------------------------------------------------
(* _processor_worker                                                       *)

ProcFrame == UNCHANGED <<partial, feedVars, taskVars, callVars, trainVars, monitor,
                         main, mqVars>>

\* Top of the loop: pause, or take a cancelled sample first, a new one otherwise.
ProcLoop ==
    /\ Runs("proc") /\ proc = "loop"
    /\ \/ /\ paused \/ ShouldPause
          /\ proc' = "mark" /\ Acquire("proc")
          /\ UNCHANGED <<why, held, done_bound, genVars, flagVars>>
       \/ /\ ~paused /\ ~ShouldPause /\ cancel_queue # << >>
          /\ held' = Head(cancel_queue) /\ cancel_queue' = Tail(cancel_queue)
          /\ proc' = "drain" /\ why' = "limit" /\ KeepRunning("proc") /\ KeepLock
          /\ UNCHANGED <<done_bound, doneVars, pending_queue, flagVars>>
       \/ /\ ~paused /\ ~ShouldPause /\ cancel_queue = << >>
          /\ proc' = "get" /\ KeepLock
          /\ cur' = IF pending_queue = << >> THEN Idle ELSE "proc"
          /\ UNCHANGED <<why, held, done_bound, genVars, flagVars>>
    /\ ProcFrame

\* pending_queue.get() returns; the end marker counts as a sample here too.
ProcGet ==
    /\ Runs("proc") /\ proc = "get" /\ pending_queue # << >>
    /\ held' = Head(pending_queue) /\ pending_queue' = Tail(pending_queue)
    /\ staleness_samples' = staleness_samples + 1
    /\ proc' = "drain" /\ why' = IF Head(pending_queue) = DONE THEN "done" ELSE "limit"
    /\ KeepRunning("proc") /\ KeepLock
    /\ UNCHANGED <<done_bound, doneVars, cancel_queue, version, paused, running,
                   monitor_loop_trigger, server_paused>>
    /\ ProcFrame

ProcMarkPaused ==
    /\ Holds("proc") /\ proc = "mark"
    /\ paused' = TRUE
    /\ proc' = "drain" /\ why' = "pause" /\ Release /\ KeepRunning("proc")
    /\ UNCHANGED <<held, done_bound, genVars, version, staleness_samples, running,
                   monitor_loop_trigger, server_paused>>
    /\ ProcFrame

\* self.active_tasks: the tasks that have not ended, and the ended ones that
\* nobody has collected.
Unfinished == {s \in Samples : task[s] # "none"}
ActiveTasks == Cardinality(Unfinished) + finished

\* Loop condition of the three drain loops, and what follows each of them.
KeepDraining ==
    IF why = "limit" THEN ActiveTasks >= MaxConcurrent ELSE ActiveTasks > 0

ProcDrain ==
    /\ Runs("proc") /\ proc = "drain"
    /\ \/ KeepDraining /\ proc' = "drain_locked" /\ Acquire("proc")
       \/ ~KeepDraining /\ why = "pause" /\ proc' = "idle" /\ Acquire("proc")
       \/ ~KeepDraining /\ why = "limit" /\ proc' = "submit" /\ Acquire("proc")
       \/ ~KeepDraining /\ why = "done" /\ proc' = "exited" /\ Suspend /\ KeepLock
    /\ UNCHANGED <<why, held, done_bound, genVars, flagVars>>
    /\ ProcFrame

\* Mutant: active_tasks is not tested again with the lock, and asyncio.wait of an
\* empty set raises.
ProcDrainLockedNoRecheck ==
    /\ Holds("proc") /\ proc = "drain_locked"
    /\ IF ActiveTasks > 0 THEN proc' = "drain_wait" /\ KeepLock
                          ELSE proc' = "dead" /\ Release
    /\ Suspend
    /\ UNCHANGED <<why, held, done_bound, genVars, flagVars>>
    /\ ProcFrame

\* With the lock: wait for a task if there is one.  If pause() has taken them all
\* meanwhile, the loop over done_tasks raises unless an earlier round bound it.
ProcDrainLocked ==
    /\ Holds("proc") /\ proc = "drain_locked"
    /\ \/ /\ ActiveTasks > 0
          /\ proc' = "drain_wait" /\ Suspend /\ KeepLock
       \/ /\ ActiveTasks = 0 /\ done_bound
          /\ proc' = "drain" /\ Release /\ KeepRunning("proc")
       \/ /\ ActiveTasks = 0 /\ ~done_bound
          /\ proc' = "dead" /\ Release /\ Suspend
    /\ UNCHANGED <<why, held, done_bound, genVars, flagVars>>
    /\ ProcFrame

\* asyncio.wait returns: finished tasks leave active_tasks, a failed one raises.
ProcDrainWait ==
    /\ Holds("proc") /\ proc = "drain_wait" /\ finished > 0
    /\ finished' = 0 /\ raised' = 0 /\ done_bound' = TRUE
    /\ Release
    /\ IF raised > 0
         THEN proc' = "dead" /\ Suspend
         ELSE proc' = "drain" /\ KeepRunning("proc")
    /\ UNCHANGED <<why, held, cancel_queue, pending_queue, flagVars>>
    /\ ProcFrame

\* while self.paused: await self.condition.wait()
ProcIdle ==
    /\ Holds("proc") /\ proc = "idle"
    /\ Release
    /\ IF paused THEN proc' = "idle_wait" /\ Suspend
                 ELSE proc' = "loop" /\ KeepRunning("proc")
    /\ UNCHANGED <<why, held, done_bound, genVars, flagVars>>
    /\ ProcFrame

ProcWoken ==
    /\ Runs("proc") /\ proc \in {"idle_woken", "submit_woken"}
    /\ proc' = IF proc = "idle_woken" THEN "idle" ELSE "submit"
    /\ Acquire("proc")
    /\ UNCHANGED <<why, held, done_bound, genVars, flagVars>>
    /\ ProcFrame

\* Submit the sample in hand unless the rollout is paused.
ProcSubmit ==
    /\ Holds("proc") /\ proc = "submit"
    /\ Release
    /\ \/ /\ paused
          /\ proc' = "submit_wait" /\ Suspend
          /\ UNCHANGED <<held, task>>
       \/ /\ ~paused
          /\ task' = [task EXCEPT ![held] = "new"]
          /\ held' = -1
          /\ proc' = "loop" /\ KeepRunning("proc")
    /\ UNCHANGED <<partial, feedVars, why, done_bound, failures, callVars,
                   trainVars, genVars, flagVars, monitor, main, mqVars>>

ProcStep ==
    \/ ProcLoop \/ ProcGet \/ ProcMarkPaused \/ ProcDrain \/ ProcDrainLocked
    \/ ProcDrainWait \/ ProcIdle \/ ProcWoken \/ ProcSubmit
-----------------------------------------------------------------------------
(* _process_single_sample_streaming                                        *)

TaskFrame == UNCHANGED <<partial, cur, lock, waitq, feedVars, procVars, callVars,
                         trainVars, pending_queue, flagVars, monitor, main>>

\* First segment: call the agent loop.  A server that has been cancelled and not
\* resumed returns at once.
TaskStart(s) ==
    /\ cur = Idle /\ task[s] = "new"
    /\ task' = [task EXCEPT ![s] = IF server_paused THEN "refused" ELSE "generating"]
    /\ UNCHANGED <<failures, doneVars, cancel_queue, mqVars>>
    /\ TaskFrame

\* Generation is complete: the finished sample is sent to the queue.
TaskComplete(s) ==
    /\ cur = Idle /\ task[s] = "generating"
    /\ task' = [task EXCEPT ![s] = "putting"]
    /\ UNCHANGED <<failures, doneVars, cancel_queue, mqVars>>
    /\ TaskFrame

Finish(s) == task' = [task EXCEPT ![s] = "none"] /\ finished' = finished + 1

\* put_sample is served by the queue and the task ends.
TaskPut(s) ==
    /\ cur = Idle /\ task[s] = "putting"
    /\ MQ!PutSample(s) /\ Finish(s)
    /\ UNCHANGED <<failures, raised, cancel_queue>>
    /\ TaskFrame

\* Mutant: the cancelled sample is not kept.
TaskCancelledLost(s) ==
    /\ cur = Idle
    /\ task[s] = "refused" \/ (task[s] = "generating" /\ server_paused)
    /\ Finish(s)
    /\ UNCHANGED <<failures, raised, cancel_queue, mqVars>>
    /\ TaskFrame

\* The servers were cancelled: the partial sample waits to be taken up again.
TaskCancelled(s) ==
    /\ cur = Idle
    /\ task[s] = "refused" \/ (task[s] = "generating" /\ server_paused)
    /\ cancel_queue' = Append(cancel_queue, s) /\ Finish(s)
    /\ UNCHANGED <<failures, raised, mqVars>>
    /\ TaskFrame

\* The agent loop raises.
TaskFails(s) ==
    /\ cur = Idle /\ task[s] = "generating" /\ failures < MaxTaskFailures
    /\ failures' = failures + 1 /\ raised' = raised + 1 /\ Finish(s)
    /\ UNCHANGED <<cancel_queue, mqVars>>
    /\ TaskFrame

TaskStep(s) ==
    \/ TaskStart(s) \/ TaskComplete(s) \/ TaskPut(s) \/ TaskCancelled(s) \/ TaskFails(s)
-----------------------------------------------------------------------------
(* _async_monitor_loop                                                     *)

MonitorFrame == UNCHANGED <<partial, feedVars, why, held, done_bound, taskVars,
                            callVars, trainVars, genVars, main, mqVars, version,
                            staleness_samples, running, monitor_loop_trigger,
                            server_paused>>

MonitorTop ==
    /\ Runs("monitor") /\ monitor = "top"
    /\ monitor' = "check_running" /\ Acquire("monitor")
    /\ UNCHANGED <<proc, paused>> /\ MonitorFrame

MonitorCheckRunning ==
    /\ Holds("monitor") /\ monitor = "check_running"
    /\ monitor' = IF running THEN "sleep" ELSE "exited"
    /\ Release /\ Suspend
    /\ UNCHANGED <<proc, paused>> /\ MonitorFrame

\* The sleep is over: decide whether to lift the pause, without the lock.
MonitorTick ==
    /\ Runs("monitor") /\ monitor = "sleep"
    /\ \/ /\ monitor_loop_trigger /\ ~ShouldPause
          /\ monitor' = "recover" /\ Acquire("monitor")
       \/ /\ ~monitor_loop_trigger \/ ShouldPause
          /\ monitor' = "top" /\ KeepRunning("monitor") /\ KeepLock
    /\ UNCHANGED <<proc, paused>> /\ MonitorFrame

\* With the lock: lift it, whatever happened while waiting for the lock.
MonitorRecover ==
    /\ Holds("monitor") /\ monitor = "recover"
    /\ paused' = FALSE /\ NotifyAll
    /\ monitor' = "top" /\ Release /\ KeepRunning("monitor")
    /\ MonitorFrame

MonitorStep == MonitorTop \/ MonitorCheckRunning \/ MonitorTick \/ MonitorRecover
-----------------------------------------------------------------------------
(* _streaming_generation_main after its two coroutines                     *)

MainFrame == UNCHANGED <<partial, feedVars, procVars, taskVars, callVars, trainVars,
                         genVars, version, staleness_samples, paused,
                         monitor_loop_trigger, server_paused, monitor>>

\* Whether the processor finished or died, the end signal is sent.
MainEndSignal ==
    /\ cur = Idle /\ main = "streaming"
    /\ proc = "dead" \/ (proc = "exited" /\ feed = "ended")
    /\ main' = "signalled" /\ MQ!PutSample(EndSignal)
    /\ UNCHANGED <<loopVars, running>> /\ MainFrame

MainLock ==
    /\ cur = Idle /\ main = "signalled"
    /\ main' = "locking" /\ Acquire("main")
    /\ UNCHANGED <<running, mqVars>> /\ MainFrame

MainStop ==
    /\ Holds("main") /\ main = "locking"
    /\ main' = "stopped" /\ running' = FALSE /\ Release /\ Suspend
    /\ UNCHANGED mqVars /\ MainFrame
-----------------------------------------------------------------------------
(* The remote calls pause, update_param_version and resume.                *)

CallFrame == UNCHANGED <<partial, feedVars, why, held, done_bound, taskVars, trainVars,
                         pending_queue, cancel_queue, running, monitor, main>>

PauseCall ==
    /\ cur = Idle /\ pause = "called"
    /\ pause' = "locking" /\ Acquire("pause")
    /\ UNCHANGED <<proc, update, resume, counted, doneVars, version, staleness_samples,
                   paused, monitor_loop_trigger, server_paused, mqVars>>
    /\ CallFrame

PauseLocked ==
    /\ Holds("pause") /\ pause = "locking"
    /\ paused' = TRUE /\ KeepLock
    /\ pause' = IF partial THEN "cancelling" ELSE "gathering"
    /\ Suspend
    /\ UNCHANGED <<proc, update, resume, counted, doneVars, version, staleness_samples,
                   monitor_loop_trigger, server_paused, mqVars>>
    /\ CallFrame

\* async_rollout_manager.cancel(): every server refuses and interrupts requests.
PauseCancelled ==
    /\ Holds("pause") /\ pause = "cancelling"
    /\ server_paused' = TRUE /\ pause' = "gathering" /\ KeepLock /\ Suspend
    /\ UNCHANGED <<proc, update, resume, counted, doneVars, version, staleness_samples,
                   paused, monitor_loop_trigger, mqVars>>
    /\ CallFrame

\* Mutant: after cancel() the tasks are taken to have ended and are not awaited.
PauseGatheredUnawaited ==
    /\ Holds("pause") /\ pause = "gathering" /\ (partial \/ Unfinished = {})
    /\ finished' = 0 /\ raised' = 0 /\ pause' = "clearing_cache" /\ KeepLock /\ Suspend
    /\ UNCHANGED <<proc, update, resume, counted, version, staleness_samples, paused,
                   monitor_loop_trigger, server_paused, mqVars>>
    /\ CallFrame

\* gather(*active_tasks, return_exceptions=True), then active_tasks.clear()
PauseGathered ==
    /\ Holds("pause") /\ pause = "gathering" /\ Unfinished = {}
    /\ finished' = 0 /\ raised' = 0 /\ pause' = "clearing_cache" /\ KeepLock /\ Suspend
    /\ UNCHANGED <<proc, update, resume, counted, version, staleness_samples, paused,
                   monitor_loop_trigger, server_paused, mqVars>>
    /\ CallFrame

PauseReturns ==
    /\ Holds("pause") /\ pause = "clearing_cache"
    /\ monitor_loop_trigger' = FALSE /\ pause' = "returned" /\ Release /\ Suspend
    /\ UNCHANGED <<proc, update, resume, counted, doneVars, version, staleness_samples,
                   paused, server_paused, mqVars>>
    /\ CallFrame

UpdateCall ==
    /\ cur = Idle /\ update = "called"
    /\ update' = "locking" /\ Acquire("update")
    /\ UNCHANGED <<proc, pause, resume, counted, doneVars, version, staleness_samples,
                   paused, monitor_loop_trigger, server_paused, mqVars>>
    /\ CallFrame

\* What update_param_version counts as outstanding, besides the queue: not the
\* sample the processor has taken and not yet submitted.
CountOutstanding == ActiveTasks + Len(cancel_queue)

UpdateCounts ==
    /\ Holds("update") /\ update = "locking"
    /\ version' = mq_version /\ counted' = CountOutstanding
    /\ update' = "counting" /\ KeepLock /\ Suspend
    /\ UNCHANGED <<proc, pause, resume, doneVars, staleness_samples, paused,
                   monitor_loop_trigger, server_paused, mqVars>>
    /\ CallFrame

\* Mutant: staleness_samples is not reset.
UpdateReturnsNoReset ==
    /\ Holds("update") /\ update = "counting"
    /\ counted' = 0 /\ MQ!PutValidate(version)
    /\ update' = "returned" /\ Release /\ Suspend
    /\ UNCHANGED <<proc, pause, resume, doneVars, version, staleness_samples, paused,
                   monitor_loop_trigger, server_paused>>
    /\ CallFrame

\* get_queue_size answers, and the validation record is sent.
UpdateReturns ==
    /\ Holds("update") /\ update = "counting"
    /\ staleness_samples' = counted + Len(queue) /\ counted' = 0
    /\ MQ!PutValidate(version)
    /\ update' = "returned" /\ Release /\ Suspend
    /\ UNCHANGED <<proc, pause, resume, doneVars, version, paused,
                   monitor_loop_trigger, server_paused>>
    /\ CallFrame

\* resume is delivered once update_param_version has returned (its argument).
ResumeCall ==
    /\ cur = Idle /\ resume = "called" /\ update = "returned"
    /\ resume' = "locking" /\ Acquire("resume")
    /\ UNCHANGED <<proc, pause, update, counted, doneVars, version, staleness_samples,
                   paused, monitor_loop_trigger, server_paused, mqVars>>
    /\ CallFrame

\* With partial rollout the servers are resumed first, which suspends.
ResumeServers ==
    /\ Holds("resume") /\ resume = "locking"
    /\ server_paused' = FALSE /\ resume' = "resuming" /\ KeepLock
    /\ cur' = IF partial THEN Idle ELSE "resume"
    /\ UNCHANGED <<proc, pause, update, counted, doneVars, version, staleness_samples,
                   paused, monitor_loop_trigger, mqVars>>
    /\ CallFrame

ResumeReturns ==
    /\ Holds("resume") /\ resume = "resuming"
    /\ paused' = FALSE /\ monitor_loop_trigger' = TRUE /\ NotifyAll
    /\ resume' = "returned" /\ Release /\ Suspend
    /\ UNCHANGED <<pause, update, counted, doneVars, version, staleness_samples,
                   server_paused, mqVars>>
    /\ CallFrame

CallStep ==
    \/ PauseCall \/ PauseLocked \/ PauseCancelled \/ PauseGathered \/ PauseReturns
    \/ UpdateCall \/ UpdateCounts \/ UpdateReturns \/ ResumeCall \/ ResumeServers \/ ResumeReturns
-----------------------------------------------------------------------------
(* FullyAsyncTrainer and ParameterSynchronizer                             *)

TrainFrame == UNCHANGED <<partial, loopVars, feedVars, procVars, taskVars, genVars,
                          flagVars, monitor, main>>

\* _get_samples_from_queue: one sample, or the end signal, which discards an
\* incomplete batch.
TrainerGet ==
    /\ trainer = "collect" /\ MQ!GetSample("trainer")
    /\ LET took == queue' # queue IN
       \/ /\ ~took
          /\ UNCHANGED <<trainer, collected>>
       \/ /\ took /\ Head(queue) = EndSignal
          /\ trainer' = "final_wait" /\ UNCHANGED collected
       \/ /\ took /\ Head(queue) # EndSignal
          /\ collected' = Append(collected, Head(queue))
          /\ trainer' = IF Len(collected) + 1 = RequiredSamples THEN "train" ELSE "collect"
    /\ UNCHANGED <<trained, train_version, local_trigger_step, callVars>>
    /\ TrainFrame

\* fit_step up to _trigger_parameter_sync_after_step: train, then either count the
\* step or raise the version and synchronise.
TrainerStep ==
    /\ trainer = "train"
    /\ trained' = trained \cup SeqElements(collected) /\ collected' = << >>
    /\ \/ /\ local_trigger_step < TriggerSteps
          /\ local_trigger_step' = local_trigger_step + 1
          /\ trainer' = "log" /\ UNCHANGED train_version
       \/ /\ local_trigger_step >= TriggerSteps
          /\ local_trigger_step' = 1 /\ train_version' = train_version + 1
          /\ trainer' = "wait_valid"
    /\ UNCHANGED <<callVars, mqVars>>
    /\ TrainFrame

\* wait_last_valid: the previous update and resume have returned.
LastSyncDone == update \in {"none", "returned"} /\ resume \in {"none", "returned"}

SyncCallPause ==
    /\ trainer = "wait_valid" /\ LastSyncDone
    /\ trainer' = "pausing" /\ pause' = "called"
    /\ UNCHANGED <<collected, trained, train_version, local_trigger_step, update,
                   resume, counted, mqVars>>
    /\ TrainFrame

\* ray.get(pause) returns; the queue learns the version.
SyncPaused ==
    /\ trainer = "pausing" /\ pause = "returned"
    /\ trainer' = "syncing" /\ pause' = "none"
    /\ MQ!UpdateParamVersion(train_version)
    /\ UNCHANGED <<collected, trained, train_version, local_trigger_step, update, resume,
                   counted>>
    /\ TrainFrame

\* update_weights is done; the update and the resume are sent, not awaited.
SyncSendResume ==
    /\ trainer = "syncing"
    /\ trainer' = "log" /\ update' = "called" /\ resume' = "called"
    /\ UNCHANGED <<collected, trained, train_version, local_trigger_step, pause, counted,
                   mqVars>>
    /\ TrainFrame

\* _fit_collect_metrics: log one validation record, then the next step.
TrainerLog ==
    /\ trainer = "log" /\ trainer' = "collect"
    /\ MQ!GetValidate
    /\ UNCHANGED <<collected, trained, train_version, local_trigger_step, callVars>>
    /\ TrainFrame

\* The end of fit(): with steps not yet synchronised, or a version without a
\* validation, the additional sync is called with an argument the method does not
\* take, and fit() raises.
NeedsFinalSync == train_version % TestFreq # 0 \/ local_trigger_step > 1

TrainerFinish ==
    /\ trainer = "final_wait" /\ LastSyncDone
    /\ trainer' = IF NeedsFinalSync THEN "error" ELSE "done"
    /\ MQ!GetValidate
    /\ UNCHANGED <<collected, trained, train_version, local_trigger_step, callVars>>
    /\ TrainFrame

TrainerNext ==
    \/ TrainerGet \/ TrainerStep \/ SyncCallPause \/ SyncPaused \/ SyncSendResume
    \/ TrainerLog \/ TrainerFinish

\* Everything has ended (trainer and rollouter); the system may stop here.
Terminated ==
    /\ trainer \in {"done", "error"} /\ monitor = "exited" /\ UNCHANGED vars

FeedStep == FeedSample \/ FeedDone \/ FeedBlocks
MainStep == MainEndSignal \/ MainLock \/ MainStop

Next ==
    \/ FeedStep \/ ProcStep \/ MonitorStep \/ MainStep \/ CallStep \/ TrainerNext
    \/ \E s \in Samples : TaskStep(s)
    \/ Terminated

Spec == Init /\ [][Next]_vars

\* The event loop's ready queue is first in, first out, so a coroutine that is
\* ready again and again runs (strong fairness: another coroutine's turn disables
\* it).  Of the sample tasks it is enough that some task goes on.  Generation ends,
\* timers fire, remote calls are delivered, and the trainer keeps going.
Fairness ==
    /\ SF_vars(FeedStep) /\ SF_vars(ProcStep) /\ SF_vars(MonitorStep)
    /\ SF_vars(MainStep) /\ SF_vars(CallStep) /\ WF_vars(TrainerNext)
    /\ SF_vars(\E s \in Samples : TaskStep(s))

FairSpec == Spec /\ Fairness
-----------------------------------------------------------------------------
(* Properties.                                                             *)

ProcPlaces ==
    {"loop", "get", "mark", "drain", "drain_locked", "drain_wait", "idle",
     "idle_wait", "idle_woken", "submit", "submit_wait", "submit_woken",
     "exited", "dead"}
CallPlaces == {"none", "called", "locking", "cancelling", "gathering",
               "clearing_cache", "counting", "resuming", "returned"}
Coroutines == {"feed", "proc", "monitor", "main", "pause", "update", "resume"}

\* Types, with the feeder, counters and queue inside their ranges.
TypeOK ==
    /\ partial \in BOOLEAN /\ cur \in Coroutines \cup {Idle}
    /\ lock \in Coroutines \cup {Nobody} /\ waitq \in Seq(Coroutines)
    /\ feed \in {"feeding", "done", "ended"} /\ fed \in 0 .. TotalRolloutSteps
    /\ pending_queue \in Seq(Samples \cup {DONE})
    /\ proc \in ProcPlaces /\ why \in {"none", "pause", "limit", "done"}
    /\ held \in Samples \cup {DONE, -1} /\ done_bound \in BOOLEAN
    /\ task \in [Samples -> {"none", "new", "generating", "refused", "putting"}]
    /\ {finished, raised, failures, counted} \subseteq Nat
    /\ cancel_queue \in Seq(Samples)
    /\ {version, staleness_samples, train_version} \subseteq Nat
    /\ {paused, running, monitor_loop_trigger, server_paused} \subseteq BOOLEAN
    /\ monitor \in {"top", "check_running", "sleep", "recover", "exited"}
    /\ main \in {"streaming", "signalled", "locking", "stopped"}
    /\ {pause, update, resume} \subseteq CallPlaces
    /\ trainer \in {"collect", "train", "wait_valid", "pausing", "syncing", "log",
                    "final_wait", "done", "error"}
    /\ collected \in Seq(Samples) /\ trained \subseteq Samples
    /\ local_trigger_step \in 1 .. TriggerSteps
    /\ MQ!TypeOK

\* The entries of a queue that hold a sample and not its end marker.
SampleEntries(q) == {i \in 1 .. Len(q) : q[i] \in Samples}

\* The fed samples that are somewhere in the pipeline, and their number counted
\* place by place.
InPipeline ==
    (SeqElements(pending_queue) \cup {held} \cup Unfinished \cup SeqElements(cancel_queue)
        \cup SeqElements(queue) \cup SeqElements(collected) \cup trained) \cap Samples

PipelineSize ==
    Cardinality(SampleEntries(pending_queue)) + (IF held \in Samples THEN 1 ELSE 0)
        + Cardinality(Unfinished) + Len(cancel_queue) + Cardinality(SampleEntries(queue))
        + Len(collected) + Cardinality(trained)

\* No sample is duplicated or silently lost: whatever pause, cancellation and
\* resubmission do, a fed sample is in one place of the pipeline, unless the full
\* queue dropped it or its generation raised.
SampleAccounting ==
    /\ PipelineSize = Cardinality(InPipeline)
    /\ Cardinality((1 .. fed) \ InPipeline) <= failures + dropped_samples

Outstanding ==
    Cardinality(Unfinished) + Len(cancel_queue) + Cardinality(SampleEntries(queue))
        + (IF held \in Samples THEN 1 ELSE 0)

\* max_required_samples bounds what is generated ahead of the trainer, with the
\* one sample more that update_param_version's recount does not see (the sample
\* the processor holds while it waits for the pause to end).
OutstandingBound == Outstanding <= MaxRequired + 1

\* pause() returns control to the synchroniser only when nothing generates: while
\* it clears the KV cache, no sample task is unfinished, and none can start.
PauseQuiesces == pause = "clearing_cache" => Unfinished = {} /\ finished = 0

\* The processor dies only of a sample whose generation raised: the wait under the
\* lock never finds the tasks gone before its first wait ended (done_tasks would
\* be unbound), although pause() empties active_tasks between the loop's test and
\* the lock.  Needs a pending_queue deeper than the concurrency limit, as the
\* default of 128 is for up to seven servers; see the README.
ProcessorSurvives == proc = "dead" => failures > 0

\* A sample submitted during a sync after all (finding NoSubmissionDuringSync) may
\* have ended when update_param_version counts: it is counted as a task of
\* active_tasks and again in cancel_queue or in the message queue.
CountedTwice == lock = "update" /\ finished > 0

\* Nobody waits on everybody: whatever the order of pauses, cancellations, late
\* recoveries by the monitor, failing samples and end marker, fit() ends in the
\* trainer and in the rollouter.  The exception is a run that counts a sample
\* twice: staleness_samples may then stay at max_required_samples with nothing left
\* to generate, and the processor pauses for good while the trainer waits.
RunEnds == <>((trainer \in {"done", "error"} /\ monitor = "exited") \/ CountedTwice)

\* pause() ("pause rollout", and the processor's comment "it is necessary to
\* determine whether it is the pause phase, otherwise continue to wait"): between
\* pause and resume, while the weights are replaced, no sample generates.
NoSubmissionDuringSync == trainer = "syncing" => Unfinished = {}

\* "Received end signal, waiting for remaining tasks to complete...": when the
\* processor has exited, no fed sample is left waiting to be generated.
RemainingTasksCompleted == proc = "exited" => cancel_queue = << >>

\* The end of fit(), "perform addtional parameter_sync and validate if trainer
\* already updated": no training step is left unsynchronised when it ends.
FinalStepsSynchronised == trainer \in {"done", "error"} => local_trigger_step = 1
=============================================================================
