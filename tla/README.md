# Verification of trd: checkpoints, asynchronous training, weight transfer, pipeline

This directory holds TLA+ models of the parts of the repository whose
correctness depends on the order in which things happen: the distillation
trainer with its checkpoints, the pipeline of stages that runs it, the fully
asynchronous policy trainer with its message queue, the partial rollouts that
its weight updates interrupt, and the engines that carry the new weights. TLC
checks them on small instances, TLAPS proves theorems about them for all values
of the constants. Paths below are relative to the root of the repository; `fa/`
abbreviates `verl/experimental/fully_async_policy/`.

Contents: 1 the system · 2 the modules and the code · 3 what is checked ·
4 fairness · 5 what is proved · 6 disagreements found · 7 what is not modelled ·
8 plan.

## 1. The system

The repository is a knowledge-distillation recipe (`recipe/opd`) on top of verl,
a library for reinforcement learning of language models (`verl/`). Most of its
lines compute tensors, format text or wrap third-party engines. The state that
outlives a function call, and the concurrency, are in a few places.

### The recipe: distillation trainer, checkpoints, export

| Component | State | Operations |
|---|---|---|
| `KLTrainer` (`recipe/opd/kl_trainer.py`) | `global_step`, epoch and batch position, accumulated gradients, weights | resume, `train_epoch`, optimizer step, `_save_checkpoint`, `_export_hf_model`, `_launch_hf_export_async` |
| `FSDPCheckpointManager` (`verl/utils/checkpoint/`) | `previous_saved_paths` in memory; `global_step_<n>/` on disk with a shard per rank and rank 0's config files | `ensure_checkpoint_capacity`, `save_checkpoint`, `register_checkpoint`, `load_checkpoint` |
| model merger (`verl/model_merger/`) | the `hf_merged` directory | reads a whole checkpoint, writes one model |
| data loader (`recipe/opd/dataset/data_utils.py`) | sampler order of the epoch | draws batches in order |
| run pipeline (`recipe/opd/run/`) | the files of each stage, and nothing else | build prompts, generate, filter, train, export, evaluate, aggregate; a launch decides from the files it finds what is left to do |

The ranks of one job meet in barriers and collectives; between the two barriers of
a save they write their own files and rank 0 also rotates old directories. What
survives a crash is the disk: the resumed run derives its epoch and its place in
the epoch from `global_step` alone. **Hard:** a crash between any two steps of a
save, directories reused in place by a later life of the job, the short
accumulation window at the end of an epoch, rotation against the newest complete
checkpoint, a background export that outlives the job. **Correct when:** the
weights are always those of the schedule up to the current position; a directory's
name says which weights it holds; a complete checkpoint goes only after a newer
one is complete; what is exported is what training ended with; a relaunched job
finishes.

The pipeline wraps the trainer. An operator launches `run_kl_training.sh` again and
again with one `RUN_DATE`, perhaps with other settings, after a crash or after a good
end. **Hard:** "it is there and not empty" stands for "it is finished" at every stage;
left-overs of different launches meet in one directory; a filter that runs after a
crash-prone generation. **Correct when:** nothing above its limit is trained on;
rewrites belong to the responses beside them; checkpoint, export and answers come
from the rows of the training files that the launches were given, and those stay as they were;
nothing half-exported is evaluated; "Done" means evaluated.

### The fully asynchronous trainer

| Component | State | Operations |
|---|---|---|
| `MessageQueue` (`fa/message_queue.py`) | bounded deque, `running`, counters, parameter version, validation deque | `put_sample`, `get_sample`, `update_param_version`, `clear_queue`, `shutdown`, `put_validate`, `get_validate` |
| `FullyAsyncRollouter` (`fa/fully_async_rollouter.py`) | `pending_queue`, `cancel_queue`, `active_tasks`, `paused`, `running`, `monitor_loop_trigger`, `staleness_samples`, lock and condition | feeder, processor, a task per sample, monitor, main coroutine; calls `pause`, `update_param_version`, `resume` |
| `ParameterSynchronizer` (`fa/param_sync.py`) | handles of the last update and resume | `sync_weights`, `wait_last_valid` |
| `FullyAsyncTrainer` (`fa/fully_async_trainer.py`) | collected batch, `current_param_version`, `local_trigger_step` | collect, train, synchronise, log, end of `fit` |
| inference servers (`fa/vllm_rollout/`) | `paused`, per-request events | `cancel`, `resume`, generate |

The rollouter is one actor with one asyncio event loop: its coroutines interleave
only where they suspend, and share an `asyncio.Lock` with a condition. Samples go
from the feeder through `pending_queue` to the processor, to a task, to the
message queue, to the trainer; a pause sends partly generated ones back through
`cancel_queue`. After every `trigger_parameter_sync_step` steps the trainer asks
the synchroniser to pause the rollouter, raises the version in the queue, transfers
the weights, and *sends* `update_param_version` and `resume` without waiting; the next
synchronisation waits for them. **Hard:** state tested before a lock is taken and
used after it; tasks that end, are gathered by `pause()` or are awaited by the processor;
counts taken on both sides of an await; the end marker among cancelled samples;
who waits for whom. **Correct when:** a sample is in one place and lost only for a
stated reason; the look-ahead stays within `max_required_samples`; nothing
generates while weights are replaced; the queue's statistics add up and no waiter
sleeps through its notification; the run ends.

### Partial rollouts and weight transfer

| Component | State | Operations |
|---|---|---|
| partial-rollout servers (`fa/vllm_rollout/`) | `paused`, an event per request; below it the engine's requests, `global_steps` | `generate_for_partial`, `cancel`, `resume`, `abort_all_requests`, `resume_generation` |
| agent loops (`fa/agent_loop/`) | text, mask and log-probabilities of a trajectory, its state, the versions it began and ended with, the worker's cancellation event | single-turn and tool loop, `generate_sequences_no_post`, `FullyAsyncLLMServerManager.generate` |
| checkpoint engines (`verl/checkpoint_engine/`) | two halves of a buffer per rank, descriptions on their way, markers | `update_weights`, `send_weights`, `receive_weights` of the NCCL, HCCL, NIXL and Mooncake engines |
| IPC transfer (`verl/workers/rollout/vllm_rollout/bucketed_weight_transfer.py`) | one shared buffer per worker | `async_send_weights`, `receive_weights` |

A weight update meets requests at any point: on their way to a server, registered, done but
not yet answered, in the middle of a tool's turn. The rollouter cancels servers and
workers, waits for its tasks, has the engines abort what is left (only validations may
be), and lets the checkpoint engine stream the new weights in; cancelled trajectories are
submitted again and go on from their saved words. The engines pack tensors into two
halves of a buffer and refill one while the other travels, rank to rank, at each
rank's own speed. **Hard:** a request that arrives after the sweep; a reply that races the
event; a cut in the middle of a tool call; a validation of the last update still
running at the next; a half refilled too early; a description published before anyone
listens; markers left by an earlier bucket. **Correct when:** an interruption changes
no word of a trajectory; reported versions cover its words; weights change only while
nothing of the sample generates; every worker loads each tensor once, in order and
untorn; every update ends.

### Other parts

Reward loop, one-step-off-policy and PPO trainers, single controller, workers, models,
scoring and benchmarks: see section 7 and the `components` list of `PROJECT.json`, which
also lists the hazards at their source lines.

## 2. The modules and the code

`PROJECT.json` maps every definition to its source lines. The names of the code are
kept.

**`KLTrainer.tla`.** Weights are abstracted to their *lineage*, the sequence of
batches an optimizer step applied; a batch is `<<epoch, index in the sampler's
order>>`. So repeating, skipping or reordering data shows in the state, and tensors
do not. One action per step that another rank, the merger or a crash can get
between:

- launch: `StartFromScratch`, `ResumeLatest`, `ResumeExplicit`, `ResumeMissing`
  (`_maybe_resume_from_checkpoint` and the resume plan of `train`);
- loop: `TrainBatch` (with the optimizer step when `ShouldStep`), `NextEpoch`,
  `FinishTraining`;
- save: `EnsureCapacity`, `LocalMkdir(r)`, `OpenShard(r)`, `CloseShard(r)`,
  `WriteAssets`, `Barrier`, `RegisterCheckpoint`, `WriteLoraMeta`. A shard is absent,
  torn (opened, not closed) or full, because `torch.save` writes in place;
- export: `ExportSync`, `LaunchExportAsync`, `ExportNothing`, `MergerEnds`;
- `Restart`: a crash, a failure or an operator's rerun. Memory is lost, the disk
  stays. It assumes what torchrun does: the whole process group dies, the awaited
  merger with it; the background merger has its own session and goes on.

`sharded` distinguishes the two samplers of `create_kl_dataloader`:
`DistributedSampler` draws an order fixed by seed and epoch (hence named by
position), the `RandomSampler` of a single rank draws any permutation.
`base` and `inherited` are ghosts.

**`MessageQueue.tla`.** Every method runs under the actor's lock, so a method is an
action; `GetSample(c)` has three outcomes because it can suspend on the condition.
`cleared` is a ghost.

**`FullyAsync.tla`** composes the rollouter, the synchroniser and the trainer with
`MQ == INSTANCE MessageQueue`. `cur` is the coroutine that has the event loop; a
coroutine keeps it until it suspends, which is what makes straight-line code
between awaits atomic and what no lock-level model would show. `lock` and
`waitq` are the first-in-first-out `asyncio.Lock`. The processor's three loops over
`active_tasks` are one drain loop with a reason (`why`: pause, concurrency limit,
end marker). `update_param_version` is two steps, because it counts tasks before an await and the
queue after it. `TaskPut` joins the queue's service of `put_sample` with its reply.
The initial state is the one after the task runner's first synchronisation. The
numeric content of a step is left out.

**`WeightStream.tla`** is what `CheckpointEngineManager.update_weights` promises,
whatever engine it uses: a worker loads the tensors that follow those it has, intact,
and an update begins when the one before has reached everybody. `at_risk` names
the tensors an engine does not vouch for.

**`WeightTransfer.tla`** has the state and the steps that the engines share: rank 0
packs tensors into a half (`Fill`), a receiver yields them (`Yield`) into the IPC buffer
of its worker, which the inference process clones and loads (`IpcSend`, `IpcClone`,
`IpcLoad`). A buffer is a function from cells to `<<version, tensor>>`, so a tensor that
is read while something else is written shows as torn. **`NcclEngine.tla`** (also
HCCL), **`NixlEngine.tla`** and **`MooncakeEngine.tla`** extend it with how a bucket
gets from rank to rank: a published description and a broadcast; an offer, a remote read and
its notification; a description and a marker that the successor writes into the
predecessor's memory. **`CheckpointEngine.tla`** puts them together under the
manager's loop and refines `WeightStream`.

**`PartialRollout.tla`** is the server for partial rollouts, the two agent loops and the worker that runs
the trajectories of a sample. Text is a sequence of words of a fixed script (a word of
the model, the opening and closing half of a tool call, a tool's answer), each with
the version of the weights it was computed with; `Torn` is the version of a word
computed with half-loaded weights. **`RolloutSync.tla`** composes it with one
`sync_weights` after another: `CancelServer`/`CancelWorker`, `Paused`, `Abort`,
`LateRecovery`, `BeginTransfer` and `Load` (the actions of `Stream == INSTANCE WeightStream`, which
`CheckpointEngine` implements), `SetSteps`, `ResumeGeneration`, `UpdateParamVersion` (which
starts a validation beside the rollout), `ResumeServer`/`ResumeWorker`, `Resumed`. So the
transfer is modelled once in detail and once by its specification.
`LateRecovery` is finding 3 (section 6) seen from here: the monitor, which decided before `pause()`, has
the lock after it and clears `paused`, so `Submit` may start the sample while weights are replaced, with
the parameter version of before (`sample.late`, a ghost).

**`RunPipeline.tla`** is `run_kl_training.sh` and the programs it starts. A file is
missing, empty, torn or whole, with the launch that wrote it, the launch whose responses its rows
carry and the length of its longest prompt; a model is the set of data it was trained
on, torn while it is written. Stages follow the code: `Prepare`; `Check`, `Open`, `Fill`,
`Close`, `Filter` for each parquet file; `Load`, `SaveBegins`, `SaveEnds`, `LastSaveEnds`
and the three steps of an export (what `KLTrainer` models in detail); `Evaluate`,
`Server` and, per dataset, `Skip`, `Reuse`, `Ask`, `Score`; `Aggregate`. `Crash`,
`TrainingFails` and `Relaunch` may come in between. A launch has an environment of its own: the
limits, what to export and evaluate, and `DATA_PATH`, which `build_env` reads anew
(`run_config.py:151`) and which no directory of the run carries in its name
(`run_config.py:129-148`). `wanted` is a ghost, the training files of the launches so far.

**`MCKLTrainer`, `MCMessageQueue`, `MCFullyAsync`, `MCCheckpointEngine`,
`MCRolloutSync`, `MCRunPipeline`** give the constants values for TLC.
**`MessageQueueProofs`** holds the theorems about the queue, **`FullyAsyncProofs`** those about
the asynchronous trainer that uses it (types, the queue inside the trainer, the pause, where
every sample is, how many are ahead, the processor's first wait), **`RunPipelineProofs`**
those about the pipeline and **`KLTrainerProofs`** those about the trainer (types, what weights and
checkpoints contain, which checkpoints stay, which one is exported). Those about the rollout are in
**`RolloutSyncProofs`** (who may run while weights change, the versions words come from) and
**`RolloutContinuation`** (continuation, validation, types), which extends it. For the
weight transfer **`CheckpointInvariant`** has the packing of tensors, the inductive invariant and the steps
of the consumer, and **`CheckpointEngineProofs`**, which extends it, the steps of each engine and the theorems.

The operators whose comment begins with "Mutant:" are wrong variants of a neighbouring
definition. Specifications do not use them; `PROJECT.json` names for each property
the variant that breaks it.

## 3. What is checked

| Run | Instance | What it shows |
|---|---|---|
| `kl_trainer` | 2 ranks, 5 batches, windows of 2, 3 epochs, ten configurations, 2 relaunches; 131,577 states | `TypeOK`; `LineageExact`: through any crashes and resumes the weights are the schedule without a repeated or skipped batch; `CheckpointsNameTheirStep`: so is every complete shard, even in a directory two lives wrote; `NoOrphanCheckpoints`; `ExportedIsFinal`; `RemovedOnlyForNewer`; `FinishesUnlessTorn` (liveness) |
| `kl_last_save` | window of one, last step periodic | `SavedCheckpointSurvives` fails (section 6) |
| `kl_unsharded` | one data-parallel rank | `CompletedStepsSkipped` fails (section 6) |
| `message_queue` | 2 callers, capacity 2, 5 puts, 2 validation records; 96,964 states | `Accounting`, `NoLostWakeup` |
| `fully_async` | 4 samples, batches of 1, synchronisation after every step, staleness 1, 2 slots, whole and partial rollout, one failing generation; 922,639 states | `TypeOK`, `SampleAccounting`, `OutstandingBound`, `PauseQuiesces`, `ProcessorSurvives`, and no deadlock before the end |
| `fully_async_live` | 3 samples, batches of 1, synchronisation after every step, staleness 1, 1 slot, whole and partial rollout, one failing generation; 113,288 states | `RunEnds` under fairness |
| `weight_transfer` | 4 engines, 2 receivers, 6 tensors in 4 buckets, IPC buffers of 3 cells, 2 updates; 32,114 states | `TypeOK`; `StreamRefined`: each engine implements `WeightStream`; `NoOverwriteInUse`; `TransferEnds` (liveness) |
| `rollout_sync` | 2 trajectories or a validation, 2 servers, 2 updates, both agent loops, response limits 3 and 5, vLLM before and after 0.12, a late recovery in the first update of the single-turn loop; 301,412 states | `TypeOK`; `ContinuationExact`: words, masks and log-probabilities are those of an uninterrupted trajectory; `VersionsBracket` and `ValidationBracketed`: reported versions cover the words; `NoneSlipsPast`, `WeightsMoveAlone`: no server works on the sample while weights change; `CompletedStays`; `SampleCompletes` and `RolloutResumes` (liveness) |
| `run_pipeline` | 3 launches, 4 environments, two of them with a `DATA_PATH`, 2 crashes or failures, 3 datasets (one not there), with and without rewrites and aggregates; 694,860 states | `TypeOK`, `PromptsFit`, `RewritesMatch`, `OneModelPerRun`, `EvaluatesWholeModel`, `DoneMeansEvaluated`, `PipelineEnds` (liveness) |
| `fully_async_sync`, `_end`, `_final` | as small as each needs | each refutes one promise of the code (section 6) |

**Why these bounds.** *KLTrainer:* five batches in windows of two give three
steps per epoch whose last window is short, so step numbers and batch numbers
disagree unless the resume plan is right; three epochs cross two epoch ends; saving
every 2, 3 or 9 steps puts saves in the middle of an epoch, at its end and only at the end of
the run; two relaunches let a third life meet directories of two earlier ones;
windows of one, two and unlimited cover both branches of each rotation; two ranks
are the least that can be at different points of a save. *MessageQueue:* five puts into
a queue of two drop repeatedly; two callers make a notified one find the queue empty
again. *FullyAsync:* `MaxRequired` is 2 and the queue holds 2, so the full queue, the
staleness pause and the concurrency limit are all met; four samples make at least two
synchronisations happen while samples are in flight. The instance of `RunEnds` is smaller by a sample and a
slot, and still has what the property is about: a pause that meets a generating task and cancels it, a
cancelled sample waiting during a sync, a pause that the monitor lifts late, the end marker taken
while cancelled samples wait or before a pause, a full queue that drops, and a processor that dies of a
failed sample; each of these states is reached in runs outside the property's exception. `MaxTaskFailures` and `MaxRestarts` bound the
environment, in the guards. The message queue's bounds are its state constraint; the
queue's runs are on safety only, so a constraint is sound there. *Weight transfer:* four
buckets use each half twice, so a half is refilled while its first content may still be
wanted; two receivers give a chain with a rank in the middle, the only place where a rank
both reads and forwards; tensors of one and two cells pack differently into the halves and
into the IPC buffer; the second update meets the markers of the first. *Rollout:* two
updates cut a trajectory twice; with two servers a request and its continuation may go
to different ones, and one of them may be cancelled while the other is not; the limits
lie below and above the length of the tool's script, so a trajectory ends by length, before
an answer that does not fit and by itself. The sample and a validation share no state, so
`McInit` takes one at a time. `McNext` lets the monitor recover late once, in the first update,
between `pause()` and the transfer, in the single-turn loop; the sample it lets through may start at any later moment, and the second
update cuts what it has begun. Without this bound (late recoveries in both updates and loops, also during the transfer,
1,175,706 states) TLC finds the same safety properties to hold. *Pipeline:* two stops can
tear one file and fail its next reader; three launches let a third one meet the
left-overs of two; launches beyond the third are not told apart (they repeat). One given file next to the generated
one is enough for a launch to meet a checkpoint trained on other rows, in either order. A prompt of
length 1 or 2 against limits 0 (off) and 1 meets each branch of the filter; the model
supposes that some prompt fits its limit.

**Conditions worth knowing.**

- `ProcessorSurvives` depends on configuration. The processor's drain loop reads
  `done_tasks` after a wait it may have skipped because `pause()` emptied
  `active_tasks`; the name is bound only if an earlier round waited. When
  `pending_queue` is deeper than the concurrency limit (the default of 128 is, for up to
  seven servers with 16 slots) the feeder keeps the processor ahead and an
  earlier round always waited; `AsyncProcessorSurvives` proves it under exactly this
  hypothesis. The checked instance has depth 3 and limit 2. With
  depth at most the limit and the limit below `MaxRequired` the state is reachable.
- `OutstandingBound` allows one sample more than `max_required_samples`: the sample
  the processor holds while paused is in no count of `update_param_version`. The
  extra one is reached when the concurrency limit is below `MaxRequired`, and a full
  queue then drops its oldest sample in the middle of a run (`SampleAccounting` counts it).
- `RunEnds` excepts a run that counts a sample twice (`CountedTwice`), a consequence of finding 3. A sample
  that the monitor's late recovery lets through during a sync is refused by the servers, goes back
  to `cancel_queue` and its ended task stays in `active_tasks`; `update_param_version` adds
  both (`fully_async_rollouter.py:249-251`), as it adds an ended task whose sample is in the queue
  already. `staleness_samples` then may be `max_required_samples` with nothing left to
  generate; the processor pauses, the monitor does not recover it, and the trainer waits for a
  batch that does not come. Without the exception TLC finds this run.
- `VersionsBracket` excepts the end of a trajectory that was overtaken: its sample was submitted by a late recovery
  during an update, its task took the version before `update_param_version` raised it, and
  it was generated after `resume` (`overtaken`). Its words may be one version newer than
  the `param_version_end` it reports, never two.
- `WeightsMoveAlone` promises that no server works on a request of the sample while weights change. It does not
  promise that no task exists: after a late recovery one may, and is turned away.
- `FinishesUnlessTorn` has its exceptions in the formula: a relaunch that finds its
  newest directory torn fails (nothing falls back to the one before), and a rerun of a
  finished job rewrites its only complete checkpoint in place.
- `ExportedIsFinal` leaves out "initialize" without a path in a directory with older,
  larger step numbers, and the duplicate final save of section 6.
- `StreamRefined` and `NoOverwriteInUse` except Mooncake's marker on a middle rank
  (`MarkerRace`): the rank waits for its successor's marker only before it reads into the same
  half again, and not for its first two buckets, while the successor may write the marker over the start
  of a bucket whose first tensor the rank has not yielded yet
  (`mooncake_checkpoint_engine.py:234`). With a single receiver there is no
  middle rank.
- `TransferEnds` excepts a description published before a receiver's ZMQ subscription
  took effect (`nccl_checkpoint_engine.py:218`; the barrier after it does not wait for the
  subscription): nothing sends it again and the receiver waits for ever.
- `ContinuationExact` excepts a tool call cut in two (`CallCut`): the loop looks for a
  call only in the words of the last request (`partial_tool_agent_loop.py:222`), so
  the tool is not called and the trajectory ends after it.
- `ValidationBracketed` speaks of engines that stop at an abort. Before vLLM 0.12 the
  validation's continuation starts at once on half-loaded weights. The metrics of a
  validation asked for at version *v* are reported under *v* also when later segments
  came from *v+1*.
- `RolloutResumes` excepts a parallel validation that is still running when the next
  one is due: `.get()` is called on an asyncio task (`fully_async_rollouter.py:294`), the call
  fails and `resume` is never reached.
- `PipelineEnds` excepts a file that a crash tore: it is not empty, so every later
  launch takes it for finished and fails on reading it. And what cannot be done:
  a given training file that is missing, an evaluation of a model nobody exported.
- `OneModelPerRun` promises one set of training rows as long as `DATA_PATH` stays the same. A launch with another
  `DATA_PATH` under one `RUN_DATE` continues the checkpoint of the earlier ones on its own rows, without a
  word, and answers that are there already count as its own (`Reuse`); the property then says that there are
  the rows of exactly those files and that none of them was rewritten.
- `EvaluatesWholeModel` excepts launches with `SAVE_MERGED_MODEL=false`: they take any
  `hf_merged` that has a `config.json` (`run_evaluation.py:42`).
- `DoneMeansEvaluated` is about the datasets that are there; one that is not is skipped
  with a warning (`eval_utils.py:372`) and the pipeline still ends well.
- `kl_trainer`, `weight_transfer`, `rollout_sync` and `run_pipeline` do not check for
  deadlock, because their systems stop: a finished or failed job, the last
  update, a failed `resume`, the last launch. Their liveness properties say where they may.
  `FullyAsync` has `Terminated` for its end, so deadlock there is checked.

## 4. Fairness

`KLTrainer!FairSpec` is weak fairness of the job's own steps and of the merger:
processes that are not killed go on. `Restart` has none: the job may never crash.
`FullyAsync!Fairness` is strong for the event loop's coroutines, because another
coroutine's turn disables a ready one, and asyncio's ready queue is first in, first
out, so one that is ready again and again does run; of the sample tasks it asks only that some
task goes on. It says too that generation
ends, timers fire and remote calls arrive. The trainer is a process of its own
and needs weak fairness only. `CheckpointEngine!FairSpec` and `RolloutSync!FairSpec` are weak
fairness per process: sender, manager and each receiver; rollouter, validation, each
server and each trajectory. No process takes another's turn, so weak is enough.
`SyncWeights` has none: the trainer may stop asking for updates.
`RunPipeline!FairSpec` lets the programs of a launch run and a stopped launch be launched
again; strong fairness of `LastSaveEnds` says that an epoch has an end
(`SaveBegins`, `SaveEnds` could alternate for ever). `Crash` and `TrainingFails` have none.

## 5. What is proved

| Theorem | Module | Statement |
|---|---|---|
| `QueueTypes` | `MessageQueueProofs` | `Spec => []TypeOK` |
| `QueueAccounting` | `MessageQueueProofs` | `Spec => []Accounting` |
| `QueueWakesCallers` | `MessageQueueProofs` | `Spec => []NoLostWakeup` |
| `Types` | `KLTrainerProofs` | `Spec => []TypeOK` |
| `ResumeIsExact` | `KLTrainerProofs` | `Spec => []LineageExact` |
| `ShardsNameTheirStep` | `KLTrainerProofs` | `Spec => []CheckpointsNameTheirStep` |
| `RotationTracksAll` | `KLTrainerProofs` | `Spec => []NoOrphanCheckpoints` |
| `RemovalIsSafe` | `KLTrainerProofs` | `Spec => RemovedOnlyForNewer` |
| `ExportIsFinal` | `KLTrainerProofs` | `Spec => []ExportedIsFinal` |
| `PipelineTypes` | `RunPipelineProofs` | `Spec => []TypeOK` |
| `PipelinePromptsFit` | `RunPipelineProofs` | `Spec => []PromptsFit` |
| `PipelineRewritesMatch` | `RunPipelineProofs` | `Spec => []RewritesMatch` |
| `PipelineOneModel` | `RunPipelineProofs` | `Spec => []OneModelPerRun` |
| `PipelineWholeModel` | `RunPipelineProofs` | `Spec => []EvaluatesWholeModel` |
| `PipelineDoneMeansEvaluated` | `RunPipelineProofs` | `Spec => []DoneMeansEvaluated` |
| `RolloutNoneSlipsPast` | `RolloutSyncProofs` | `Spec => []NoneSlipsPast` |
| `RolloutWeightsMoveAlone` | `RolloutSyncProofs` | `Spec => []WeightsMoveAlone` |
| `RolloutCompletedStays` | `RolloutSyncProofs` | `Spec => CompletedStays` |
| `RolloutVersionsBracket` | `RolloutSyncProofs` | `Spec => []VersionsBracket` |
| `RolloutContinuationExact` | `RolloutContinuation` | `ScriptShape => (Spec => []ContinuationExact)` |
| `RolloutValidationBracketed` | `RolloutContinuation` | `Spec => []ValidationBracketed` |
| `RolloutTypes` | `RolloutContinuation` | `ScriptShape => (Spec => []TypeOK)` |
| `AsyncTypes` | `FullyAsyncProofs` | `Spec => []TypeOK` |
| `AsyncUsesQueue` | `FullyAsyncProofs` | `Spec => MQ!Spec` |
| `AsyncPauseQuiesces` | `FullyAsyncProofs` | `Spec => []PauseQuiesces` |
| `AsyncSampleAccounting` | `FullyAsyncProofs` | `Spec => []SampleAccounting` |
| `AsyncOutstandingBound` | `FullyAsyncProofs` | `Spec => []OutstandingBound` |
| `AsyncProcessorSurvives` | `FullyAsyncProofs` | `PendingCapacity > MaxConcurrent => (Spec => []ProcessorSurvives)` |
| `TransferInvariant` | `CheckpointEngineProofs` | `Spec => []TransferInv` |
| `TransferTypes` | `CheckpointEngineProofs` | `Spec => []TypeOK` |
| `WeightStreamRefined` | `CheckpointEngineProofs` | `Spec => StreamRefined` (`WeightStream`'s specification) |
| `DoubleBuffering` | `CheckpointEngineProofs` | `Spec => NoOverwriteInUse` |

They hold for every value of the constants that satisfies `QueueAssumption`, or
`ConstantsAssumption` and `ExplicitAssumption` (the explicit checkpoint comes from
a run over the same batches), or `DatasetsAssumption`, `PipelineAssumption` and `DataPathsAssumption`, or
`RolloutAssumption`, or `FullyAsyncAssumption`, or `TransferAssumption` (some receiver, some
tensor, each of a positive size that fits a bucket, as `send_weights` asserts); TLC evaluates these on every run.

*Queue.* `TypeOK` is inductive. `Accounting` needs the types and that the capacity is
positive (a full queue then has an oldest sample to drop). `NoLostWakeup` is
inductive with the types: each step that makes the queue non-empty or closes it
notifies, and a caller goes to sleep only on an open and empty queue.

*Trainer, types.* `TypeOK` alone is not inductive: a resume and an export choose the
directory with the largest number (`Latest`, a `CHOOSE`), and that number is a natural
number only if there is a largest one. The invariant proved is `TypeOK` with
`Bounded(disk)`: the directory numbers have an upper bound. `MaxExists` turns the
bound into a maximum, by well-founded induction over a set of numbers;
`DiskBounded` shows that making, filling and rotating directories keep it. The
lemmas about the operators come before it: division with remainder as the resume plan
uses it (`DivModOfSum`, `ResumePlan`), and how `Chain` and `After` grow when a window
is applied (`ChainAppend`, `LiveAppend`).

*Trainer, lineage.* `LineageExact` speaks of the weights only, and a resume takes them
from the disk; `CheckpointsNameTheirStep` speaks of the disk, and a save writes what
the weights are at that moment. Neither is inductive alone, and both together are not
either, because what is trained next depends on `batch_idx` and `accum`, and where a resume
starts depends on `global_step`. `LineageInv` relates them. Inside an epoch in which
*k* steps were made, `global_step = epoch * OptimStepsPerEpoch + k` and
`batch_idx = k * GradAccum + Len(accum)` with less than a window accumulated, or
every batch was seen and every step made (`Aligned`). Nothing is accumulated in a save
(`NothingPending`). The weights with the pending batches are a chain of the
schedule that ends where the loop stands (`OnSchedule`). A full shard in directory
*s* is a chain that ends at `<<StartEpoch(s), SkipBatches(s)>>`
(`ShardOnSchedule`). The key lemma is `ResumePosition`: with nothing pending, the
place where the loop stands is the one computed from `global_step` alone, the
short last window of an epoch included. It is used in one direction when a shard is
written and in the other when one is loaded.

*Trainer, rotation.* `RemovedOnlyForNewer` is about a step, so it is proved from an
invariant that says what a save has reached and what the list holds. `SaveInv`: a
rank that has passed the first barrier's side has made the directory, a rank past its
shard has a full shard, and rank 0 at the second barrier has written the assets; so at
registration the directory is complete. `PathsInv`: the tracked paths are
increasing, complete and at most `global_step`, and strictly below it in a periodic
save. So what rotation removes, the front of the list, is older than something complete
that stays. `TrainedToEnd` bounds the final save: a life that has saved ends with
`global_step = TotalEpochs * OptimStepsPerEpoch`, so the final save can meet a tracked
path only if that number is a multiple of `save_steps`, and with a window of at least two the
duplicate stays behind; what is left is exactly `DuplicateFinalSave`. Each invariant
was checked by TLC as an invariant before it was proved.

*Trainer, export.* The merger takes the directory with the largest number, whoever wrote it. So
`ExportInv` bounds the numbers: a job that goes on from its newest directory has none
above `global_step` (`NewestInv`), and every life of a job with an explicit checkpoint ends at the
same step, `Goal`, which no directory exceeds (`GoalInv`, from `Aligned` and the epochs that
are left). `WrittenInv` says that what a rank has written in the save under way are its
weights; with `RegisterKeepsNew` the final directory survives its own registration, and
`FinalInv` carries it, newest and with the weights, through the metadata and the merger.
`AwaitedInv` excludes a second merger.

*Pipeline.* Each property has a strengthening of its own over `Typed` (the types, and that
a file is being written only from a whole input, so that lengths stay positive). `FitInv`:
while responses are generated, their prompts are within the limit of this launch; the
only way to a generation leads through the filter of its prompts, whoever wrote them.
`LineageInv`: whole prompts for rewrites carry the launch of the responses beside them, and
those are whole; so while responses are missing or in the making there are neither
whole rewrites nor prompts for them, and creating responses cannot break the tie.
`ModelInv` follows the rows that checkpoint, export and answers stem from (`Rows`): each is that of a whole
file, as it is now, which some launch had as its training file. Only `SaveBegins` adds one (`RowsStep`). A given
file is never written (`DataPathsAssumption`: it is none of the run's own), and once the generated one
has been trained on, no stage that writes data is ever entered again, whatever `DATA_PATH` launches have in
between: `Prepare` goes straight to the update.
`WholeInv`: in an evaluation after an export in the same launch, `merged` is not
torn. `DoneInv`: a results entry exists only for a dataset with whole answers and a score,
an evaluation's datasets are left to do or scored (`Scored`), and the dataset whose answers are being
written was not scored, so that opening its file destroys nothing a result rests on.

*Rollout.* The number of trajectories, servers and updates, the script of a conversation and the
limits are arbitrary. `WeightsMoveAlone` rests on `TasksOfSample` (a trajectory's task
exists only while its sample runs) and `Sealed` (from the end of `pause()` to the end of the update every server
and worker has been cancelled and serves nothing, and a sample that is submitted or runs is one that a
late recovery let through); `CompletedStays` on `WorkIsOpen` (what runs has `cancel` set, so a
complete trajectory has no work that could change it); all use `Shaped`, the part of
the types that matters. `VersionsBracket` speaks of complete trajectories only; what makes
it inductive is `VersionsInv`. Outside an update every server holds the whole of the version the
rollouter knows, and inside one a server that reports a version has all its tensors
(`WholeModels`). A running sample was started under the present version, or, after a late recovery, under the
one before (`RunsNow`). The words
of a trajectory at work lie between its first version and the present one, in order,
and an answer under way is of the present version throughout (`Generated`). So when a turn
completes, its end is the present version and covers the segments of older ones; if it was
overtaken, the present version is one more (`LastVersion`).

*Rollout, continuation.* `ContinuationExact` speaks of what a trajectory has in the end or
when it is cut; `ContinuationInv` says what it has at every place of its coroutine.
`Exact`: its words, masks and log-probabilities are the script's so far (`WordsExact`); it
can be taken up where it stands or has ended where an uninterrupted one does (`Taken`);
a request at a server asks for the words behind the trajectory's and is over exactly at
the end of the turn (`Asked`). One exception remains, a tool call that was cut in two,
and to show that nothing else falls under it takes three facts about the update: no server serves
between `pause()` and `resume` (`Sealed`), a request is told to
stop by a server that has closed (`ToldClosed`), and half a call waits, or asks closed servers,
until its version is past (`Parted`), so the halves carry different versions. The words of a
conversation are a constant, and the property is about conversations of two shapes,
`ScriptShape`: one turn, or a call, its answer and a closing turn, none longer than
`max_model_len`. It is the hypothesis of the theorem, and `MCRolloutSync` has TLC evaluate it.

*Rollout, validation and types.* A validation runs beside the updates and is protected by
`abort_all_requests` alone. `StoppedWhileTorn`: if an abort stops an engine (`pausing`, vLLM
from 0.12 on), an engine that takes requests has the whole of the last model. `ValidationInv` then
ties the words so far to the least and greatest step reported, and those being
generated to the engine's present step. `TypeOK` follows from these invariants with the
ranges of the counters (`Counted`), the places (`Places`) and `EndsByNow`: no trajectory
ends in a version to come.

*Asynchronous trainer.* `TypeOK` needs one fact more, `FeedInv` (a feeder that has not ended has a
sample left), or the next sample might lie outside the range. `PauseQuiesces` needs
`PauseOwnsLock`: from the moment `pause()` sets `paused` until it returns it holds
`self.lock`, so the processor, which starts a task only under that lock, cannot start one
after `gather` has seen the last end; the other lock owners are excluded by
the same fact. The monitor's late `paused = False` (finding 3) needs the lock as well, so it cannot fall into
this window, only after it. `AsyncUsesQueue` shows that the composition's steps are steps of
`MessageQueue`; what is proved about the queue holds inside the trainer.

*Asynchronous trainer, accounting.* `SampleAccounting` compares numbers, and numbers are not
enough to go on: the invariant is about places. `OnePlace`: no sample is in two of the seven
places (fed, held, in a task, cancelled, queued, in the trainer's batch, trained) or
twice in one queue; only what was fed is anywhere (`OnlyFed`), and what is missing is
bounded by the failures and drops counted (`LostCounted`). What makes it inductive is
`HeldKept`: the processor takes a sample only when it holds none, so a sample that it keeps while
it drains tasks or waits for the end of a pause is never overwritten. `OutstandingBound` rests on
`Bounded`: `staleness_samples` may be one less than what is in flight, because
`update_param_version` recounts without the sample the processor holds; while it awaits
the queue's size it owns the lock, so no other sample can slip past the recount, and a processor
that has passed the test takes one more and no second one.

*Asynchronous trainer, first wait.* `ProcessorSurvives` is about the first round of the
drain loop only, and the argument follows the schedule up to it (`FirstWait`): before the processor
takes anything (`BeforeFirst`), while it submits without giving up the event loop
(`FirstBurst`), in its first wait (`FirstWaiting`). Until then nothing has come back, so no
pause can empty `active_tasks` (`NothingBack`), and `Enough` says that `pending_queue` still
brings the processor to a wait: it is as deep as what is missing to the
concurrency limit, or ends in the end marker. That needs `PendingCapacity > MaxConcurrent`,
the condition of section 3.

*Weight transfer.* Number of receivers, tensors and updates, the sizes of tensors and buffers and the
engine are arbitrary. `StreamRefined` speaks of what workers have loaded, `NoOverwriteInUse` of
halves of buffers, and what connects them is the way of a bucket. `TransferInv` is `Resting`
(between updates nothing is on its way and everybody has the whole model) or `Moving`:

- *Packing.* Sender and receivers never tell each other where a bucket begins except through the
  description, so the invariant compares every place with `OffsetOf`, the greedy packing. It is a recursive
  function; that it has a value is proved by well-founded induction on the number of tensors
  (`PackingExists`), then that it satisfies its recursion (`OffsetUnfolds`) and that every tensor lies
  within a half (`OffsetFits`).
- *Contents.* A bucket described to a rank and not used up lies whole, as sent, in the half it was described in
  (`Offered`, `Landed`, `OutOK`, and `TxOK` for the bucket being packed).
- *Order.* Tensors follow each other without gap or repetition: loaded, cloned and in the IPC buffer
  (`Passed`), in hand (`Pos`), come in (`Got`), on the way, up to what the rank before has
  given (`Given`). So when a receiver sees the end marker, it has everything.
- *Links.* Why a half is free when it is written to differs by engine. `NcclLink`: the sender
  goes on only when every receiver has read the last bucket, so at most one is on its way. `NixlLink`: a rank
  offers its next bucket only when the successor's notification has come. `MooncakeLink`: several buckets may be on their way, but
  a rank and its successor are at most two buckets apart, because a half is marked only by
  a successor that has used it up.

`Safe` restricts the contents to what Mooncake's late marker cannot reach (section 3,
`MarkerRace`); order, places and counts hold for those tensors too. `TypeOK`, the refinement of
`WeightStream` (a step that loads is `LoadTensors`, the manager's call is `BeginUpdate`, all others
stutter) and `NoOverwriteInUse` follow from `TransferInv` and the step at hand. TLC
checked the invariant on instances of two and of three receivers (a middle rank with neighbours on either side) before the proof.

Every inductive invariant was checked by TLC before its proof, those of the continuation with
limits 0 to 5 on 477,243 states without late recoveries and with limits 3 and 5 on 1,175,706 states with late recoveries anywhere, those of the accounting on the instance of `fully_async`.

*Model-checked only.* Every invariant, action property and refinement that a run checks is
proved. Liveness under fairness (`FinishesUnlessTorn`, `RunEnds`, `TransferEnds`,
`SampleCompletes`, `RolloutResumes`, `PipelineEnds`) and anything with `ENABLED` stays with TLC:
the proof system does not do it. Induction over data that needs a theorem with an
operator as its parameter is out of its reach too; where a proof needs it, it is replaced by the
least element of a set of counterexamples (`LeastNumber`, `MaxExists`).

## 6. Disagreements found

Each is a run that TLC ends with a counterexample; `PROJECT.json` quotes the lines.

1. `kl_last_save`: when the last optimizer step is also a periodic save, the final
   save registers the same path again and, with `max_ckpt_to_keep=1`, the rotation
   removes the directory just written.
2. `kl_unsharded`: with one data-parallel rank a resumed run draws a different
   order for the epoch, so skipping the first batches does not skip the trained ones.
3. `fully_async_sync`: the monitor decides that the pause may end before it has
   the lock, gets the lock after `pause()` has returned, and clears `paused` while weights are
   being replaced. Its consequences for versions and termination are the exceptions of `VersionsBracket` and
   `RunEnds` (section 3).
4. `fully_async_end`: the processor can take the end marker before samples that a
   pause then cancels; they are never generated, although it announces to wait for the remaining tasks.
5. `fully_async_final`: the additional synchronisation at the end of `fit()` passes
   an argument the method does not take; the last steps are not synchronised.

## 7. What is not modelled

- *Tensors, losses, text, logging, argument parsing*: data or wording. Models, kernels,
  Megatron and FSDP workers, the VLA experiment, reward scoring, LiveCodeBench belong here. They are
  by far the larger part of the repository's lines, so the map covers a small share
  of them: what is modelled is the part with control that outlives a call or concurrency of its own.
- *PPO and one-step-off-policy trainers, single controller*: sequential drivers around
  remote numeric work, or splitting and joining of batches; scheduling is Ray's.
- *Reward loop*: its limiter measures wall-clock time in floating point.
- *Kimi checkpoint engine* (an external parameter server), `add_replicas` and
  `remove_replicas` (`base.py:377` says an added replica rebuilds the process group; the NCCL
  engine asserts that rank and size did not change, so it cannot with that engine), timeouts
  of the IPC sockets, tensors larger than a bucket (asserted against; `TransferAssumption`).
- *Agent loops*: interactions, bounds on the number of turns, `partial_rollout=False`,
  the bookkeeping of `max_tokens` in a continued validation, the SGLang server. Any server may be chosen, not only
  the one with the fewest requests.
- *Pipeline*: the benchmark of the code task, `run_benchmark_batch`, PASS_K or training
  parameters changed under one `RUN_DATE` (`DATA_PATH` and the limits may change), a `DATA_PATH` that names
  a file in the run's own directory or whose content changes between launches; a new `RUN_DATE` is `Init` again.
- *Checkpoint and resume of the asynchronous trainer*: the dataloader is saved without the
  samples in flight, as a comment there says.
- *Version lag of trained samples*: the code promises a bound on how many samples
  are ahead, not on how old a sample's version is, so no such property is stated.
- *Floating point* in `set_max_required_samples`: percentages are exact here.
- *`find_latest_ckpt_path` and tracker files, save contents other than the default*:
  used by the other trainers. *Alignment of prompts and responses* in `KLTrainingDataset`:
  a function of one row.

## 8. How it was built, and what could come next

In the order of importance: `KLTrainer`, `MessageQueue` and `FullyAsync` (which composes
the queue) first; then `CheckpointEngine` with its abstract specification `WeightStream`,
`PartialRollout` with `RolloutSync` (which composes it with `WeightStream`), and
`RunPipeline`; proofs after the runs. Next would be:

1. `SamplePipeline`: an abstract specification of what the asynchronous trainer
   promises for a sample (fed, generating, queued, trained, or dropped for a stated reason),
   and `FullyAsync` shown to implement it.
2. `CheckpointStore`: an abstract checkpoint directory that only grows newer, implemented by
   `KLTrainer` and used by `RunPipeline`.
