------------------------------ MODULE KLTrainer ------------------------------
(***************************************************************************)
(* The distillation trainer of recipe/opd/kl_trainer.py together with the  *)
(* FSDP checkpoint manager it saves through: the batch loop with gradient  *)
(* accumulation, the periodic and the final checkpoint, rotation of old    *)
(* checkpoints, resume after a crash, and the export of a merged model.    *)
(*                                                                         *)
(* Weights are abstracted to their lineage: the sequence of batches whose  *)
(* gradients an optimizer step applied.  A batch is a pair <<epoch, data>>. *)
(* The ranks run in lockstep between collectives, so global_step, epoch    *)
(* and batch_idx are shared; inside a save they interleave.                *)
(***************************************************************************)
EXTENDS Integers, Sequences, FiniteSets

CONSTANTS
    Ranks,            \* ranks of the process group; rank 0 rotates checkpoints
    BatchesPerEpoch,  \* len(self.train_dataloader)
    GradAccum,        \* config.gradient_accumulation_steps
    TotalEpochs,      \* config.total_epochs
    Configs,          \* the remaining configuration choices, see ConfigType
    ExplicitStep,     \* step in the name of config.resume_checkpoint_path
    ExplicitWeights,  \* lineage stored in that checkpoint
    MaxRestarts       \* bound: how often the job is launched again

\* save_steps: config.save_steps
\* keep:    config.max_ckpt_to_keep          lora:  config.use_lora
\* export:  no export, awaited export, or config.async_hf_export
\* resume:  no resume_checkpoint_path, one that is a directory, one that is not
\* mode:    config.resume_checkpoint_mode    sharded: dp_size > 1
ConfigType ==
    [save_steps : Nat \ {0}, keep : Int, lora : BOOLEAN,
     export : {"none", "sync", "async"},
     resume : {"auto", "explicit", "missing"},
     mode : {"continue", "initialize"}, sharded : BOOLEAN]

Batch == Nat \X Nat

\* The batch an uninterrupted run trains after batch b.
NextBatch(b) ==
    IF b[2] + 1 = BatchesPerEpoch THEN <<b[1] + 1, 0>> ELSE <<b[1], b[2] + 1>>

\* Lineage w starts at the first batch and follows the schedule batch by batch.
Chain(w) ==
    /\ w # << >> => w[1] = <<0, 0>>
    /\ \A i \in 1 .. Len(w) - 1 : w[i + 1] = NextBatch(w[i])

\* The batch that comes next for weights of lineage w.
After(w) == IF w = << >> THEN <<0, 0>> ELSE NextBatch(w[Len(w)])

\* train(): optim_steps_per_epoch = max(1, ceil(batches_per_epoch / grad_accum)).
CeilDiv(a, b) == (a + b - 1) \div b
OptimStepsPerEpoch ==
    LET c == CeilDiv(BatchesPerEpoch, GradAccum) IN IF c > 1 THEN c ELSE 1

\* Mutant: the epoch of the last completed step instead of the next one.
StartEpochOfLast(step) == (step - 1) \div OptimStepsPerEpoch

\* train(): start_epoch and initial_skip_batches after resuming at a step.
StartEpoch(step) == step \div OptimStepsPerEpoch
SkipBatches(step) == (step % OptimStepsPerEpoch) * GradAccum

ASSUME ConstantsAssumption ==
    /\ 0 \in Ranks
    /\ BatchesPerEpoch \in Nat /\ TotalEpochs \in Nat
    /\ GradAccum \in Nat \ {0}
    /\ Configs \subseteq ConfigType
    /\ MaxRestarts \in Nat

\* The explicit checkpoint was saved by a run over the same batches.
ASSUME ExplicitAssumption ==
    /\ ExplicitStep \in Nat \ {0} /\ ExplicitWeights \in Seq(Batch)
    /\ BatchesPerEpoch # 0 =>
         /\ Chain(ExplicitWeights)
         /\ After(ExplicitWeights) = <<StartEpoch(ExplicitStep), SkipBatches(ExplicitStep)>>

VARIABLES
    conf,         \* the configuration, fixed for the job
    phase,        \* where the job is: see Phases
    at,           \* [Ranks -> ...] progress of each rank inside a save
    final,        \* the save under way is train()'s last one
    global_step,
    epoch,
    batch_idx,    \* index of the next batch of the epoch
    order,        \* the sampler's order of the epoch's batches
    accum,        \* batches with a gradient accumulated since the last step
    weights,      \* [Ranks -> lineage of the rank's shard]
    base,         \* ghost: [Ranks -> number of batches in the loaded lineage]
    previous_saved_paths,  \* CheckpointManager's in-memory list of steps
    disk,         \* step -> checkpoint directory global_step_<step>
    inherited,    \* ghost: directories that were there when the job started
    merged,       \* the hf_merged directory
    exporter,     \* step whose directory the background export reads, or 0
    restarts      \* launches so far beyond the first (bounded by MaxRestarts)

jobVars   == <<global_step, epoch, batch_idx, order, accum, weights, base>>
saveVars  == <<at, final, previous_saved_paths, disk>>
mergeVars == <<merged, exporter>>
hostVars  == <<conf, inherited, restarts>>
vars == <<phase, jobVars, saveVars, mergeVars, hostVars>>

Phases == {"launch", "batch", "mkdir", "dump", "register", "meta", "export",
           "merging", "done", "failed"}
SavePhases == {"mkdir", "dump", "register", "meta"}

\* A rank's shard files in a directory, and the directory.
Shard == [state : {"absent", "torn", "full"}, lineage : Seq(Batch)]
Absent == [state |-> "absent", lineage |-> << >>]
Torn   == [state |-> "torn", lineage |-> << >>]
Full(w) == [state |-> "full", lineage |-> w]
Dir == [shard : [Ranks -> Shard], assets : BOOLEAN]
EmptyDir == [shard |-> [r \in Ranks |-> Absent], assets |-> FALSE]

\* load_checkpoint reads every rank's shard files, nothing else.
Loadable(d) == \A r \in Ranks : d.shard[r].state = "full"
\* The model merger also reads the config assets rank 0 writes last.
Mergeable(d) == Loadable(d) /\ d.assets

\* Mutant: the oldest directory is picked.
Oldest(f) == CHOOSE s \in DOMAIN f : \A t \in DOMAIN f : s <= t

\* max(glob("global_step_*")), for a non-empty set of directories.
Latest(f) == CHOOSE s \in DOMAIN f : \A t \in DOMAIN f : t <= s

\* Orders a sampler can produce.  DistributedSampler shuffles with a fixed seed
\* and the epoch, so batches are named by their place in that order; the
\* RandomSampler of an unsharded loader draws from the process-wide generator.
Identity == [i \in 0 .. BatchesPerEpoch - 1 |-> i]
Orders ==
    IF conf.sharded THEN {Identity}
    ELSE {f \in [0 .. BatchesPerEpoch - 1 -> 0 .. BatchesPerEpoch - 1] :
            \A i, j \in 0 .. BatchesPerEpoch - 1 : f[i] = f[j] => i = j}

Init ==
    /\ conf \in Configs
    /\ phase = "launch"
    /\ at = [r \in Ranks |-> "idle"] /\ final = FALSE
    /\ global_step = 0 /\ epoch = 0 /\ batch_idx = 0
    /\ order = Identity /\ accum = << >>
    /\ weights = [r \in Ranks |-> << >>] /\ base = [r \in Ranks |-> 0]
    /\ previous_saved_paths = << >>
    /\ disk = << >> /\ inherited = {}
    /\ merged = EmptyDir /\ exporter = 0
    /\ restarts = 0
-----------------------------------------------------------------------------
(* Resume: _maybe_resume_from_checkpoint and the resume plan of train().   *)

\* Enter the epoch loop with weights w at step s of the schedule.
BeginTraining(w, s) ==
    /\ phase' = "batch"
    /\ weights' = w /\ base' = [r \in Ranks |-> Len(w[r])]
    /\ global_step' = s
    /\ epoch' = StartEpoch(s) /\ batch_idx' = SkipBatches(s)
    /\ accum' = << >> /\ order' \in Orders
    /\ UNCHANGED <<saveVars, mergeVars, hostVars>>

Fail == phase' = "failed" /\ UNCHANGED <<jobVars, saveVars, mergeVars, hostVars>>

ResumedStep(s) == IF conf.mode = "continue" THEN s ELSE 0

ResumeExplicit ==
    /\ phase = "launch" /\ conf.resume = "explicit"
    /\ BeginTraining([r \in Ranks |-> ExplicitWeights], ResumedStep(ExplicitStep))

ResumeMissing == phase = "launch" /\ conf.resume = "missing" /\ Fail

StartFromScratch ==
    /\ phase = "launch" /\ conf.resume = "auto" /\ DOMAIN disk = {}
    /\ BeginTraining([r \in Ranks |-> << >>], 0)

ResumeLatest ==
    /\ phase = "launch" /\ conf.resume = "auto" /\ DOMAIN disk # {}
    /\ LET s == Latest(disk) IN
         IF Loadable(disk[s])
           THEN BeginTraining([r \in Ranks |-> disk[s].shard[r].lineage], ResumedStep(s))
           ELSE Fail
-----------------------------------------------------------------------------
(* train_epoch and the epoch loop of train().                              *)

\* Mutant: no optimizer step for the short window at the end of an epoch.
ShouldStepNoTail(i) == (i + 1) % GradAccum = 0
\* Mutant: the window is counted from the batch's index, not its number.
ShouldStepEarly(i) == i % GradAccum = 0 \/ i + 1 = BatchesPerEpoch

ShouldStep(i) == (i + 1) % GradAccum = 0 \/ i + 1 = BatchesPerEpoch

EnterSave(isFinal) ==
    /\ phase' = "mkdir" /\ final' = isFinal
    /\ at' = [r \in Ranks |-> "mkdir"]
    /\ UNCHANGED <<previous_saved_paths, disk>>

\* One batch: forward, backward and, at the end of an accumulation window or of
\* the epoch, the optimizer step; every save_steps-th step saves a checkpoint.
TrainBatch ==
    /\ phase = "batch" /\ epoch < TotalEpochs /\ batch_idx < BatchesPerEpoch
    /\ batch_idx' = batch_idx + 1
    /\ LET acc == Append(accum, <<epoch, order[batch_idx]>>) IN
       \/ /\ ~ShouldStep(batch_idx)
          /\ accum' = acc
          /\ UNCHANGED <<phase, saveVars, weights, global_step>>
       \/ /\ ShouldStep(batch_idx)
          /\ accum' = << >>
          /\ weights' = [r \in Ranks |-> weights[r] \o acc]
          /\ global_step' = global_step + 1
          /\ IF (global_step + 1) % conf.save_steps = 0
               THEN EnterSave(FALSE) ELSE UNCHANGED <<phase, saveVars>>
    /\ UNCHANGED <<epoch, order, base, mergeVars, hostVars>>

\* The loader is exhausted: the next epoch draws its order and drops gradients.
NextEpoch ==
    /\ phase = "batch" /\ epoch < TotalEpochs /\ batch_idx >= BatchesPerEpoch
    /\ epoch' = epoch + 1 /\ batch_idx' = 0
    /\ accum' = << >> /\ order' \in Orders
    /\ UNCHANGED <<phase, global_step, weights, base, saveVars, mergeVars, hostVars>>

FinishTraining ==
    /\ phase = "batch" /\ epoch >= TotalEpochs
    /\ IF global_step = 0
         THEN phase' = "failed" /\ UNCHANGED saveVars
         ELSE EnterSave(TRUE)
    /\ UNCHANGED <<jobVars, mergeVars, hostVars>>
-----------------------------------------------------------------------------
(* _save_checkpoint: FSDPCheckpointManager.save_checkpoint and its callers. *)

\* max_keep: only a positive max_ckpt_to_keep limits the window.
Limited == conf.keep > 0

Without(f, S) == [s \in DOMAIN f \ S |-> f[s]]
With(f, s, d) == [t \in DOMAIN f \cup {s} |-> IF t = s THEN d ELSE f[t]]
SeqElements(q) == {q[i] : i \in 1 .. Len(q)}

\* Mutant: the list is trimmed, the directories stay.
RotateListOnly(paths, f, n) ==
    /\ disk' = f
    /\ previous_saved_paths' = SubSeq(paths, n + 1, Len(paths))

\* Drop the first n tracked paths and their directories (rmtree).
Rotate(paths, f, n) ==
    /\ disk' = Without(f, SeqElements(SubSeq(paths, 1, n)))
    /\ previous_saved_paths' = SubSeq(paths, n + 1, Len(paths))

\* local_mkdir_safe on an existing directory changes nothing.
MakeDir(f) == IF global_step \in DOMAIN f THEN f ELSE With(f, global_step, EmptyDir)

\* Mutant: room is made for a window of one too.
EnsureCapacityDropAny ==
    IF Limited /\ Len(previous_saved_paths) >= conf.keep
      THEN Len(previous_saved_paths) - conf.keep + 1 ELSE 0

\* Number of paths ensure_checkpoint_capacity removes before a save.
EnsureCapacityDrop ==
    IF conf.keep > 1 /\ Len(previous_saved_paths) >= conf.keep
      THEN Len(previous_saved_paths) - conf.keep + 1 ELSE 0

\* Rank 0 makes room before it creates the directory; the others only create it.
EnsureCapacity ==
    /\ phase = "mkdir" /\ at[0] = "mkdir"
    /\ at' = [at EXCEPT ![0] = "made_room"]
    /\ Rotate(previous_saved_paths, disk, EnsureCapacityDrop)
    /\ UNCHANGED <<phase, final, jobVars, mergeVars, hostVars>>

LocalMkdir(r) ==
    /\ phase = "mkdir"
    /\ at[r] = IF r = 0 THEN "made_room" ELSE "mkdir"
    /\ at' = [at EXCEPT ![r] = "barrier"]
    /\ disk' = MakeDir(disk)
    /\ UNCHANGED <<phase, final, previous_saved_paths, jobVars, mergeVars, hostVars>>

\* torch.save truncates a rank's files and writes them; not atomic.
PutShard(r, v) == disk' = [disk EXCEPT ![global_step].shard[r] = v]

OpenShard(r) ==
    /\ phase = "dump" /\ at[r] = "dump"
    /\ at' = [at EXCEPT ![r] = "writing"]
    /\ PutShard(r, Torn)
    /\ UNCHANGED <<phase, final, previous_saved_paths, jobVars, mergeVars, hostVars>>

CloseShard(r) ==
    /\ phase = "dump" /\ at[r] = "writing"
    /\ at' = [at EXCEPT ![r] = IF r = 0 THEN "assets" ELSE "barrier"]
    /\ PutShard(r, Full(weights[r]))
    /\ UNCHANGED <<phase, final, previous_saved_paths, jobVars, mergeVars, hostVars>>

\* Rank 0 adds the huggingface/ config and fsdp_config.json after its shard.
WriteAssets ==
    /\ phase = "dump" /\ at[0] = "assets"
    /\ at' = [at EXCEPT ![0] = "barrier"]
    /\ disk' = [disk EXCEPT ![global_step].assets = TRUE]
    /\ UNCHANGED <<phase, final, previous_saved_paths, jobVars, mergeVars, hostVars>>

\* torch.distributed.barrier(): everyone arrived, everyone goes on.
Barrier ==
    /\ phase \in {"mkdir", "dump"} /\ \A r \in Ranks : at[r] = "barrier"
    /\ phase' = IF phase = "mkdir" THEN "dump" ELSE "register"
    /\ at' = [r \in Ranks |-> IF phase = "mkdir" THEN "dump" ELSE "idle"]
    /\ UNCHANGED <<final, previous_saved_paths, disk, jobVars, mergeVars, hostVars>>

\* Mutant: one path too many is removed.
RegisterDropOne(paths) ==
    IF Limited /\ Len(paths) >= conf.keep THEN Len(paths) - conf.keep + 1 ELSE 0

\* Number of paths register_checkpoint removes after appending the new one.
RegisterDrop(paths) ==
    IF Limited /\ Len(paths) > conf.keep THEN Len(paths) - conf.keep ELSE 0

RegisterCheckpoint ==
    /\ phase = "register"
    /\ LET paths == Append(previous_saved_paths, global_step)
       IN  Rotate(paths, disk, RegisterDrop(paths))
    /\ phase' = "meta"
    /\ UNCHANGED <<at, final, jobVars, mergeVars, hostVars>>

\* LoRA: rank 0 makes sure the directory exists and adds lora_train_meta.json.
\* Then the batch loop goes on, or train() turns to the export.
WriteLoraMeta ==
    /\ phase = "meta"
    /\ disk' = IF conf.lora THEN MakeDir(disk) ELSE disk
    /\ phase' = CASE ~final -> "batch"
                  [] final /\ conf.export = "none" -> "done"
                  [] OTHER -> "export"
    /\ UNCHANGED <<at, final, previous_saved_paths, jobVars, mergeVars, hostVars>>
-----------------------------------------------------------------------------
(* _export_hf_model, _launch_hf_export_async and the merger process.       *)

\* No directory: _find_latest_checkpoint raises on every rank.
ExportNothing ==
    /\ phase = "export" /\ DOMAIN disk = {} /\ Fail

\* The merger creates its target, then reads shards into it.
ExportSync ==
    /\ phase = "export" /\ conf.export = "sync" /\ DOMAIN disk # {}
    /\ phase' = "merging" /\ exporter' = Latest(disk)
    /\ merged' = [merged EXCEPT !.assets = FALSE]
    /\ UNCHANGED <<jobVars, saveVars, hostVars>>

LaunchExportAsync ==
    /\ phase = "export" /\ conf.export = "async" /\ DOMAIN disk # {}
    /\ phase' = "done" /\ exporter' = Latest(disk)
    /\ merged' = [merged EXCEPT !.assets = FALSE]
    /\ UNCHANGED <<jobVars, saveVars, hostVars>>

\* The merger ends: a complete source becomes the merged model, anything else is
\* an error.  The awaited merger's error is broadcast and raised on every rank.
MergerSucceeds == exporter \in DOMAIN disk /\ Mergeable(disk[exporter])

MergerEnds ==
    /\ exporter # 0
    /\ merged' = IF MergerSucceeds THEN disk[exporter] ELSE merged
    /\ exporter' = 0
    /\ phase' = CASE phase = "merging" /\ MergerSucceeds -> "done"
                  [] phase = "merging" /\ ~MergerSucceeds -> "failed"
                  [] OTHER -> phase
    /\ UNCHANGED <<jobVars, saveVars, hostVars>>
-----------------------------------------------------------------------------
(* A crash, an exception on one rank (os._exit in run_training.py, after   *)
(* which torchrun kills the others) or an operator's rerun: the memory of  *)
(* every rank is gone, the disk stays.  The awaited merger dies too; the   *)
(* background one runs in a session of its own.                            *)
Restart ==
    /\ restarts < MaxRestarts /\ restarts' = restarts + 1
    /\ phase # "launch" /\ phase' = "launch"
    /\ at' = [r \in Ranks |-> "idle"] /\ final' = FALSE
    /\ global_step' = 0 /\ epoch' = 0 /\ batch_idx' = 0
    /\ order' = Identity /\ accum' = << >>
    /\ weights' = [r \in Ranks |-> << >>] /\ base' = [r \in Ranks |-> 0]
    /\ previous_saved_paths' = << >>
    /\ inherited' = DOMAIN disk
    /\ exporter' = IF phase = "merging" THEN 0 ELSE exporter
    /\ UNCHANGED <<conf, disk, merged>>

RankStep(r) == LocalMkdir(r) \/ OpenShard(r) \/ CloseShard(r)

JobStep ==
    \/ ResumeExplicit \/ ResumeMissing \/ StartFromScratch \/ ResumeLatest
    \/ TrainBatch \/ NextEpoch \/ FinishTraining
    \/ EnsureCapacity \/ WriteAssets \/ Barrier
    \/ (\E r \in Ranks : RankStep(r))
    \/ RegisterCheckpoint \/ WriteLoraMeta
    \/ ExportNothing \/ ExportSync \/ LaunchExportAsync

Next == JobStep \/ MergerEnds \/ Restart

Spec == Init /\ [][Next]_vars

\* The job and the merger keep running unless the job is killed; how often it
\* is killed or launched again is up to the environment.
FairSpec == Spec /\ WF_vars(JobStep) /\ WF_vars(MergerEnds)
-----------------------------------------------------------------------------
(* Properties.                                                             *)

\* Types of the state.
TypeOK ==
    /\ conf \in Configs /\ phase \in Phases /\ final \in BOOLEAN
    /\ at \in [Ranks -> {"idle", "mkdir", "made_room", "dump", "writing",
                         "assets", "barrier"}]
    /\ global_step \in Nat /\ epoch \in Nat /\ batch_idx \in Nat
    /\ order \in [0 .. BatchesPerEpoch - 1 -> 0 .. BatchesPerEpoch - 1]
    /\ accum \in Seq(Batch) /\ weights \in [Ranks -> Seq(Batch)]
    /\ base \in [Ranks -> Nat]
    /\ previous_saved_paths \in Seq(Nat)
    /\ DOMAIN disk \subseteq Nat /\ \A s \in DOMAIN disk : disk[s] \in Dir
    /\ inherited \subseteq Nat /\ merged \in Dir /\ exporter \in Nat
    /\ restarts \in Nat

\* Where the batch loop stands, with the end of an epoch read as the start of
\* the next one.
Position ==
    IF batch_idx = BatchesPerEpoch THEN <<epoch + 1, 0>> ELSE <<epoch, batch_idx>>

\* The batches this run is accountable for: with "continue" the loaded ones too.
Accountable(r) ==
    (IF conf.mode = "continue" THEN weights[r]
     ELSE SubSeq(weights[r], base[r] + 1, Len(weights[r]))) \o accum

Running == phase \notin {"launch", "failed"}

\* However often the job crashes and resumes, the batches behind the live weights
\* (and the gradients accumulated on top) are the schedule from its first batch
\* to the batch the loop stands at: train()'s resume plan (start_epoch and
\* skip_batches from global_step) neither repeats nor skips a batch, even when
\* the last accumulation window of an epoch is short.
LineageExact ==
    conf.sharded /\ BatchesPerEpoch > 0 /\ Running =>
        \A r \in Ranks :
            /\ Chain(Accountable(r))
            /\ After(Accountable(r)) = Position

\* A shard written completely into global_step_<s> holds exactly the weights a
\* resume at step s expects, whichever rank wrote it and in whichever life of
\* the job, so a directory overwritten in place after a crash never mixes
\* weights of different steps.
CheckpointsNameTheirStep ==
    conf.sharded /\ conf.mode = "continue" /\ BatchesPerEpoch > 0 =>
        \A s \in DOMAIN disk, r \in Ranks :
            LET sh == disk[s].shard[r] IN
            sh.state = "full" =>
                /\ Chain(sh.lineage)
                /\ After(sh.lineage) = <<StartEpoch(s), SkipBatches(s)>>

\* Every directory on disk is tracked for rotation, is the one being saved, or
\* was left by an earlier life of the job, and at most max_ckpt_to_keep are
\* tracked, in a save too: rotation never loses track of one it saved.
NoOrphanCheckpoints ==
    /\ \A s \in DOMAIN disk :
          \/ s \in SeqElements(previous_saved_paths) \cup inherited
          \/ phase \in SavePhases /\ s = global_step
    /\ Limited => Len(previous_saved_paths) <= conf.keep

\* The last optimizer step is also a periodic save, and the window is one: the
\* final save then registers the same path twice (see SavedCheckpointSurvives).
DuplicateFinalSave ==
    conf.keep = 1 /\ (TotalEpochs * OptimStepsPerEpoch) % conf.save_steps = 0

\* A complete checkpoint is removed only once a newer one is complete on disk
\* (ensure_checkpoint_capacity: "we keep the existing checkpoint until the new save
\* completes successfully"), so a crash at any point of a save leaves one.
RemovedOnlyForNewer ==
    [][~DuplicateFinalSave =>
          \A s \in DOMAIN disk \ DOMAIN disk' :
              Mergeable(disk[s]) => \E t \in DOMAIN disk' : t > s /\ Mergeable(disk'[t])]_vars

\* When an awaited export ended without error, hf_merged holds the weights
\* training ended with, not those of an older directory max() happened to find.
\* Not claimed for "initialize" without a path, where older directories of the
\* same save_dir have larger numbers, nor for a duplicated final save.
ExportedIsFinal ==
    /\ phase = "done" /\ conf.export = "sync" /\ ~DuplicateFinalSave
    /\ conf.mode = "continue" \/ conf.resume = "explicit"
    => Mergeable(merged) /\ \A r \in Ranks : merged.shard[r].lineage = weights[r]

\* The job ends well unless it was configured not to, or died while it was
\* writing the newest directory, or removed its own final checkpoint: every
\* other interruption is recovered from.
FinishesUnlessTorn ==
    <>[](\/ phase = "done"
         \/ phase = "failed" /\ (conf.resume = "missing" \/ DuplicateFinalSave)
         \/ phase = "failed" /\ DOMAIN disk # {} /\ ~Loadable(disk[Latest(disk)]))

\* register_checkpoint's "Register a successfully saved checkpoint and enforce
\* retention limit": right after the registration the checkpoint is on disk.
SavedCheckpointSurvives ==
    phase = "meta" => global_step \in DOMAIN disk /\ Loadable(disk[global_step])

\* --resume_checkpoint_mode: "continue=resume same run and skip completed
\* optimizer steps": no batch of an epoch is applied twice.
CompletedStepsSkipped ==
    conf.mode = "continue" =>
        \A r \in Ranks : \A i, j \in 1 .. Len(weights[r]) :
            weights[r][i] = weights[r][j] => i = j
=============================================================================
