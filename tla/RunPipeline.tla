---------------------------- MODULE RunPipeline ----------------------------
(***************************************************************************)
(* recipe/opd/run/run_kl_training.sh: training data, update, evaluation,   *)
(* launched again and again on the directories of one RUN_DATE.  Nothing   *)
(* but files outlives a launch, and a stage decides what is left to do     *)
(* from the files it finds.  A file is its progress to disk (opened, cut,  *)
(* whole) and where its rows come from; a model is the data it was trained *)
(* on.  An operator may change the environment from launch to launch,      *)
(* DATA_PATH with it, which the directories of a run do not tell.          *)
(***************************************************************************)
EXTENDS Integers, Sequences, FiniteSets

CONSTANTS
    Datasets,      \* EVAL_DATASETS, a sequence of names
    Available,     \* those whose file is under EVAL_DATASETS_DIR
    DataPaths,     \* files an operator names as DATA_PATH, none of the run's own
    Longest,       \* lengths of the longest prompt, in tokens
    Envs,          \* environments a launch may be given, see Env
    MaxLaunches,   \* bound: launches told apart
    MaxStops       \* bound: launches ended by a crash or a failing process

NoPath == ""

\* path: DATA_PATH.  base, rewrite: BASE_PROMPT_LENGTH and Y_R_PROMPT_LENGTH.
\* merge: SAVE_MERGED_MODEL.  eval: RUN_EVAL_AFTER_TRAINING.
Env == [path : DataPaths \cup {NoPath}, base : Int, rewrite : Int,
        merge : BOOLEAN, eval : BOOLEAN]

Names == {Datasets[i] : i \in DOMAIN Datasets}

ASSUME DatasetsAssumption == Datasets \in Seq(Names)

ASSUME PipelineAssumption ==
    /\ Longest \subseteq Nat \ {0} /\ Longest # {}
    /\ Envs \subseteq Env
    /\ MaxLaunches \in Nat \ {0} /\ MaxStops \in Nat

Launches == 0 .. MaxLaunches

\* The parquet files of the run, by the stage that writes them.
Stages == {"y_o_prompts", "y_o_responses", "y_r_prompts", "y_r_responses"}
Responses == {"y_o_responses", "y_r_responses"}
Input == [y_o_responses |-> "y_o_prompts", y_r_prompts |-> "y_o_responses",
          y_r_responses |-> "y_r_prompts"]

\* No stage writes the files given as DATA_PATH.
ASSUME DataPathsAssumption == DataPaths \cap (Stages \cup {NoPath}) = {}

Files == Stages \cup DataPaths

Phases == {"missing", "empty", "torn", "whole"}

\* by: the launch that wrote it.  src: the launch whose y_o responses its rows
\* carry.  limit: ghost, the limit of the launch that generated it.
File == [phase : Phases, by : Launches, src : Launches,
         longest : Nat, limit : Int]
NoFile == [phase |-> "missing", by |-> 0, src |-> 0, longest |-> 0, limit |-> 0]

\* What a row set is, for the models trained on it.
Data == Files \X Launches \X Launches \X Nat

\* on: the data its weights were trained on.  torn: some of its files are not
\* written yet.
Model == [on : SUBSET Data, torn : BOOLEAN]

\* A file of generated answers: the model asked, and whether this launch had
\* exported that model.
Answers == [phase : Phases, model : Model, exported : BOOLEAN]
NoAnswers == [phase |-> "missing", model |-> [on |-> {}, torn |-> FALSE],
              exported |-> FALSE]

VARIABLES
    run,        \* Y_MODE=y_r, PASS_K=16: the same at every launch
    env,        \* this launch's environment
    wanted,     \* ghost: the training files of the launches so far
    stage, step,     \* where the launch is
    launch,     \* number of this launch
    stops,      \* launches stopped so far (bounded by MaxStops)
    file,       \* [Files -> File]
    checkpoint, \* the newest global_step_<n> under EPOCH_MODEL_SAVE_DIR
    merged,     \* hf_merged: its config.json and its weights
    answers,    \* [Names -> Answers], <dataset>_pass<k>_generation.parquet
    results,    \* [Names -> keys in the results file], "score" and "aggregate"
    todo        \* the datasets the benchmark was given and has not scored yet

dataVars == <<file>>
modelVars == <<checkpoint, merged>>
evalVars == <<answers, results, todo>>
launchVars == <<run, env, wanted, launch, stops>>
vars == <<stage, step, dataVars, modelVars, evalVars, launchVars>>

Run == [rewrite : BOOLEAN, pass16 : BOOLEAN]

Steps == {"check", "open", "fill", "close", "filter", "load", "save", "export",
          "config", "weights", "missing", "server", "ask", "score", "aggregate",
          "end"}

TypeOK ==
    /\ run \in Run /\ env \in Envs /\ wanted \subseteq Files
    /\ stage \in Stages \cup {"prepare", "update", "evaluation", "stopped", "done"}
    /\ step \in Steps
    /\ launch \in 1 .. MaxLaunches /\ stops \in 0 .. MaxStops
    /\ file \in [Files -> File]
    /\ \A f \in Stages : file[f].phase = "whole" => file[f].longest > 0
    /\ checkpoint \in Model /\ merged \in [config : BOOLEAN, model : Model]
    /\ answers \in [Names -> Answers]
    /\ results \in [Names -> SUBSET {"score", "aggregate"}]
    /\ todo \subseteq Names

\* The responses this run's stages end with.
Generated == IF run.rewrite THEN "y_r_responses" ELSE "y_o_responses"

\* run_config.py build_env(): TRAINING_DATA_PATH.
TrainingFor(path) == IF path # NoPath THEN path ELSE Generated
Given == env.path # NoPath
TrainingFile == TrainingFor(env.path)

DataOf(f) == <<f, file[f].by, file[f].src, file[f].longest>>
Trained == DataOf(TrainingFile)

\* Mutant: any file that is there.
ExistsOnly(f) == file[f].phase # "missing"

\* file_exists_and_nonempty().
Nonempty(f) == file[f].phase \in {"torn", "whole"}

GoTo(st, sp) == stage' = st /\ step' = sp

\* The process ends with an error and "set -e" ends the script.
Fail == GoTo("stopped", "end")
----------------------------------------------------------------------------
(* prepare_training_data.py *)

\* Mutant: a training file that is there does not end the stage.
PrepareAgain ==
    /\ stage = "prepare"
    /\ CASE ~Given -> GoTo("y_o_responses", "check")
         [] Given /\ Nonempty(TrainingFile) -> GoTo("update", "load")
         [] OTHER -> Fail
    /\ UNCHANGED <<dataVars, modelVars, evalVars, launchVars>>

\* main(): a given file must be there, a file that is there is taken as it is.
Prepare ==
    /\ stage = "prepare"
    /\ CASE Nonempty(TrainingFile) -> GoTo("update", "load")
         [] ~Nonempty(TrainingFile) /\ ~Given -> GoTo("y_o_responses", "check")
         [] OTHER -> Fail
    /\ UNCHANGED <<dataVars, modelVars, evalVars, launchVars>>

\* Mutant: responses are generated again by every launch that needs them.
CheckNothing(f) ==
    /\ stage = f /\ step = "check"
    /\ CASE f = "y_o_responses" -> GoTo("y_o_prompts", "check")
         [] Nonempty(f) -> GoTo(f, "filter")
         [] OTHER -> GoTo(f, "open")
    /\ UNCHANGED <<dataVars, modelVars, evalVars, launchVars>>

\* ensure_y_o_responses(), prepare_y_o_prompts(), prepare_y_r(): what is there
\* is only filtered; responses that are missing need their prompts first.
Check(f) ==
    /\ stage = f /\ step = "check"
    /\ CASE Nonempty(f) -> GoTo(f, "filter")
         [] ~Nonempty(f) /\ f = "y_o_responses" -> GoTo("y_o_prompts", "check")
         [] OTHER -> GoTo(f, "open")
    /\ UNCHANGED <<dataVars, modelVars, evalVars, launchVars>>

\* y_o_prepare.py, y_r_prepare.py, main_generation_server.py: the input is read
\* to its end (a cut parquet file has no footer), then the output is created.
Open(f) ==
    /\ stage = f /\ step = "open"
    /\ IF f \in DOMAIN Input /\ file[Input[f]].phase # "whole"
       THEN Fail /\ UNCHANGED file
       ELSE /\ file' = [file EXCEPT ![f] = [NoFile EXCEPT !.phase = "empty"]]
            /\ GoTo(f, "fill")
    /\ UNCHANGED <<modelVars, evalVars, launchVars>>

Fill(f) ==
    /\ stage = f /\ step = "fill"
    /\ file' = [file EXCEPT ![f].phase = "torn"]
    /\ GoTo(f, "close")
    /\ UNCHANGED <<modelVars, evalVars, launchVars>>

\* Prompts are built from the dataset or around y_o responses; responses are
\* added to the rows of the prompts.
LimitFor(f) == IF f \in {"y_o_prompts", "y_o_responses"} THEN env.base ELSE env.rewrite
LongestIn(f) == IF f \in Responses THEN {file[Input[f]].longest} ELSE Longest
SourceOf(f) == CASE f = "y_o_prompts" -> 0
                 [] f = "y_o_responses" -> launch
                 [] OTHER -> file[Input[f]].src

Close(f) ==
    /\ stage = f /\ step = "close"
    /\ \E n \in LongestIn(f) :
         file' = [file EXCEPT ![f] =
                    [phase |-> "whole", by |-> launch, src |-> SourceOf(f),
                     longest |-> n, limit |-> LimitFor(f)]]
    /\ GoTo(f, "filter")
    /\ UNCHANGED <<modelVars, evalVars, launchVars>>

\* Mutant: a limit of zero drops every prompt.
FilteredAlways(n, limit) == IF n > limit THEN limit ELSE n

\* filter_prompt_parquet(): rows above the limit go, unless it is not positive.
Filtered(n, limit) == IF limit > 0 /\ n > limit THEN limit ELSE n

\* The stage that follows the filter of f.
After(f) ==
    CASE f = "y_o_prompts" -> <<"y_o_responses", "open">>
      [] f = "y_o_responses" /\ run.rewrite -> <<"y_r_prompts", "check">>
      [] f = "y_r_prompts" -> <<"y_r_responses", "open">>
      [] OTHER -> <<"update", "load">>

\* Mutant: prompts left by an earlier launch are taken as filtered.
FilterFresh(f) ==
    /\ stage = f /\ step = "filter"
    /\ IF LimitFor(f) > 0 /\ file[f].phase # "whole"
       THEN Fail /\ UNCHANGED file
       ELSE /\ file' = IF file[f].by < launch THEN file
                       ELSE [file EXCEPT ![f].longest = Filtered(@, LimitFor(f))]
            /\ GoTo(After(f)[1], After(f)[2])
    /\ UNCHANGED <<modelVars, evalVars, launchVars>>

\* utils/prompt_filter.py replaces the file in one step (os.replace).
Filter(f) ==
    /\ stage = f /\ step = "filter"
    /\ IF LimitFor(f) > 0 /\ file[f].phase # "whole"
       THEN Fail /\ UNCHANGED file
       ELSE /\ file' = [file EXCEPT ![f].longest = Filtered(@, LimitFor(f))]
            /\ GoTo(After(f)[1], After(f)[2])
    /\ UNCHANGED <<modelVars, evalVars, launchVars>>
----------------------------------------------------------------------------
(* launch_training.py, with the trainer as module KLTrainer describes it *)

\* The dataset is loaded, and the newest checkpoint if there is one: the
\* launcher gives no checkpoint path, so the trainer continues from it.
Load ==
    /\ stage = "update" /\ step = "load"
    /\ IF file[TrainingFile].phase # "whole" \/ checkpoint.torn
       THEN Fail ELSE GoTo("update", "save")
    /\ UNCHANGED <<dataVars, modelVars, evalVars, launchVars>>

\* A checkpoint is written shard by shard.
SaveBegins ==
    /\ stage = "update" /\ step = "save" /\ ~checkpoint.torn
    /\ checkpoint' = [on |-> checkpoint.on \cup {Trained}, torn |-> TRUE]
    /\ UNCHANGED <<stage, step, merged, dataVars, evalVars, launchVars>>

SaveEnds ==
    /\ stage = "update" /\ step = "save" /\ checkpoint.torn
    /\ checkpoint' = [checkpoint EXCEPT !.torn = FALSE]
    /\ UNCHANGED <<stage, step, merged, dataVars, evalVars, launchVars>>

\* The last save ends train(); evaluation is not asked of the trainer, so only
\* SAVE_MERGED_MODEL makes it export.
LastSaveEnds ==
    /\ stage = "update" /\ step = "save" /\ checkpoint.torn
    /\ checkpoint' = [checkpoint EXCEPT !.torn = FALSE]
    /\ IF env.merge THEN GoTo("update", "config") ELSE GoTo("evaluation", "missing")
    /\ UNCHANGED <<merged, dataVars, evalVars, launchVars>>

\* save_pretrained(): config.json first, then the weights.
ExportConfig ==
    /\ stage = "update" /\ step = "config"
    /\ merged' = [merged EXCEPT !.config = TRUE]
    /\ GoTo("update", "weights")
    /\ UNCHANGED <<checkpoint, dataVars, evalVars, launchVars>>

ExportWeights ==
    /\ stage = "update" /\ step = "weights"
    /\ merged' = [merged EXCEPT !.model = [on |-> @.on \cup checkpoint.on, torn |-> TRUE]]
    /\ GoTo("update", "export")
    /\ UNCHANGED <<checkpoint, dataVars, evalVars, launchVars>>

ExportEnds ==
    /\ stage = "update" /\ step = "export"
    /\ merged' = [merged EXCEPT !.model = [on |-> checkpoint.on, torn |-> FALSE]]
    /\ GoTo("evaluation", "missing")
    /\ UNCHANGED <<checkpoint, dataVars, evalVars, launchVars>>

\* Mutant: torchrun's return code is not looked at.
FailureIgnored ==
    /\ stage = "update" /\ stops < MaxStops
    /\ stops' = stops + 1
    /\ GoTo("evaluation", "missing")
    /\ UNCHANGED <<run, env, wanted, launch, dataVars, modelVars, evalVars>>

\* run_training.py exits with 1 on any exception; run_with_log() passes it on.
TrainingFails ==
    /\ stage = "update" /\ stops < MaxStops
    /\ stops' = stops + 1
    /\ Fail
    /\ UNCHANGED <<run, env, wanted, launch, dataVars, modelVars, evalVars>>
----------------------------------------------------------------------------
(* run_evaluation.py, utils/eval_status.py and the benchmark it starts *)

HasAnswers(d) == answers[d].phase \in {"torn", "whole"}

\* Mutant: the key main_eval.py writes is taken for the whole entry.
ScoredOnly(d) == "score" \in results[d]

\* missing_for_math().
Complete(d) ==
    IF run.pass16 THEN results[d] = {"score", "aggregate"} /\ HasAnswers(d)
    ELSE results[d] # {}

Missing == {d \in Names : ~Complete(d)}

\* Datasets are taken in the order of EVAL_DATASETS.
IsNext(d) ==
    \E i \in DOMAIN Datasets :
        /\ d = Datasets[i] /\ d \in todo
        /\ \A j \in DOMAIN Datasets : Datasets[j] \in todo => i <= j

\* main(): config.json stands for the merged model.
Evaluate ==
    /\ stage = "evaluation" /\ step = "missing"
    /\ IF ~env.eval \/ (merged.config /\ Missing = {})
       THEN GoTo("done", "end") /\ UNCHANGED todo
       ELSE IF ~merged.config THEN Fail /\ UNCHANGED todo
            ELSE GoTo("evaluation", "server") /\ todo' = Missing
    /\ UNCHANGED <<answers, results, dataVars, modelVars, launchVars>>

\* launch_generation_server(): weights that are not whole may or may not load.
Server ==
    /\ stage = "evaluation" /\ step = "server"
    /\ \/ merged.model.on # {} /\ GoTo("evaluation", "ask")
       \/ (merged.model.on = {} \/ merged.model.torn) /\ Fail
    /\ UNCHANGED <<dataVars, modelVars, evalVars, launchVars>>

\* run_evaluation_suite(): datasets that are not there are skipped, answers
\* that are there are used again, the others are generated and written.
Skip(d) ==
    /\ stage = "evaluation" /\ step = "ask" /\ IsNext(d) /\ d \notin Available
    /\ todo' = todo \ {d}
    /\ UNCHANGED <<stage, step, answers, results, dataVars, modelVars, launchVars>>

Reuse(d) ==
    /\ stage = "evaluation" /\ step = "ask" /\ IsNext(d) /\ d \in Available
    /\ HasAnswers(d)
    /\ GoTo("evaluation", "score")
    /\ UNCHANGED <<dataVars, modelVars, evalVars, launchVars>>

Ask(d) ==
    /\ stage = "evaluation" /\ step = "ask" /\ IsNext(d) /\ d \in Available
    /\ ~HasAnswers(d)
    /\ answers' = [answers EXCEPT ![d] =
                     [phase |-> "empty", model |-> merged.model, exported |-> env.merge]]
    /\ GoTo("evaluation", "fill")
    /\ UNCHANGED <<results, todo, dataVars, modelVars, launchVars>>

AnswersFill(d) ==
    /\ stage = "evaluation" /\ step = "fill" /\ IsNext(d)
    /\ answers' = [answers EXCEPT ![d].phase = "torn"]
    /\ GoTo("evaluation", "close")
    /\ UNCHANGED <<results, todo, dataVars, modelVars, launchVars>>

AnswersClose(d) ==
    /\ stage = "evaluation" /\ step = "close" /\ IsNext(d)
    /\ answers' = [answers EXCEPT ![d].phase = "whole"]
    /\ GoTo("evaluation", "score")
    /\ UNCHANGED <<results, todo, dataVars, modelVars, launchVars>>

\* main_eval.py: reads the answers, replaces the results file in one step.
Score(d) ==
    /\ stage = "evaluation" /\ step = "score" /\ IsNext(d)
    /\ IF answers[d].phase # "whole"
       THEN Fail /\ UNCHANGED <<results, todo>>
       ELSE /\ results' = [results EXCEPT ![d] = @ \cup {"score"}]
            /\ todo' = todo \ {d}
            /\ GoTo("evaluation", "ask")
    /\ UNCHANGED <<answers, dataVars, modelVars, launchVars>>

\* benchmark_kl_model.sh, compute_pass_at_k_from_gen.py: for PASS_K=16, when
\* there is a results file, every dataset with answers gets its aggregates.
Aggregate ==
    /\ stage = "evaluation" /\ step = "ask" /\ todo = {}
    /\ LET asked == {d \in Names : ~Complete(d) /\ answers[d].phase # "missing"}
       IN IF run.pass16 /\ \E d \in Names : results[d] # {}
          THEN results' = [d \in Names |->
                             results[d] \cup (IF d \in asked THEN {"aggregate"} ELSE {})]
          ELSE UNCHANGED results
    /\ GoTo("done", "end")
    /\ UNCHANGED <<answers, todo, dataVars, modelVars, launchVars>>
----------------------------------------------------------------------------
Init ==
    /\ run \in Run /\ env \in Envs /\ wanted = {TrainingFile}
    /\ stage = "prepare" /\ step = "check"
    /\ launch = 1 /\ stops = 0
    /\ \E there \in SUBSET DataPaths :
         file = [f \in Files |->
                   IF f \in there THEN [NoFile EXCEPT !.phase = "whole"] ELSE NoFile]
    /\ checkpoint = [on |-> {}, torn |-> FALSE]
    /\ merged = [config |-> FALSE, model |-> [on |-> {}, torn |-> FALSE]]
    /\ answers = [d \in Names |-> NoAnswers]
    /\ results = [d \in Names |-> {}]
    /\ todo = {}

\* The machine or the job is killed, or a program a stage runs fails; "set -e"
\* and check=True end the script, and what is on disk stays.
Crash ==
    /\ stage \notin {"stopped", "done"} /\ stops < MaxStops
    /\ stops' = stops + 1
    /\ Fail
    /\ UNCHANGED <<run, env, wanted, launch, dataVars, modelVars, evalVars>>

\* run_kl_training.sh again, with the same RUN_DATE.  Launches beyond
\* MaxLaunches are not told apart.
Relaunch ==
    /\ launch' = IF launch < MaxLaunches THEN launch + 1 ELSE launch
    /\ env' \in Envs
    /\ wanted' = wanted \cup {TrainingFor(env'.path)}
    /\ todo' = {}
    /\ GoTo("prepare", "check")
    /\ UNCHANGED <<run, stops, answers, results, dataVars, modelVars>>

Produce(f) == Check(f) \/ Open(f) \/ Fill(f) \/ Close(f) \/ Filter(f)
Update ==
    \/ Load \/ SaveBegins \/ SaveEnds \/ LastSaveEnds
    \/ ExportConfig \/ ExportWeights \/ ExportEnds
Benchmark(d) ==
    Skip(d) \/ Reuse(d) \/ Ask(d) \/ AnswersFill(d) \/ AnswersClose(d) \/ Score(d)
Evaluation == Evaluate \/ Server \/ (\E d \in Names : Benchmark(d)) \/ Aggregate

Work == Prepare \/ (\E f \in Stages : Produce(f)) \/ Update \/ Evaluation
Retry == stage = "stopped" /\ Relaunch
Repeat == stage = "done" /\ launch < MaxLaunches /\ Relaunch

Next == Work \/ Retry \/ Repeat \/ TrainingFails \/ Crash

Spec == Init /\ [][Next]_vars

\* The processes of a launch run, an epoch has an end, and a stopped run is
\* launched again.
FairSpec == Spec /\ WF_vars(Work) /\ SF_vars(LastSaveEnds) /\ WF_vars(Retry)
----------------------------------------------------------------------------
\* Data that trains a model holds no prompt above the limit of the launch that
\* generated it, though a crash may hit between any generation and the filter
\* after it: generation reads prompts only after they went through the filter.
PromptsFit ==
    \A f \in Responses :
        file[f].phase = "whole" /\ file[f].limit > 0 => file[f].longest <= file[f].limit

\* The rewrites trained on answer the y_o responses that lie next to them, in
\* whichever launches the two were generated.
RewritesMatch ==
    file["y_r_responses"].phase = "whole" =>
        /\ file["y_o_responses"].phase = "whole"
        /\ file["y_r_responses"].src = file["y_o_responses"].by

\* Checkpoint, merged model and answers of one RUN_DATE all come from the rows
\* now in the training files of its launches, in whichever launch they were
\* generated, trained on, exported or evaluated.  So they come from one row set as
\* long as no launch is given another DATA_PATH; one that is continues the
\* checkpoint of the others on its own rows, and nothing else gets mixed in.
OneModelPerRun ==
    \A m \in {checkpoint, merged.model} \cup {answers[d].model : d \in Names} :
        m.on \subseteq {DataOf(f) : f \in wanted}

\* No result stands on weights an export left half-written, except when the
\* launch was told not to export: it takes any hf_merged with a config.json.
EvaluatesWholeModel ==
    \A d \in Names : answers[d].model.torn => ~answers[d].exported

\* A launch that ends well with evaluation on leaves answers, score and, for
\* PASS_K=16, aggregates for every dataset that is there, also when an earlier
\* launch was stopped between a score and its aggregates.
DoneMeansEvaluated ==
    stage = "done" /\ env.eval =>
        \A d \in Names \cap Available :
            /\ answers[d].phase = "whole" /\ "score" \in results[d]
            /\ run.pass16 => "aggregate" \in results[d]

\* A file left half-written, which no later launch repairs.
Torn ==
    \/ \E f \in Stages : file[f].phase = "torn"
    \/ checkpoint.torn
    \/ \E d \in Names : answers[d].phase = "torn"

\* The launch cannot do what it is asked: no training file, or an evaluation
\* of a model it does not export and nobody exported whole.
Hopeless ==
    \/ Given /\ file[TrainingFile].phase = "missing"
    \/ env.eval /\ ~env.merge /\ (~merged.config \/ merged.model.on = {} \/ merged.model.torn)

\* Relaunching a run that crashes finitely often gets it done, unless a crash
\* left a torn file (a torn one counts as there, and fails whoever reads it) or
\* every launch is asked for the impossible.
PipelineEnds == []<>(stage = "done" \/ (stage = "stopped" /\ (Torn \/ Hopeless)))
=============================================================================
