------------------------- MODULE RunPipelineProofs -------------------------
(* Theorems about RunPipeline, for every list of datasets, every set of    *)
(* environments and every bound on launches and stops.                     *)
EXTENDS RunPipeline, TLAPS

\* A file is written from an input that was read to its end.
InputRead ==
    \A f \in DOMAIN Input :
        stage = f /\ step \in {"fill", "close"} => file[Input[f]].phase = "whole"

Typed == TypeOK /\ InputRead

\* A filter leaves a positive length that its limit admits and never raises one.
LEMMA FilteredBound ==
    ASSUME NEW n \in Nat, NEW limit \in Int
    PROVE  /\ Filtered(n, limit) \in Nat /\ Filtered(n, limit) <= n
           /\ n > 0 => Filtered(n, limit) > 0
           /\ limit > 0 => Filtered(n, limit) <= limit
  BY DEF Filtered

\* The stages of the data and what each of them reads.
LEMMA InputStages ==
    /\ DOMAIN Input = {"y_o_responses", "y_r_prompts", "y_r_responses"}
    /\ Input["y_o_responses"] = "y_o_prompts" /\ Input["y_r_prompts"] = "y_o_responses"
    /\ Input["y_r_responses"] = "y_r_prompts"
  BY DEF Input

LEMMA LongestPositive == \A n \in Longest : n \in Nat /\ n > 0
<1>1. \A n \in Longest : n \in Nat /\ n # 0
  BY PipelineAssumption
<1> QED
  BY <1>1

\* A training file is one of the files, and its rows are a row set.
LEMMA TrainingForFile ==
    ASSUME NEW e \in Envs
    PROVE  TrainingFor(e.path) \in DataPaths \cup {Generated} /\ Generated \in Stages
  BY PipelineAssumption DEF TrainingFor, Generated, Stages, Env

LEMMA TrainedIsData ==
    ASSUME TypeOK
    PROVE  TrainingFile \in Files /\ Trained \in Data
  BY TrainingForFile DEF TypeOK, TrainingFile, Trained, DataOf, Data, File, Files

\* The limit of a stage is a number.
LEMMA LimitIsInt == ASSUME TypeOK, NEW f PROVE LimitFor(f) \in Int
  BY PipelineAssumption DEF TypeOK, LimitFor, Env

\* A step outside the production of data leaves the files alone and starts
\* production, if at all, at the check of the y_o responses.
LEMMA Elsewhere ==
    ASSUME [Next]_vars, \A f \in Stages : ~Produce(f)
    PROVE  /\ file' = file /\ run' = run
           /\ \/ UNCHANGED <<stage, step, env, launch>>
              \/ stage' \notin Stages /\ stage \notin Stages /\ env' = env /\ launch' = launch
              \/ /\ stage' = "y_o_responses" /\ step' = "check" /\ stage = "prepare"
                 /\ env' = env /\ launch' = launch /\ ~Nonempty(TrainingFile) /\ ~Given
              \/ stage' = "prepare"
              \/ stage' = "stopped" /\ env' = env /\ launch' = launch
<1> USE DEF launchVars, dataVars, GoTo, Fail, Stages
<1>1. CASE Prepare
  BY <1>1 DEF Prepare
<1>2. CASE Update
  BY <1>2 DEF Update, Load, SaveBegins, SaveEnds, LastSaveEnds, ExportConfig,
    ExportWeights, ExportEnds
<1>3. CASE Evaluate \/ Server \/ Aggregate
  BY <1>3 DEF Evaluate, Server, Aggregate
<1>4. ASSUME NEW d \in Names, Benchmark(d)
      PROVE  /\ file' = file /\ run' = run /\ stage' \notin Stages /\ stage \notin Stages
             /\ env' = env /\ launch' = launch
  BY <1>4 DEF Benchmark, Skip, Reuse, Ask, AnswersFill, AnswersClose, Score
<1>5. CASE Retry \/ Repeat
  BY <1>5 DEF Retry, Repeat, Relaunch
<1>6. CASE TrainingFails \/ Crash
  BY <1>6 DEF TrainingFails, Crash
<1>7. CASE UNCHANGED vars
  BY <1>7 DEF vars
<1> QED
  BY <1>1, <1>2, <1>3, <1>4, <1>5, <1>6, <1>7 DEF Next, Work, Evaluation

\* A step that produces a file keeps the types.
LEMMA ProduceTypes ==
    ASSUME Typed, NEW f \in Stages, Produce(f)
    PROVE  TypeOK'
<1> USE PipelineAssumption DEF Typed, TypeOK, Files
<1>1. CASE Check(f)
  BY <1>1 DEF Check, GoTo, Steps, Stages, dataVars, modelVars, evalVars, launchVars
<1>2. CASE Open(f)
  <2>1. [NoFile EXCEPT !.phase = "empty"] \in File
    BY DEF NoFile, File, Phases, Launches
  <2>2. file' \in [Files -> File]
    BY <1>2, <2>1 DEF Open
  <2>3. \A g \in Stages : file'[g].phase = "whole" => file'[g].longest > 0
    BY <1>2 DEF Open, NoFile, File
  <2> QED
    BY <1>2, <2>2, <2>3 DEF Open, GoTo, Fail, Steps, modelVars, evalVars, launchVars
<1>3. CASE Fill(f)
  <2>1. file' \in [Files -> File]
    BY <1>3 DEF Fill, File, Phases
  <2>2. \A g \in Stages : file'[g].phase = "whole" => file'[g].longest > 0
    BY <1>3 DEF Fill, File
  <2> QED
    BY <1>3, <2>1, <2>2 DEF Fill, GoTo, Steps, modelVars, evalVars, launchVars
<1>4. CASE Close(f)
  <2>1. SourceOf(f) \in Launches
    BY InputStages DEF SourceOf, Stages, File, Launches
  <2>2. \A n \in LongestIn(f) : n \in Nat /\ n > 0
    <3>1. CASE f \in Responses
      <4>1. f \in DOMAIN Input /\ Input[f] \in Stages
        BY <3>1, InputStages DEF Responses, Stages
      <4>2. file[Input[f]].phase = "whole"
        BY <1>4, <4>1 DEF Close, InputRead
      <4>3. file[Input[f]] \in File /\ file[Input[f]].longest > 0
        BY <4>1, <4>2
      <4> QED
        BY <3>1, <4>3 DEF LongestIn, File
    <3>2. CASE f \notin Responses
      <4>1. LongestIn(f) = Longest
        BY <3>2 DEF LongestIn
      <4>2. \A n \in Longest : n \in Nat /\ n > 0
        BY LongestPositive
      <4> QED
        BY <4>1, <4>2
    <3> QED
      BY <3>1, <3>2
  <2>3. LimitFor(f) \in Int
    BY LimitIsInt
  <2>4. PICK n \in LongestIn(f) :
          file' = [file EXCEPT ![f] =
                     [phase |-> "whole", by |-> launch, src |-> SourceOf(f),
                      longest |-> n, limit |-> LimitFor(f)]]
    BY <1>4 DEF Close
  <2>5. [phase |-> "whole", by |-> launch, src |-> SourceOf(f),
         longest |-> n, limit |-> LimitFor(f)] \in File
    BY <2>1, <2>2, <2>3 DEF File, Phases, Launches
  <2>6. file' \in [Files -> File]
    BY <2>4, <2>5
  <2>7. \A g \in Stages : file'[g].phase = "whole" => file'[g].longest > 0
    BY <2>2, <2>4
  <2> QED
    BY <1>4, <2>6, <2>7 DEF Close, GoTo, Steps, modelVars, evalVars, launchVars
<1>5. CASE Filter(f)
  <2>1. stage' \in Stages \cup {"update", "stopped"} /\ step' \in Steps
    BY <1>5 DEF Filter, GoTo, Fail, After, Stages, Steps
  <2>2. LimitFor(f) \in Int /\ file[f].longest \in Nat
    BY LimitIsInt DEF File, Stages
  <2>3. file' \in [Files -> File]
    BY <1>5, <2>2, FilteredBound DEF Filter, File
  <2>4. \A g \in Stages : file'[g].phase = "whole" => file'[g].longest > 0
    BY <1>5, <2>2, FilteredBound DEF Filter, File
  <2> QED
    BY <1>5, <2>1, <2>3, <2>4 DEF Filter, modelVars, evalVars, launchVars
<1> QED
  BY <1>1, <1>2, <1>3, <1>4, <1>5 DEF Produce

\* A step that produces a file reads a whole input.
LEMMA ProduceReads ==
    ASSUME Typed, NEW f \in Stages, Produce(f)
    PROVE  InputRead'
<1> USE InputStages DEF Typed, TypeOK, InputRead, GoTo, Fail, Stages, Files
<1>1. CASE Check(f)
  BY <1>1 DEF Check, dataVars
<1>2. CASE Open(f)
  BY <1>2 DEF Open
<1>3. CASE Fill(f)
  BY <1>3 DEF Fill
<1>4. CASE Close(f)
  BY <1>4 DEF Close
<1>5. CASE Filter(f)
  BY <1>5 DEF Filter, After
<1> QED
  BY <1>1, <1>2, <1>3, <1>4, <1>5 DEF Produce

\* Every other step keeps the types.
LEMMA OtherTypes ==
    ASSUME TypeOK, [Next]_vars, \A f \in Stages : ~Produce(f)
    PROVE  TypeOK'
<1> USE PipelineAssumption DEF TypeOK, GoTo, Fail, Steps, dataVars, modelVars, evalVars,
        launchVars
<1>1. CASE Prepare
  BY <1>1 DEF Prepare, Stages
<1>2. CASE Update
  <2>1. CASE Load
    BY <2>1 DEF Load
  <2>2. CASE SaveBegins
    BY <2>2, TrainedIsData DEF SaveBegins, Model
  <2>3. CASE SaveEnds \/ LastSaveEnds
    BY <2>3 DEF SaveEnds, LastSaveEnds, Model
  <2>4. CASE ExportConfig
    BY <2>4 DEF ExportConfig
  <2>5. CASE ExportWeights \/ ExportEnds
    <3>1. [on |-> merged.model.on \cup checkpoint.on, torn |-> TRUE] \in Model
      BY DEF Model
    <3>2. [on |-> checkpoint.on, torn |-> FALSE] \in Model
      BY DEF Model
    <3>3. merged' \in [config : BOOLEAN, model : Model]
      BY <2>5, <3>1, <3>2 DEF ExportWeights, ExportEnds
    <3> QED
      BY <2>5, <3>3 DEF ExportWeights, ExportEnds
  <2> QED
    BY <1>2, <2>1, <2>2, <2>3, <2>4, <2>5 DEF Update
<1>3. CASE Evaluate \/ Server
  BY <1>3 DEF Evaluate, Server, Missing
<1>4. CASE Aggregate
  <2>1. results' \in [Names -> SUBSET {"score", "aggregate"}]
    BY <1>4 DEF Aggregate
  <2> QED
    BY <1>4, <2>1 DEF Aggregate
<1>5. ASSUME NEW d \in Names, Benchmark(d) PROVE TypeOK'
  <2>1. CASE Skip(d) \/ Reuse(d)
    BY <2>1 DEF Skip, Reuse
  <2>2. CASE Ask(d)
    <3>1. [phase |-> "empty", model |-> merged.model, exported |-> env.merge] \in Answers
      BY DEF Answers, Phases, Env
    <3> QED
      BY <2>2, <3>1 DEF Ask
  <2>3. CASE AnswersFill(d) \/ AnswersClose(d)
    <3>1. answers' \in [Names -> Answers]
      BY <2>3 DEF AnswersFill, AnswersClose, Answers, Phases
    <3> QED
      BY <2>3, <3>1 DEF AnswersFill, AnswersClose
  <2>4. CASE Score(d)
    BY <2>4 DEF Score
  <2> QED
    BY <1>5, <2>1, <2>2, <2>3, <2>4 DEF Benchmark
<1>6. CASE Retry \/ Repeat
  <2>1. wanted' \subseteq Files
    BY <1>6, TrainingForFile DEF Retry, Repeat, Relaunch, Files
  <2> QED
    BY <1>6, <2>1 DEF Retry, Repeat, Relaunch
<1>7. CASE TrainingFails \/ Crash
  BY <1>7 DEF TrainingFails, Crash
<1>8. CASE UNCHANGED vars
  BY <1>8 DEF vars
<1> QED
  BY <1>1, <1>2, <1>3, <1>4, <1>5, <1>6, <1>7, <1>8 DEF Next, Work, Evaluation

LEMMA TypedStep == Typed /\ [Next]_vars => Typed'
<1> SUFFICES ASSUME Typed, [Next]_vars PROVE Typed'
  OBVIOUS
<1>1. CASE \E f \in Stages : Produce(f)
  BY <1>1, ProduceTypes, ProduceReads DEF Typed
<1>2. CASE \A f \in Stages : ~Produce(f)
  <2>1. InputRead'
    BY <1>2, Elsewhere, InputStages DEF Typed, InputRead, Stages
  <2> QED
    BY <1>2, <2>1, OtherTypes DEF Typed
<1> QED
  BY <1>1, <1>2

\* The run starts with no file of its own.
LEMMA InitFiles == Init => \A f \in Stages : file[f] = NoFile /\ file[f].phase = "missing"
  BY DataPathsAssumption DEF Init, Files, NoFile

LEMMA InitTyped == Init => Typed
<1> SUFFICES ASSUME Init PROVE Typed
  OBVIOUS
<1>1. NoFile \in File /\ NoFile.phase = "missing"
  BY PipelineAssumption DEF File, NoFile, Phases, Launches
<1>2. PICK there \in SUBSET DataPaths :
        file = [f \in Files |->
                  IF f \in there THEN [NoFile EXCEPT !.phase = "whole"] ELSE NoFile]
  BY DEF Init
<1>3. [NoFile EXCEPT !.phase = "whole"] \in File
  BY <1>1 DEF File, Phases
<1>4. file \in [Files -> File] /\ \A f \in Stages : file[f].phase = "missing"
  BY <1>1, <1>2, <1>3, InitFiles
<1>5. NoAnswers \in Answers /\ checkpoint \in Model /\ merged \in [config : BOOLEAN, model : Model]
  BY DEF Init, NoAnswers, Answers, Phases, Model
<1>6. launch \in 1 .. MaxLaunches /\ stops \in 0 .. MaxStops
  BY PipelineAssumption DEF Init
<1>7. wanted \subseteq Files
  BY TrainingForFile DEF Init, TrainingFile, Files
<1>8. TypeOK
  BY <1>4, <1>5, <1>6, <1>7 DEF Init, TypeOK, Steps
<1> QED
  BY <1>8, InputStages DEF Init, Typed, InputRead

\* A file whose rows are trained on has rows, and every file, model and result
\* keeps its type.
THEOREM PipelineTypes == Spec => []TypeOK
  BY InitTyped, TypedStep, PTL DEF Spec, Typed
----------------------------------------------------------------------------
\* What a generation reads has been through the filter of its own limit, and
\* only the filter of its prompts leads to one.
FitInv ==
    /\ PromptsFit
    /\ stage = "y_r_responses" => step # "check"
    /\ \A f \in Responses :
         stage = f /\ step \in {"open", "fill", "close"} /\ LimitFor(f) > 0 =>
            file[Input[f]].longest <= LimitFor(f)

LEMMA FitProduce ==
    ASSUME Typed, FitInv, NEW f \in Stages, Produce(f)
    PROVE  FitInv'
<1> USE InputStages DEF FitInv, PromptsFit, Responses, Stages, Files, GoTo, Fail
<1>1. env' = env /\ LimitFor(f)' = LimitFor(f)
  BY DEF Produce, Check, Open, Fill, Close, Filter, launchVars, LimitFor
<1>2. \A g \in Stages : LimitFor(g)' = LimitFor(g)
  BY <1>1 DEF LimitFor
<1>3. CASE Check(f)
  BY <1>2, <1>3 DEF Check, dataVars
<1>4. CASE Open(f)
  BY <1>2, <1>4 DEF Open, NoFile, Typed, TypeOK, File
<1>5. CASE Fill(f)
  BY <1>2, <1>5 DEF Fill, Typed, TypeOK, File
<1>6. CASE Close(f)
  <2>1. PICK n \in LongestIn(f) :
          file' = [file EXCEPT ![f] =
                     [phase |-> "whole", by |-> launch, src |-> SourceOf(f),
                      longest |-> n, limit |-> LimitFor(f)]]
    BY <1>6 DEF Close
  <2>2. f \in Responses => n = file[Input[f]].longest
    BY DEF LongestIn
  <2>3. stage = f /\ step = "close" /\ stage' = f /\ step' = "filter"
    BY <1>6 DEF Close
  <2>4. PromptsFit'
    BY <2>1, <2>2, <2>3 DEF Typed, TypeOK
  <2> QED
    BY <2>3, <2>4
<1>7. CASE Filter(f)
  <2>1. LimitFor(f) \in Int /\ file[f].longest \in Nat
    BY LimitIsInt DEF Typed, TypeOK, File
  <2>2. Filtered(file[f].longest, LimitFor(f)) <= file[f].longest
    BY <2>1, FilteredBound
  <2>3. LimitFor(f) > 0 => Filtered(file[f].longest, LimitFor(f)) <= LimitFor(f)
    BY <2>1, FilteredBound
  <2>4. \/ stage' = "stopped" /\ file' = file
        \/ /\ file' = [file EXCEPT ![f].longest = Filtered(@, LimitFor(f))]
           /\ stage' = After(f)[1] /\ step' = After(f)[2] /\ stage = f
    BY <1>7 DEF Filter
  <2>5. PromptsFit'
    <3> SUFFICES ASSUME NEW g \in Responses, file'[g].phase = "whole", file'[g].limit > 0
                 PROVE  file'[g].longest <= file'[g].limit
      OBVIOUS
    <3>1. file[g] \in File /\ file[g].longest \in Nat /\ file[g].limit \in Int
      BY DEF Typed, TypeOK, File
    <3>2. file'[g].phase = file[g].phase /\ file'[g].limit = file[g].limit
      BY <2>4, <3>1 DEF Typed, TypeOK, File
    <3>3. file[g].longest <= file[g].limit
      BY <3>2
    <3>4. file'[g].longest = file[g].longest
            \/ (g = f /\ file'[g].longest = Filtered(file[f].longest, LimitFor(f)))
      BY <2>4, <3>1 DEF Typed, TypeOK, File
    <3>5. Filtered(file[f].longest, LimitFor(f)) \in Nat
      BY <2>1, FilteredBound
    <3> QED
      BY <2>1, <2>2, <3>1, <3>2, <3>3, <3>4, <3>5
  <2>6. file' = [file EXCEPT ![f].longest = Filtered(@, LimitFor(f))] =>
          file'[f].longest = Filtered(file[f].longest, LimitFor(f))
    BY DEF Typed, TypeOK, File
  <2>7. (f = "y_o_prompts" => LimitFor("y_o_responses") = LimitFor(f))
          /\ (f = "y_r_prompts" => LimitFor("y_r_responses") = LimitFor(f))
    BY DEF LimitFor
  <2>8. \A g \in Responses :
          stage' = g /\ step' \in {"open", "fill", "close"} => Input[g] = f /\ stage' # "stopped"
    BY <2>4, <1>7 DEF After, Filter
  <2>9. stage' = "y_r_responses" => step' # "check"
    BY <2>4 DEF After
  <2>10. ASSUME NEW g \in Responses, stage' = g, step' \in {"open", "fill", "close"},
                LimitFor(g) > 0
         PROVE  file'[Input[g]].longest <= LimitFor(g)
    <3>1. Input[g] = f /\ LimitFor(g) = LimitFor(f)
      BY <2>7, <2>8, <2>10
    <3> QED
      BY <2>3, <2>4, <2>6, <2>8, <2>10, <3>1
  <2> QED
    BY <1>2, <2>5, <2>9, <2>10
<1> QED
  BY <1>3, <1>4, <1>5, <1>6, <1>7 DEF Produce

LEMMA FitStep == Typed /\ FitInv /\ [Next]_vars => FitInv'
<1> SUFFICES ASSUME Typed, FitInv, [Next]_vars PROVE FitInv'
  OBVIOUS
<1>1. CASE \E f \in Stages : Produce(f)
  BY <1>1, FitProduce
<1>2. CASE \A f \in Stages : ~Produce(f)
  BY <1>2, Elsewhere, InputStages DEF FitInv, PromptsFit, Responses, Stages, LimitFor
<1> QED
  BY <1>1, <1>2

\* Rows that train a model are within the limit of the launch that generated
\* them, whatever crashes, relaunches and changes of the limits came between.
THEOREM PipelinePromptsFit == Spec => []PromptsFit
<1>1. Init => FitInv
  BY InputStages, InitFiles DEF Init, FitInv, PromptsFit, Responses, Stages
<1> QED
  BY <1>1, FitStep, InitTyped, TypedStep, PTL DEF Spec, FitInv
----------------------------------------------------------------------------
\* While y_o responses are not there nothing is derived from them, and y_r
\* prompts that are there were built from the y_o responses that are there.
LineageInv ==
    /\ RewritesMatch
    /\ file["y_r_prompts"].phase = "whole" =>
         /\ file["y_o_responses"].phase = "whole"
         /\ file["y_r_prompts"].src = file["y_o_responses"].by
    /\ file["y_o_responses"].phase = "whole" =>
         file["y_o_responses"].src = file["y_o_responses"].by
    /\ \/ stage = "y_o_prompts"
       \/ stage = "y_o_responses" /\ step \in {"open", "fill", "close"}
       => file["y_o_responses"].phase # "whole"

LEMMA LineageProduce ==
    ASSUME Typed, LineageInv, NEW f \in Stages, Produce(f)
    PROVE  LineageInv'
<1> USE InputStages DEF LineageInv, RewritesMatch, Stages, Files, GoTo, Fail
<1> file \in [Files -> File]
  BY DEF Typed, TypeOK
<1>1. CASE Check(f)
  BY <1>1 DEF Check, dataVars, Nonempty
<1>2. CASE Open(f)
  BY <1>2 DEF Open, NoFile, File
<1>3. CASE Fill(f)
  BY <1>3 DEF Fill, File
<1>4. CASE Close(f)
  <2>1. PICK n \in LongestIn(f) :
          file' = [file EXCEPT ![f] =
                     [phase |-> "whole", by |-> launch, src |-> SourceOf(f),
                      longest |-> n, limit |-> LimitFor(f)]]
    BY <1>4 DEF Close
  <2>2. stage = f /\ step = "close" /\ stage' = f /\ step' = "filter"
    BY <1>4 DEF Close
  <2>3. f \in DOMAIN Input => file[Input[f]].phase = "whole"
    BY <2>2 DEF Typed, InputRead
  <2>4. CASE f = "y_o_prompts"
    BY <2>1, <2>2, <2>4
  <2>5. CASE f = "y_o_responses"
    BY <2>1, <2>2, <2>5 DEF SourceOf
  <2>6. CASE f = "y_r_prompts"
    BY <2>1, <2>2, <2>3, <2>6 DEF SourceOf
  <2>7. CASE f = "y_r_responses"
    BY <2>1, <2>2, <2>3, <2>7 DEF SourceOf
  <2> QED
    BY <2>4, <2>5, <2>6, <2>7
<1>5. CASE Filter(f)
  <2>1. \A g \in Stages : /\ file'[g].phase = file[g].phase
                          /\ file'[g].by = file[g].by /\ file'[g].src = file[g].src
    BY <1>5 DEF Filter, File
  <2>2. stage' = "y_o_prompts" \/ stage' = "y_o_responses" => f = "y_o_prompts"
    BY <1>5 DEF Filter, After
  <2> QED
    BY <1>5, <2>1, <2>2 DEF Filter
<1> QED
  BY <1>1, <1>2, <1>3, <1>4, <1>5 DEF Produce

LEMMA LineageStep == Typed /\ LineageInv /\ [Next]_vars => LineageInv'
<1> SUFFICES ASSUME Typed, LineageInv, [Next]_vars PROVE LineageInv'
  OBVIOUS
<1>1. CASE \E f \in Stages : Produce(f)
  BY <1>1, LineageProduce
<1>2. CASE \A f \in Stages : ~Produce(f)
  BY <1>2, Elsewhere DEF LineageInv, RewritesMatch, Stages
<1> QED
  BY <1>1, <1>2

\* The rewrites on disk answer the y_o responses on disk, whichever launches
\* the two were generated in.
THEOREM PipelineRewritesMatch == Spec => []RewritesMatch
<1>1. Init => LineageInv
  BY InitFiles DEF Init, LineageInv, RewritesMatch, Stages
<1> QED
  BY <1>1, LineageStep, InitTyped, TypedStep, PTL DEF Spec, LineageInv
----------------------------------------------------------------------------
\* The row sets that models and answers stem from.
Rows ==
    checkpoint.on \cup merged.model.on \cup UNION {answers[d].model.on : d \in Names}

\* Rows a model stems from are those of a whole training file, as it is now; no
\* stage writes a given file, and once the generated one has been trained on,
\* no stage that writes data is entered again.
ModelInv ==
    /\ wanted \subseteq DataPaths \cup {Generated} /\ TrainingFile \in wanted
    /\ \A row \in Rows :
         /\ row[1] \in wanted /\ row = DataOf(row[1]) /\ file[row[1]].phase = "whole"
         /\ row[1] = Generated => stage \notin Stages
    /\ stage = "update" /\ step # "load" => file[TrainingFile].phase = "whole"

LEMMA ModelInvImplies == ModelInv => OneModelPerRun
  BY DEF ModelInv, OneModelPerRun, Rows

\* Only the start of a save brings in rows, those of the training file.
LEMMA RowsStep ==
    ASSUME Typed, [Next]_vars
    PROVE  Rows' \subseteq Rows \/ (SaveBegins /\ Rows' \subseteq Rows \cup {Trained})
<1> USE DEF Rows, modelVars, evalVars
<1>1. ASSUME NEW f \in Stages, Produce(f) PROVE Rows' \subseteq Rows
  BY <1>1 DEF Produce, Check, Open, Fill, Close, Filter
<1>2. CASE Prepare
  BY <1>2 DEF Prepare
<1>3. CASE Update
  <2>1. CASE Load
    BY <2>1 DEF Load
  <2>2. CASE SaveBegins
    BY <2>2 DEF SaveBegins
  <2>3. CASE SaveEnds \/ LastSaveEnds
    BY <2>3 DEF SaveEnds, LastSaveEnds, Typed, TypeOK, Model
  <2>4. CASE ExportConfig
    BY <2>4 DEF ExportConfig, Typed, TypeOK
  <2>5. CASE ExportWeights \/ ExportEnds
    <3>1. merged'.model.on \subseteq merged.model.on \cup checkpoint.on
      BY <2>5 DEF ExportWeights, ExportEnds, Typed, TypeOK
    <3> QED
      BY <2>5, <3>1 DEF ExportWeights, ExportEnds
  <2> QED
    BY <1>3, <2>1, <2>2, <2>3, <2>4, <2>5 DEF Update
<1>4. CASE Evaluate \/ Server \/ Aggregate
  BY <1>4 DEF Evaluate, Server, Aggregate
<1>5. ASSUME NEW d \in Names, Benchmark(d) PROVE Rows' \subseteq Rows
  <2>1. UNCHANGED modelVars
    BY <1>5 DEF Benchmark, Skip, Reuse, Ask, AnswersFill, AnswersClose, Score
  <2>2. \A e \in Names : answers'[e].model.on \in {answers[e].model.on, merged.model.on}
    BY <1>5 DEF Benchmark, Skip, Reuse, Ask, AnswersFill, AnswersClose, Score, Typed,
      TypeOK, Answers
  <2> QED
    BY <2>1, <2>2
<1>6. CASE Retry \/ Repeat
  BY <1>6 DEF Retry, Repeat, Relaunch
<1>7. CASE TrainingFails \/ Crash
  BY <1>7 DEF TrainingFails, Crash
<1>8. CASE UNCHANGED vars
  BY <1>8 DEF vars
<1> QED
  BY <1>1, <1>2, <1>3, <1>4, <1>5, <1>6, <1>7, <1>8 DEF Next, Work, Evaluation

\* A stage writes its own file, which no model stems from: the given files are
\* no stage's, and the generated one is not trained on yet.
LEMMA ModelProduce ==
    ASSUME Typed, ModelInv, NEW f \in Stages, Produce(f)
    PROVE  ModelInv'
<1>1. stage = f /\ UNCHANGED <<modelVars, evalVars, launchVars>>
  BY DEF Produce, Check, Open, Fill, Close, Filter
<1>2. stage' = "update" => step' = "load"
  BY DEF Produce, Check, Open, Fill, Close, Filter, GoTo, Fail, After, Stages
<1>3. \A g \in Files : g # f => file'[g] = file[g]
  BY DEF Produce, Check, Open, Fill, Close, Filter, dataVars, Typed, TypeOK
<1>4. Rows' = Rows /\ wanted' = wanted /\ Generated' = Generated /\ TrainingFile' = TrainingFile
  BY <1>1 DEF Rows, modelVars, evalVars, launchVars, Generated, TrainingFile, TrainingFor
<1>5. ASSUME NEW row \in Rows PROVE row[1] \in DataPaths /\ row[1] # f /\ row[1] \in Files
  BY <1>1, DataPathsAssumption DEF ModelInv, Files
<1>6. ASSUME NEW row \in Rows
      PROVE  row = DataOf(row[1])' /\ file'[row[1]].phase = "whole" /\ row[1] # Generated
  <2>1. row = DataOf(row[1]) /\ file[row[1]].phase = "whole"
    BY DEF ModelInv
  <2>2. file'[row[1]] = file[row[1]]
    BY <1>3, <1>5
  <2>3. row[1] # Generated
    BY <1>1 DEF ModelInv
  <2> QED
    BY <2>1, <2>2, <2>3 DEF DataOf
<1> QED
  BY <1>2, <1>4, <1>6 DEF ModelInv

\* A launch adds its training file to those asked for; the file changes with it.
LEMMA WantedStep ==
    ASSUME Typed, ModelInv, [Next]_vars, \A f \in Stages : ~Produce(f)
    PROVE  /\ wanted \subseteq wanted' /\ wanted' \subseteq DataPaths \cup {Generated}
           /\ TrainingFile' \in wanted'
           /\ TrainingFile' = TrainingFile \/ stage' = "prepare"
<1>1. CASE UNCHANGED <<run, env, wanted>>
  BY <1>1 DEF ModelInv, TrainingFile, TrainingFor, Generated
<1>2. CASE Retry \/ Repeat
  <2>1. /\ run' = run /\ env' \in Envs /\ stage' = "prepare"
        /\ wanted' = wanted \cup {TrainingFor(env'.path)}
    BY <1>2 DEF Retry, Repeat, Relaunch, GoTo
  <2>2. TrainingFile' = TrainingFor(env'.path)
    BY <2>1 DEF TrainingFile, TrainingFor, Generated
  <2>3. TrainingFor(env'.path) \in DataPaths \cup {Generated}
    BY <2>1, TrainingForFile
  <2> QED
    BY <2>1, <2>2, <2>3 DEF ModelInv
<1>3. CASE Prepare \/ Update \/ Evaluate \/ Server \/ Aggregate
  BY <1>1, <1>3 DEF Prepare, Update, Load, SaveBegins, SaveEnds, LastSaveEnds, ExportConfig,
    ExportWeights, ExportEnds, Evaluate, Server, Aggregate, launchVars
<1>4. ASSUME NEW d \in Names, Benchmark(d) PROVE UNCHANGED <<run, env, wanted>>
  BY <1>4 DEF Benchmark, Skip, Reuse, Ask, AnswersFill, AnswersClose, Score, launchVars
<1>5. CASE TrainingFails \/ Crash \/ UNCHANGED vars
  BY <1>1, <1>5 DEF TrainingFails, Crash, vars, launchVars
<1> QED
  BY <1>1, <1>2, <1>3, <1>4, <1>5 DEF Next, Work, Evaluation

\* The update starts by loading the training file, which has to be whole.
LEMMA UpdateStep ==
    ASSUME [Next]_vars, \A f \in Stages : ~Produce(f), stage' = "update", step' # "load"
    PROVE  stage = "update" /\ (step = "load" => file[TrainingFile].phase = "whole")
<1> USE DEF GoTo, Fail
<1>1. CASE Prepare
  BY <1>1 DEF Prepare
<1>2. CASE Update
  BY <1>2 DEF Update, Load, SaveBegins, SaveEnds, LastSaveEnds, ExportConfig,
    ExportWeights, ExportEnds
<1>3. CASE Evaluate \/ Server \/ Aggregate
  BY <1>3 DEF Evaluate, Server, Aggregate
<1>4. ASSUME NEW d \in Names, Benchmark(d) PROVE FALSE
  BY <1>4 DEF Benchmark, Skip, Reuse, Ask, AnswersFill, AnswersClose, Score
<1>5. CASE Retry \/ Repeat \/ TrainingFails \/ Crash
  BY <1>5 DEF Retry, Repeat, Relaunch, TrainingFails, Crash
<1>6. CASE UNCHANGED vars
  BY <1>6 DEF vars
<1> QED
  BY <1>1, <1>2, <1>3, <1>4, <1>5, <1>6 DEF Next, Work, Evaluation

LEMMA ModelStep == Typed /\ ModelInv /\ [Next]_vars => ModelInv'
<1> SUFFICES ASSUME Typed, ModelInv, [Next]_vars PROVE ModelInv'
  OBVIOUS
<1>1. CASE \E f \in Stages : Produce(f)
  BY <1>1, ModelProduce
<1>2. CASE \A f \in Stages : ~Produce(f)
  <2>1. file' = file /\ Generated' = Generated /\ \A f : DataOf(f)' = DataOf(f)
    BY <1>2, Elsewhere DEF Generated, DataOf
  <2>2. /\ wanted \subseteq wanted' /\ wanted' \subseteq DataPaths \cup {Generated}
        /\ TrainingFile' \in wanted'
        /\ TrainingFile' = TrainingFile \/ stage' = "prepare"
    BY <1>2, WantedStep
  <2>3. stage' \in Stages => stage \in Stages \/ ~Nonempty(Generated)
    BY <1>2, Elsewhere DEF Stages, TrainingFile, TrainingFor, Given
  <2>4. ASSUME NEW row \in Rows
        PROVE  /\ row[1] \in wanted' /\ row = DataOf(row[1])' /\ file'[row[1]].phase = "whole"
               /\ row[1] = Generated => stage' \notin Stages
    <3>1. /\ row[1] \in wanted /\ row = DataOf(row[1]) /\ file[row[1]].phase = "whole"
          /\ row[1] = Generated => stage \notin Stages
      BY DEF ModelInv
    <3>2. row[1] = Generated => Nonempty(Generated)
      BY <3>1 DEF Nonempty
    <3> QED
      BY <2>1, <2>2, <2>3, <3>1, <3>2
  <2>5. SaveBegins => /\ Trained = DataOf(TrainingFile) /\ Trained[1] = TrainingFile
                      /\ file[TrainingFile].phase = "whole" /\ TrainingFile \in wanted
                      /\ stage' = "update"
    BY DEF SaveBegins, ModelInv, Trained, DataOf
  <2>6. stage' = "update" /\ step' # "load" => file'[TrainingFile'].phase = "whole"
    <3>1. stage' = "update" /\ step' # "load" => stage = "update"
      BY <1>2, UpdateStep
    <3>2. CASE step = "load"
      BY <1>2, <2>1, <2>2, <3>1, <3>2, UpdateStep
    <3>3. CASE step # "load"
      BY <2>1, <2>2, <3>1, <3>3 DEF ModelInv
    <3> QED
      BY <3>2, <3>3
  <2>7. ASSUME NEW row \in Rows'
        PROVE  /\ row[1] \in wanted' /\ row = DataOf(row[1])' /\ file'[row[1]].phase = "whole"
               /\ row[1] = Generated => stage' \notin Stages
    <3>1. CASE row \in Rows
      BY <2>4, <3>1
    <3>2. CASE SaveBegins /\ row = Trained
      BY <2>1, <2>2, <2>5, <3>2 DEF Stages
    <3> QED
      BY <3>1, <3>2, RowsStep
  <2> QED
    BY <2>1, <2>2, <2>6, <2>7 DEF ModelInv
<1> QED
  BY <1>1, <1>2

\* Checkpoints, exported weights and answers of one RUN_DATE all stem from the
\* training files of its launches as they are on disk, however many launches
\* and crashes and whatever DATA_PATH each was given.
THEOREM PipelineOneModel == Spec => []OneModelPerRun
<1>1. Init => ModelInv
  <2> SUFFICES ASSUME Init PROVE ModelInv
    OBVIOUS
  <2>1. Rows = {}
    BY DEF Init, Rows, NoAnswers
  <2>2. TrainingFile \in DataPaths \cup {Generated} /\ wanted = {TrainingFile}
    BY TrainingForFile DEF Init, TrainingFile
  <2> QED
    BY <2>1, <2>2 DEF Init, ModelInv
<1> QED
  BY <1>1, ModelStep, ModelInvImplies, InitTyped, TypedStep, PTL DEF Spec
----------------------------------------------------------------------------
\* An evaluation that follows an export finds whole weights.
WholeInv ==
    /\ EvaluatesWholeModel
    /\ stage = "evaluation" /\ env.merge => ~merged.model.torn

LEMMA WholeStep == Typed /\ WholeInv /\ [Next]_vars => WholeInv'
<1> SUFFICES ASSUME Typed, WholeInv, [Next]_vars PROVE WholeInv'
  OBVIOUS
<1> USE DEF WholeInv, EvaluatesWholeModel, GoTo, Fail, dataVars, modelVars, evalVars, launchVars
<1>1. ASSUME NEW f \in Stages, Produce(f) PROVE WholeInv'
  BY <1>1 DEF Produce, Check, Open, Fill, Close, Filter, After, Stages
<1>2. CASE Prepare
  BY <1>2 DEF Prepare
<1>3. CASE Update
  <2>1. CASE Load \/ SaveBegins \/ SaveEnds \/ LastSaveEnds
    BY <2>1 DEF Load, SaveBegins, SaveEnds, LastSaveEnds
  <2>2. CASE ExportConfig \/ ExportWeights
    BY <2>2 DEF ExportConfig, ExportWeights
  <2>3. CASE ExportEnds
    <3>1. ~merged'.model.torn
      BY <2>3 DEF ExportEnds, Typed, TypeOK
    <3> QED
      BY <2>3, <3>1 DEF ExportEnds
  <2> QED
    BY <1>3, <2>1, <2>2, <2>3 DEF Update
<1>4. CASE Evaluate \/ Server \/ Aggregate
  BY <1>4 DEF Evaluate, Server, Aggregate
<1>5. ASSUME NEW d \in Names, Benchmark(d) PROVE WholeInv'
  <2>1. CASE Ask(d)
    <3>1. answers'[d].model = merged.model /\ answers'[d].exported = env.merge
      BY <2>1 DEF Ask, Typed, TypeOK
    <3> QED
      BY <2>1, <3>1 DEF Ask
  <2>2. CASE AnswersFill(d) \/ AnswersClose(d)
    BY <2>2 DEF AnswersFill, AnswersClose, Typed, TypeOK, Answers
  <2>3. CASE Skip(d) \/ Reuse(d) \/ Score(d)
    BY <2>3 DEF Skip, Reuse, Score
  <2> QED
    BY <1>5, <2>1, <2>2, <2>3 DEF Benchmark
<1>6. CASE Retry \/ Repeat
  BY <1>6 DEF Retry, Repeat, Relaunch
<1>7. CASE TrainingFails \/ Crash
  BY <1>7 DEF TrainingFails, Crash
<1>8. CASE UNCHANGED vars
  BY <1>8 DEF vars
<1> QED
  BY <1>1, <1>2, <1>3, <1>4, <1>5, <1>6, <1>7, <1>8 DEF Next, Work, Evaluation

\* No answers come from weights an export left half-written, unless the launch
\* that asked for them was told not to export.
THEOREM PipelineWholeModel == Spec => []EvaluatesWholeModel
<1>1. Init => WholeInv
  BY DEF Init, WholeInv, EvaluatesWholeModel, NoAnswers
<1> QED
  BY <1>1, WholeStep, InitTyped, TypedStep, PTL DEF Spec, WholeInv
----------------------------------------------------------------------------
\* What the benchmark has to have done for a dataset once it is off todo.
Scored(d) == answers[d].phase = "whole" /\ "score" \in results[d]

\* A score is backed by whole answers and comes before any aggregate; answers
\* exist only for datasets that are there.
DoneInv ==
    /\ DoneMeansEvaluated
    /\ \A d \in Names :
         /\ results[d] # {} => Scored(d)
         /\ d \notin Available => answers[d].phase = "missing"
    /\ stage = "evaluation" /\ step # "missing" =>
         env.eval /\ \A d \in Names \cap Available : d \in todo \/ Scored(d)
    /\ stage = "evaluation" /\ step \in {"fill", "close"} =>
         \A d \in Names : IsNext(d) => ~Scored(d) /\ d \in Available

\* Only one dataset is next.
LEMMA NextIsOne ==
    ASSUME NEW d \in Names, NEW e \in Names, IsNext(d), IsNext(e)
    PROVE  d = e
<1>1. DOMAIN Datasets \subseteq Int
  BY DatasetsAssumption
<1> QED
  BY <1>1 DEF IsNext

\* A step of the benchmark for one dataset.
LEMMA DoneBenchmark ==
    ASSUME Typed, DoneInv, NEW d \in Names, Benchmark(d)
    PROVE  DoneInv'
<1> USE DEF DoneInv, DoneMeansEvaluated, Scored, GoTo, Fail, dataVars, modelVars, evalVars,
        launchVars
<1> answers \in [Names -> Answers] /\ results \in [Names -> SUBSET {"score", "aggregate"}]
  BY DEF Typed, TypeOK
<1>1. CASE Skip(d)
  BY <1>1 DEF Skip
<1>2. CASE Reuse(d)
  BY <1>2 DEF Reuse
<1>3. CASE Ask(d)
  <2>1. answers'[d].phase = "empty" /\ \A e \in Names : e # d => answers'[e] = answers[e]
    BY <1>3 DEF Ask
  <2>2. answers[d].phase # "whole" /\ results[d] = {} /\ d \in todo /\ d \in Available
    BY <1>3 DEF Ask, HasAnswers, IsNext
  <2>3. \A e \in Names : IsNext(e)' => e = d
    BY <1>3, NextIsOne DEF Ask, IsNext
  <2> QED
    BY <1>3, <2>1, <2>2, <2>3 DEF Ask
<1>4. CASE AnswersFill(d)
  <2>1. answers'[d].phase = "torn" /\ \A e \in Names : e # d => answers'[e] = answers[e]
    BY <1>4 DEF AnswersFill, Answers
  <2>2. ~Scored(d) /\ results[d] = {} /\ d \in todo /\ d \in Available
    BY <1>4 DEF AnswersFill, IsNext
  <2>3. \A e \in Names : IsNext(e)' => e = d
    BY <1>4, NextIsOne DEF AnswersFill, IsNext
  <2> QED
    BY <1>4, <2>1, <2>2, <2>3 DEF AnswersFill
<1>5. CASE AnswersClose(d)
  <2>1. answers'[d].phase = "whole" /\ \A e \in Names : e # d => answers'[e] = answers[e]
    BY <1>5 DEF AnswersClose, Answers
  <2>2. results[d] = {} /\ d \in todo /\ d \in Available
    BY <1>5 DEF AnswersClose, IsNext
  <2> QED
    BY <1>5, <2>1, <2>2 DEF AnswersClose
<1>6. CASE Score(d)
  <2>1. CASE answers[d].phase # "whole"
    BY <1>6, <2>1 DEF Score
  <2>2. CASE answers[d].phase = "whole"
    <3>1. "score" \in results'[d] /\ \A e \in Names : e # d => results'[e] = results[e]
      BY <1>6, <2>2 DEF Score
    <3> QED
      BY <1>6, <2>2, <3>1 DEF Score
  <2> QED
    BY <2>1, <2>2
<1> QED
  BY <1>1, <1>2, <1>3, <1>4, <1>5, <1>6 DEF Benchmark

\* The aggregates close the work on every dataset that has answers.
LEMMA DoneAggregate == ASSUME Typed, DoneInv, Aggregate PROVE DoneInv'
<1> USE DEF DoneInv, DoneMeansEvaluated, Scored, GoTo, Aggregate, dataVars, modelVars, launchVars
<1> results \in [Names -> SUBSET {"score", "aggregate"}]
  BY DEF Typed, TypeOK
<1>1. \A d \in Names \cap Available : Scored(d)
  OBVIOUS
<1>2. \A d \in Names : /\ results[d] \subseteq results'[d]
                       /\ results'[d] # {} => results[d] # {} \/ answers[d].phase # "missing"
  OBVIOUS
<1>3. \A d \in Names : answers[d].phase # "missing" => d \in Available
  OBVIOUS
<1>4. \A d \in Names \cap Available : run.pass16 => "aggregate" \in results'[d]
  <2> SUFFICES ASSUME NEW d \in Names \cap Available, run.pass16 PROVE "aggregate" \in results'[d]
    OBVIOUS
  <2>1. results[d] # {} /\ answers[d].phase # "missing"
    BY <1>1
  <2>2. Complete(d) => "aggregate" \in results[d]
    BY DEF Complete
  <2> QED
    BY <2>1, <2>2
<1> QED
  BY <1>1, <1>2, <1>3, <1>4

LEMMA DoneStep == Typed /\ DoneInv /\ [Next]_vars => DoneInv'
<1> SUFFICES ASSUME Typed, DoneInv, [Next]_vars PROVE DoneInv'
  OBVIOUS
<1> USE DEF DoneInv, DoneMeansEvaluated, Scored, GoTo, Fail, dataVars, modelVars, evalVars,
        launchVars
<1>1. ASSUME NEW f \in Stages, Produce(f) PROVE DoneInv'
  BY <1>1 DEF Produce, Check, Open, Fill, Close, Filter, After, Stages
<1>2. CASE Prepare
  BY <1>2 DEF Prepare
<1>3. CASE Update
  BY <1>3 DEF Update, Load, SaveBegins, SaveEnds, LastSaveEnds, ExportConfig,
    ExportWeights, ExportEnds
<1>4. CASE Evaluate
  <2>1. \A d \in Names : Complete(d) => Scored(d) /\ (run.pass16 => "aggregate" \in results[d])
    BY DEF Complete
  <2>2. \A d \in Names : d \in Missing \/ Complete(d)
    BY DEF Missing
  <2> QED
    BY <1>4, <2>1, <2>2 DEF Evaluate
<1>5. CASE Server
  BY <1>5 DEF Server
<1>6. CASE \E d \in Names : Benchmark(d)
  BY <1>6, DoneBenchmark
<1>7. CASE Aggregate
  BY <1>7, DoneAggregate
<1>8. CASE Retry \/ Repeat
  BY <1>8 DEF Retry, Repeat, Relaunch
<1>9. CASE TrainingFails \/ Crash
  BY <1>9 DEF TrainingFails, Crash
<1>10. CASE UNCHANGED vars
  BY <1>10 DEF vars, IsNext
<1> QED
  BY <1>1, <1>2, <1>3, <1>4, <1>5, <1>6, <1>7, <1>8, <1>9, <1>10 DEF Next, Work, Evaluation

\* A launch that ends well with evaluation on leaves whole answers, the score
\* and the aggregates asked for, of every dataset that is there.
THEOREM PipelineDoneMeansEvaluated == Spec => []DoneMeansEvaluated
<1>1. Init => DoneInv
  BY DEF Init, DoneInv, DoneMeansEvaluated, Scored, NoAnswers
<1> QED
  BY <1>1, DoneStep, InitTyped, TypedStep, PTL DEF Spec, DoneInv
=============================================================================
