----------------------------- MODULE RolloutSync -----------------------------
(***************************************************************************)
(* ParameterSynchronizer.sync_weights around a partial rollout: the        *)
(* rollouter pauses, its servers and workers cut the sample short, the      *)
(* checkpoint manager aborts what the engines still run and streams the new *)
(* weights in, the rollouter takes the new version and resumes.  With       *)
(* parallel_validate_and_rollout a validation started by one update is      *)
(* still generating when the next one begins.                               *)
(***************************************************************************)
EXTENDS PartialRollout

CONSTANTS
    EngineStops,  \* the values of _VLLM_VERSION >= "0.12.0" of this instance
    Parallel,     \* the values of parallel_validate_and_rollout
    ValLength     \* words of a validation answer

VARIABLES
    phase,    \* where sync_weights and the rollouter are
    paused,   \* the rollouter's `paused`
    told,     \* servers the manager has been answered by
    pausing,  \* _VLLM_VERSION >= "0.12.0": an aborted engine takes nothing new
    parallel, \* parallel_validate_and_rollout
    stopped,  \* [Servers -> the engine is in pause_generation]
    steps,    \* [Servers -> the server's global_steps]
    val       \* the validation's request (FullyAsyncLLMServerManager.generate)

setup == <<pausing, parallel>>
syncVars == <<phase, paused, told, setup, stopped, steps, val>>
vars == <<rolloutVars, weightVars, syncVars>>

Stream == INSTANCE WeightStream WITH Workers <- Servers, at_risk <- {}

NoVal == [at |-> "idle", server |-> NoServer, out |-> << >>, text |-> << >>,
          min |-> -1, max |-> -1]

Init ==
    /\ RolloutInit /\ Stream!StreamInit
    /\ phase = "open" /\ paused = FALSE /\ told = {}
    /\ pausing \in EngineStops /\ parallel \in Parallel
    /\ stopped = [s \in Servers |-> FALSE] /\ steps = [s \in Servers |-> 0] /\ val = NoVal
-----------------------------------------------------------------------------
AllCancelled == (\A s \in Servers : closed[s]) /\ interrupted

\* _processor_worker submits the sample when `paused` is clear and it gets the lock, which
\* resume holds while it tells servers and workers.
Submit ==
    /\ ~paused /\ sample.at = "queued" /\ (phase = "versioned" => AllCancelled)
    /\ sample' = [sample EXCEPT !.at = "submitted", !.late = phase # "open"]
    /\ UNCHANGED <<agent, limit, known, data, task, req, closed, interrupted, weightVars, syncVars>>

\* The trainer calls sync_weights; FullyAsyncRollouter.pause takes the lock.
SyncWeights ==
    /\ phase = "open" /\ version < MaxUpdates
    /\ phase' = "cancelling" /\ paused' = TRUE
    /\ UNCHANGED <<rolloutVars, weightVars, told, setup, stopped, steps, val>>

\* _async_monitor_loop decided to lift a pause before pause() cleared its trigger.  It
\* waits for the lock and has it after pause(), before update_param_version asks for it.
LateRecovery ==
    /\ phase \in {"paused", "updating"} /\ paused
    /\ paused' = FALSE
    /\ UNCHANGED <<rolloutVars, weightVars, phase, told, setup, stopped, steps, val>>

\* FullyAsyncAgentLoopManager.cancel: servers and workers, in any order.
CancelServer(s) ==
    /\ phase = "cancelling" /\ ~closed[s] /\ Cancel(s)
    /\ UNCHANGED <<agent, limit, known, sample, data, task, interrupted, weightVars, syncVars>>

CancelWorker ==
    /\ phase = "cancelling" /\ ~interrupted /\ interrupted' = TRUE
    /\ UNCHANGED <<agent, limit, known, sample, data, task, req, closed, weightVars, syncVars>>

\* Mutant: pause does not wait for the active tasks.
PausedEarly ==
    /\ phase = "cancelling" /\ AllCancelled
    /\ phase' = "paused"
    /\ UNCHANGED <<rolloutVars, weightVars, paused, told, setup, stopped, steps, val>>

\* gather of the active tasks: pause returns.
Paused ==
    /\ phase = "cancelling" /\ AllCancelled /\ sample.at \notin {"submitted", "running"}
    /\ phase' = "paused"
    /\ UNCHANGED <<rolloutVars, weightVars, paused, told, setup, stopped, steps, val>>

\* Mutant: the first segment's step is overwritten.
MergedLast(g) == [val EXCEPT !.text = @ \o val.out, !.out = << >>, !.min = g, !.max = g]

\* What FullyAsyncLLMServerManager.generate makes of an answer with global_steps g.
Merged(g) == [val EXCEPT !.text = @ \o val.out, !.out = << >>,
                         !.min = IF @ = -1 THEN g ELSE @, !.max = g]

\* Mutant: an old engine is stopped too, and resume_generation does nothing for it.
AbortStops(s) ==
    /\ phase = "paused" /\ s \notin told
    /\ told' = told \cup {s} /\ stopped' = [stopped EXCEPT ![s] = TRUE]
    /\ req' = [t \in Trajectories |->
                  IF req[t].server = s THEN [req[t] EXCEPT !.over = TRUE] ELSE req[t]]
    /\ val' = IF val.at = "serving" /\ val.server = s
              THEN [Merged(steps[s]) EXCEPT !.at = "sent"] ELSE val
    /\ UNCHANGED <<agent, limit, known, sample, data, task, closed, interrupted, weightVars,
                   phase, paused, setup, steps>>

\* abort_all_requests: every request of the engine ends with what it has.  The
\* validation's asks again at once for the rest ("aborted", partial_rollout_resume).
Abort(s) ==
    /\ phase = "paused" /\ s \notin told
    /\ told' = told \cup {s} /\ stopped' = [stopped EXCEPT ![s] = pausing]
    /\ req' = [t \in Trajectories |->
                  IF req[t].server = s THEN [req[t] EXCEPT !.over = TRUE] ELSE req[t]]
    /\ val' = IF val.at = "serving" /\ val.server = s
              THEN [Merged(steps[s]) EXCEPT !.at = "sent"] ELSE val
    /\ UNCHANGED <<agent, limit, known, sample, data, task, closed, interrupted, weightVars,
                   phase, paused, setup, steps>>

\* update_weights of the checkpoint manager: the engine it uses is WeightStream here.
BeginTransfer ==
    /\ phase = "paused" /\ told = Servers
    /\ Stream!BeginUpdate
    /\ phase' = "updating" /\ told' = {}
    /\ UNCHANGED <<rolloutVars, paused, setup, stopped, steps, val>>

Load(s) ==
    /\ phase = "updating" /\ Stream!LoadIntact(s)
    /\ UNCHANGED <<rolloutVars, syncVars>>

\* The last bucket is in: set_global_steps.
SetSteps(s) ==
    /\ phase = "updating" /\ Len(loaded[s]) = TensorCount /\ steps[s] < version
    /\ steps' = [steps EXCEPT ![s] = version]
    /\ UNCHANGED <<rolloutVars, weightVars, phase, paused, told, setup, stopped, val>>

Updated == phase = "updating" /\ \A s \in Servers : steps[s] = version

\* resume_generation, which an old vLLM does not have.
ResumeGeneration(s) ==
    /\ Updated /\ pausing /\ stopped[s]
    /\ stopped' = [stopped EXCEPT ![s] = FALSE]
    /\ UNCHANGED <<rolloutVars, weightVars, phase, paused, told, setup, steps, val>>

\* Mutant: the version is counted once more.
UpdateTooFar ==
    /\ Updated /\ \A s \in Servers : ~stopped[s]
    /\ known' = version + 1
    /\ IF parallel /\ val.at # "idle" THEN phase' = "failed" ELSE phase' = "versioned"
    /\ IF parallel /\ val.at = "idle"
         THEN \E s \in Servers : val' = [NoVal EXCEPT !.at = "sent", !.server = s]
         ELSE UNCHANGED val
    /\ UNCHANGED <<agent, limit, sample, data, task, req, closed, interrupted, weightVars,
                   paused, told, setup, stopped, steps>>

\* update_param_version: a validation starts beside the rollout; if the one before is
\* still running, its .get() is not a method of an asyncio task and the call fails.
\* (One that is not parallel is over when the call returns.)
UpdateParamVersion ==
    /\ Updated /\ \A s \in Servers : ~stopped[s]
    /\ known' = version
    /\ IF parallel /\ val.at # "idle" THEN phase' = "failed" ELSE phase' = "versioned"
    /\ IF parallel /\ val.at = "idle"
         THEN \E s \in Servers : val' = [NoVal EXCEPT !.at = "sent", !.server = s]
         ELSE UNCHANGED val
    /\ UNCHANGED <<agent, limit, sample, data, task, req, closed, interrupted, weightVars,
                   paused, told, setup, stopped, steps>>

\* FullyAsyncRollouter.resume, called with the reference of the call before.
ResumeServer(s) ==
    /\ phase = "versioned" /\ closed[s] /\ Resume(s)
    /\ UNCHANGED <<agent, limit, known, sample, data, task, req, interrupted, weightVars, syncVars>>

ResumeWorker ==
    /\ phase = "versioned" /\ interrupted /\ interrupted' = FALSE
    /\ UNCHANGED <<agent, limit, known, sample, data, task, req, closed, weightVars, syncVars>>

\* Mutant: resume returns whether or not the worker has cleared its event.
ResumedEarly ==
    /\ phase = "versioned" /\ \A s \in Servers : ~closed[s]
    /\ phase' = "open" /\ paused' = FALSE
    /\ UNCHANGED <<rolloutVars, weightVars, told, setup, stopped, steps, val>>

Resumed ==
    /\ phase = "versioned" /\ ~interrupted /\ \A s \in Servers : ~closed[s]
    /\ phase' = "open" /\ paused' = FALSE
    /\ UNCHANGED <<rolloutVars, weightVars, told, setup, stopped, steps, val>>
-----------------------------------------------------------------------------
(* The validation: generate until an answer is not "aborted".              *)

ValRegister ==
    /\ val.at = "sent" /\ ~stopped[val.server]
    /\ val' = [val EXCEPT !.at = "serving"]
    /\ UNCHANGED <<rolloutVars, weightVars, phase, paused, told, setup, stopped, steps>>

ValEmit ==
    /\ val.at = "serving" /\ Len(val.text) + Len(val.out) < ValLength
    /\ val' = [val EXCEPT !.out = Append(@, [i |-> NextIndex(val.text \o val.out),
                                             v |-> Weights(val.server)])]
    /\ UNCHANGED <<rolloutVars, weightVars, phase, paused, told, setup, stopped, steps>>

ValReply ==
    /\ val.at = "serving" /\ Len(val.text) + Len(val.out) = ValLength
    /\ val' = [Merged(steps[val.server]) EXCEPT !.at = "answered"]
    /\ UNCHANGED <<rolloutVars, weightVars, phase, paused, told, setup, stopped, steps>>

\* put_validate: the metrics are sent under the version the validation was asked for.
ValReport ==
    /\ val.at = "answered" /\ val' = NoVal
    /\ UNCHANGED <<rolloutVars, weightVars, phase, paused, told, setup, stopped, steps>>

ValStep == ValRegister \/ ValEmit \/ ValReply \/ ValReport

ServerStep(s) ==
    CancelServer(s) \/ Abort(s) \/ Load(s) \/ SetSteps(s) \/ ResumeGeneration(s) \/ ResumeServer(s)
RollouterStep ==
    CancelWorker \/ Paused \/ BeginTransfer \/ UpdateParamVersion \/ ResumeWorker \/ Resumed

Next ==
    \/ Submit \/ SyncWeights \/ LateRecovery \/ RollouterStep \/ ValStep
    \/ \E s \in Servers : ServerStep(s)
    \/ SampleStep /\ UNCHANGED syncVars
    \/ \E t \in Trajectories : TrajectoryStep(t) /\ UNCHANGED syncVars

Spec == Init /\ [][Next]_vars

\* Everything runs but the trainer, which may never ask for an update.
Fairness ==
    /\ WF_vars(Submit) /\ WF_vars(RollouterStep) /\ WF_vars(ValStep)
    /\ WF_vars(SampleStep /\ UNCHANGED syncVars)
    /\ \A s \in Servers : WF_vars(ServerStep(s))
    /\ \A t \in Trajectories : WF_vars(TrajectoryStep(t) /\ UNCHANGED syncVars)

FairSpec == Spec /\ Fairness
-----------------------------------------------------------------------------
(* Properties.                                                             *)

Words(Versions) == [i : 1 .. Len(Script) + 1, v : Versions]

TypeOK ==
    /\ known \in 0 .. version /\ version \in 0 .. MaxUpdates
    /\ sample.at \in {"queued", "submitted", "running", "done"}
    /\ \A t \in Trajectories :
          /\ task[t] \in {"off", "loop", "sent", "tools", "serving", "returned"}
          /\ \A k \in DOMAIN data[t].text : data[t].text[k] \in Words(NotGenerated .. version)
          /\ \A k \in DOMAIN req[t].out : req[t].out[k] \in Words(Torn .. version)
          /\ data[t].begin \in 0 .. version /\ data[t].end \in 0 .. version
    /\ phase \in {"open", "cancelling", "paused", "updating", "versioned", "failed"}
    /\ paused \in BOOLEAN
    /\ val.at \in {"idle", "sent", "serving", "answered"}

\* The call of a tool was cut: its words come from two requests.
CallCut(t) ==
    /\ agent = "tool" /\ Len(data[t].text) >= 2
    /\ data[t].text[1].v # data[t].text[2].v

\* Where an uninterrupted loop would end: at the limit, before an answer that does not
\* fit, at the end of the script.
Uninterrupted ==
    LET least(m, n) == IF m < n THEN m ELSE n
        unfit == {i \in DOMAIN Script : Script[i] = "answer" /\ i >= limit}
    IN  least(limit, IF unfit = {} THEN Len(Script) ELSE (CHOOSE i \in unfit :
                                       \A j \in unfit : i <= j) - 1)

\* The conversations that ContinuationExact and the indices in TypeOK are about: a single
\* turn of words; or a call, its answer and a closing turn of words.
ScriptShape ==
    /\ DOMAIN Scripts \subseteq {"single", "tool"} /\ Cap \in Nat
    /\ \A a \in DOMAIN Scripts : Scripts[a] \in Seq(STRING) /\ Len(Scripts[a]) <= Cap
    /\ "single" \in DOMAIN Scripts =>
          /\ Len(Scripts["single"]) > 0
          /\ \A i \in 1 .. Len(Scripts["single"]) : Scripts["single"][i] = "word"
    /\ "tool" \in DOMAIN Scripts =>
          /\ Len(Scripts["tool"]) > 3
          /\ Scripts["tool"][1] = "open" /\ Scripts["tool"][2] = "close"
          /\ Scripts["tool"][3] = "answer"
          /\ \A i \in 4 .. Len(Scripts["tool"]) : Scripts["tool"][i] = "word"

\* "making rollout interruption invisible to the AgentLoop": however often and wherever a
\* trajectory is cut, its words are those of an uninterrupted one, none lost, repeated or
\* masked wrongly, and it ends where that one ends, unless its tool call was cut in two.
ContinuationExact ==
    \A t \in Trajectories :
        LET d == data[t]
            n == Len(d.text)
        IN  /\ n <= Len(Script) /\ DOMAIN d.mask = 1 .. n /\ DOMAIN d.logprobs = 1 .. n
            /\ \A k \in 1 .. n :
                  /\ d.text[k].i = k
                  /\ d.mask[k] = (IF WordAt(k) = "answer" THEN 0 ELSE 1)
                  /\ d.logprobs[k] = k * d.mask[k]
            /\ ~d.cancel => d.scored = 1 /\ (n = Uninterrupted \/ (CallCut(t) /\ n = 2))

\* param_version_start and param_version_end: the words of a complete trajectory were
\* generated by whole models of the versions between the two, in their order.  A trajectory
\* of a sample that a late recovery submitted during an update, and whose task read the
\* version before update_param_version, may hold words of the next version too.
VersionsBracket ==
    \A t \in Trajectories :
        LET d == data[t]
            own == {k \in DOMAIN d.text : d.mask[k] = 1}
            last == IF d.overtaken THEN d.end + 1 ELSE d.end
        IN  ~d.cancel =>
                /\ \A k \in own : d.text[k].v \in d.begin .. last
                /\ \A j, k \in own : j < k => d.text[j].v <= d.text[k].v

\* min_global_steps and max_global_steps of an answer that was aborted and taken up again:
\* its words follow each other and come from whole models of the steps between the two,
\* if an aborted engine takes nothing new (an old vLLM does, with half-loaded weights).
ValidationBracketed ==
    val.at = "answered" =>
        /\ \A k \in DOMAIN val.text : val.text[k].i = k
        /\ pausing => \A k \in DOMAIN val.text : val.text[k].v \in val.min .. val.max

\* No request of the sample starts, or goes on unasked, on a server that was cancelled:
\* one that arrives after the sweep is turned away.
NoneSlipsPast ==
    \A t \in Trajectories : task[t] = "serving" /\ closed[req[t].server] => req[t].event

\* No server works on a request of the sample while weights are replaced, so
\* abort_all_requests, which would pass a cut answer off as a complete one, finds only
\* validations.  pause() returns with nothing of the sample running; a task it has after
\* that was started because the monitor lifted the pause, and is turned away.
WeightsMoveAlone ==
    phase \in {"paused", "updating"} =>
        \A t \in Trajectories : task[t] # "serving" /\ (task[t] = "off" \/ sample.late)

\* "Completed, return directly": resubmitting a sample for its cancelled trajectories
\* never changes or scores again one that is complete.
CompletedStays ==
    [][\A t \in Trajectories :
          ~data[t].cancel => data'[t] = [data[t] EXCEPT !.home = data'[t].home]]_vars

\* Every sample is completed, however often the updates cut it.
SampleCompletes == <>(sample.at = "done")

\* Every update ends with the rollouter running again, unless a validation it had started
\* is not over when the next one is due.
RolloutResumes == phase # "open" ~> (phase = "open" \/ (parallel /\ phase = "failed"))
=============================================================================
