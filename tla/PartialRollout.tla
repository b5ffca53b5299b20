--------------------------- MODULE PartialRollout ---------------------------
(***************************************************************************)
(* Partial rollout: the inference servers that can be told to cut their    *)
(* requests short (generate_for_partial, cancel, resume), the two agent    *)
(* loops that save what a cut request had produced and go on from it after *)
(* the weights have changed, and the worker that runs the trajectories of  *)
(* one sample until none is cancelled.                                     *)
(*                                                                         *)
(* Text is a sequence of words of a fixed script, so that a word left out, *)
(* repeated or out of place shows.                                         *)
(***************************************************************************)
EXTENDS Integers, Sequences, FiniteSets

CONSTANTS
    Trajectories,  \* the rollouts of the sample (rollout.n of them)
    Servers,       \* the inference servers
    NoServer,      \* no server chosen yet
    Scripts,       \* [agent -> the words the model and the tools would produce]
    Limits,        \* the values of response_length of this instance
    Cap,           \* max_model_len, less the prompt
    TensorCount,   \* tensors of the model
    MaxUpdates     \* bound: weight updates of a run

ASSUME RolloutAssumption ==
    /\ Limits \subseteq Nat /\ TensorCount \in Nat \ {0} /\ MaxUpdates \in Nat
    /\ NoServer \notin Servers

VARIABLES
    agent,        \* agent_name of the sample: "single" or "tool"
    limit,        \* response_length
    known,        \* the rollouter's current_param_version
    sample,       \* where the sample is, param_version of its last submission; for the
                  \* properties: late, whether it was submitted while weights were moved
    data,         \* [Trajectories -> its AgentLoopOutput, or the agent_data in it]
    task,         \* [Trajectories -> where its coroutine is]
    req,          \* [Trajectories -> its request at a server]
    closed,       \* [Servers -> the server's `paused`]
    interrupted,  \* the worker's cancellation_event
    version,      \* the weights' version (WeightStream)
    loaded        \* [Servers -> the tensors loaded so far] (WeightStream)

rolloutVars == <<agent, limit, known, sample, data, task, req, closed, interrupted>>
weightVars == <<version, loaded>>

Torn == -1          \* the version of a word computed with half-loaded weights
NotGenerated == -2  \* the version of a word that comes from a tool

Script == Scripts[agent]
WordAt(i) == IF i \in DOMAIN Script THEN Script[i] ELSE "beyond"
EndsTurn(i) == i >= Len(Script) \/ WordAt(i + 1) = "answer"
HasCall(words) == {"open", "close"} \subseteq {WordAt(words[k].i) : k \in DOMAIN words}

\* A server's weights, as an engine sees them while tensors are coming in.
Weights(s) == CASE Len(loaded[s]) = TensorCount -> version
                [] loaded[s] = << >>            -> version - 1
                [] OTHER                        -> Torn

NextIndex(words) == IF words = << >> THEN 1 ELSE words[Len(words)].i + 1
Upto(n, s) == SubSeq(s, 1, IF n < Len(s) THEN n ELSE Len(s))
Ones(n) == [k \in 1 .. n |-> 1]
Indices(words) == [k \in DOMAIN words |-> words[k].i]

NoRequest == [server |-> NoServer, prompt |-> << >>, out |-> << >>, event |-> FALSE, over |-> FALSE]
NewData == [text |-> << >>, mask |-> << >>, logprobs |-> << >>, state |-> "PENDING",
            begin |-> 0, end |-> 0, cancel |-> TRUE, scored |-> 0, home |-> NoServer,
            overtaken |-> FALSE]

RolloutInit ==
    /\ agent \in DOMAIN Scripts /\ limit \in Limits /\ known = 0
    /\ sample \in [at : {"queued", "done"}, version : {0}, first : {TRUE}, late : {FALSE}]
    /\ data = [t \in Trajectories |-> NewData]
    /\ task = [t \in Trajectories |-> "off"]
    /\ req = [t \in Trajectories |-> NoRequest]
    /\ closed = [s \in Servers |-> FALSE] /\ interrupted = FALSE
-----------------------------------------------------------------------------
(* The sample: _process_single_sample_streaming, generate_sequences_no_post *)

\* Mutant: every trajectory of the sample runs again.
StartAll ==
    /\ sample.at = "submitted"
    /\ sample' = [sample EXCEPT !.at = "running", !.version = known, !.first = FALSE]
    /\ task' = [t \in Trajectories |-> "loop"]
    /\ data' = [t \in Trajectories |->
                   [data[t] EXCEPT !.home = NoServer,
                                   !.begin = IF sample.first THEN known ELSE @]]
    /\ UNCHANGED <<agent, limit, known, req, closed, interrupted, weightVars>>

\* Mutant: a resubmission forgets the version the trajectory began with.
StartForgetful ==
    /\ sample.at = "submitted"
    /\ sample' = [sample EXCEPT !.at = "running", !.version = known, !.first = FALSE]
    /\ task' = [t \in Trajectories |-> IF data[t].cancel THEN "loop" ELSE "returned"]
    /\ data' = [t \in Trajectories |->
                   [data[t] EXCEPT !.home = NoServer,
                                   !.begin = IF data[t].cancel THEN known ELSE @]]
    /\ UNCHANGED <<agent, limit, known, req, closed, interrupted, weightVars>>

\* The task's first step reads the version; the worker whose turn it is starts a
\* coroutine for each trajectory, and one that was complete before returns at once.
StartSample ==
    /\ sample.at = "submitted"
    /\ sample' = [sample EXCEPT !.at = "running", !.version = known, !.first = FALSE]
    /\ task' = [t \in Trajectories |-> IF data[t].cancel THEN "loop" ELSE "returned"]
    /\ data' = [t \in Trajectories |->
                   [data[t] EXCEPT !.home = NoServer,
                                   !.begin = IF sample.first THEN known ELSE @]]
    /\ UNCHANGED <<agent, limit, known, req, closed, interrupted, weightVars>>

\* gather: with a cancelled trajectory among them the sample goes to cancel_queue,
\* without one it is complete.
FinishSample ==
    /\ sample.at = "running" /\ \A t \in Trajectories : task[t] = "returned"
    /\ sample' = [sample EXCEPT !.at =
                     IF \E t \in Trajectories : data[t].cancel THEN "queued" ELSE "done"]
    /\ task' = [t \in Trajectories |-> "off"]
    /\ UNCHANGED <<agent, limit, known, data, req, closed, interrupted, weightVars>>
-----------------------------------------------------------------------------
(* The agent loops.                                                        *)

\* Words come back from a server: what both loops do with them.
Extended(d, out) ==
    [d EXCEPT !.text = @ \o out, !.mask = @ \o Ones(Len(out)), !.logprobs = @ \o Indices(out)]

\* _build_completed_output, then _agent_loop_postprocess scores the trajectory.  For the
\* properties: whether a sample submitted late was overtaken by the version it reports.
Completed(d) ==
    [d EXCEPT !.text = Upto(limit, @), !.mask = Upto(limit, @), !.logprobs = Upto(limit, @),
              !.state = "TERMINATED", !.end = sample.version, !.cancel = FALSE,
              !.scored = @ + 1, !.overtaken = sample.late /\ sample.version # known]

\* PartialSingleTurnAgentLoop.run after its request.
SingleTurn(t, out, cancelled) ==
    LET d == Extended(data[t], out) IN
    /\ data' = [data EXCEPT ![t] = IF cancelled /\ Len(d.text) < limit THEN d ELSE Completed(d)]
    /\ task' = [task EXCEPT ![t] = "returned"]

\* AsyncPartialToolAgentLoop._handle_generating_state_partial after its request: a tool
\* call is looked for in the words of this request, not in those of the turn.
ToolTurn(t, out, cancelled) ==
    LET d == Extended(data[t], out) IN
    IF Len(d.mask) >= limit \/ (~cancelled /\ ~HasCall(out))
      THEN /\ data' = [data EXCEPT ![t] = Completed(d)]
           /\ task' = [task EXCEPT ![t] = "returned"]
      ELSE /\ data' = [data EXCEPT ![t] =
                 [d EXCEPT !.state = IF cancelled THEN "GENERATING" ELSE "PROCESSING_TOOLS"]]
           /\ task' = [task EXCEPT ![t] = "loop"]

Receive(t, out, cancelled) ==
    IF agent = "single" THEN SingleTurn(t, out, cancelled) ELSE ToolTurn(t, out, cancelled)

\* The tool loop's state machine sees the cancellation between two states and
\* returns what it has (_build_cancelled_output).
Interrupt(t) ==
    /\ agent = "tool" /\ task[t] = "loop" /\ interrupted
    /\ task' = [task EXCEPT ![t] = "returned"]
    /\ UNCHANGED <<agent, limit, known, sample, data, req, closed, interrupted, weightVars>>

\* PENDING: apply the chat template.
Prompt(t) ==
    /\ task[t] = "loop" /\ agent = "tool" /\ ~interrupted /\ data[t].state = "PENDING"
    /\ data' = [data EXCEPT ![t].state = "GENERATING"]
    /\ UNCHANGED <<agent, limit, known, sample, task, req, closed, interrupted, weightVars>>

\* Ask for words.  _choose_server: the least loaded server of the worker's list, which
\* other samples share, and the same one again for a request_id the worker knows.
Generate(t) ==
    /\ task[t] = "loop"
    /\ agent = "tool" => ~interrupted /\ data[t].state = "GENERATING"
    /\ \E s \in Servers :
          /\ data[t].home \in {NoServer, s}
          /\ data' = [data EXCEPT ![t].home = s]
    /\ task' = [task EXCEPT ![t] = "sent"]
    /\ UNCHANGED <<agent, limit, known, sample, req, closed, interrupted, weightVars>>

CallTools(t) ==
    /\ task[t] = "loop" /\ ~interrupted /\ data[t].state = "PROCESSING_TOOLS"
    /\ task' = [task EXCEPT ![t] = "tools"]
    /\ UNCHANGED <<agent, limit, known, sample, data, req, closed, interrupted, weightVars>>

\* _handle_processing_tools_state once the tools have answered.
ToolsAnswer(t) ==
    /\ task[t] = "tools"
    /\ LET d == data[t]
           word == [i |-> NextIndex(d.text), v |-> NotGenerated]
       IN  IF Len(d.mask) + 1 >= limit
             THEN /\ data' = [data EXCEPT ![t] = Completed(d)]
                  /\ task' = [task EXCEPT ![t] = "returned"]
             ELSE /\ data' = [data EXCEPT ![t] =
                        [d EXCEPT !.text = Append(@, word), !.mask = Append(@, 0),
                                  !.logprobs = Append(@, 0), !.state = "GENERATING"]]
                  /\ task' = [task EXCEPT ![t] = "loop"]
    /\ UNCHANGED <<agent, limit, known, sample, req, closed, interrupted, weightVars>>
-----------------------------------------------------------------------------
(* The servers.                                                            *)

\* generate_for_partial reaches a server: a paused one answers at once with nothing.
Turned(t) ==
    /\ task[t] = "sent" /\ closed[data[t].home]
    /\ Receive(t, << >>, TRUE)
    /\ UNCHANGED <<agent, limit, known, sample, req, closed, interrupted, weightVars>>

\* Mutant: a request that was on its way when the server was cancelled starts all the same.
RegisterLate(t) ==
    /\ task[t] = "sent"
    /\ req' = [req EXCEPT ![t] = [NoRequest EXCEPT !.server = data[t].home,
                                                   !.prompt = data[t].text]]
    /\ task' = [task EXCEPT ![t] = "serving"]
    /\ UNCHANGED <<agent, limit, known, sample, data, closed, interrupted, weightVars>>

\* An open one registers the request and starts on it.
Register(t) ==
    /\ task[t] = "sent" /\ ~closed[data[t].home]
    /\ req' = [req EXCEPT ![t] = [NoRequest EXCEPT !.server = data[t].home,
                                                   !.prompt = data[t].text]]
    /\ task' = [task EXCEPT ![t] = "serving"]
    /\ UNCHANGED <<agent, limit, known, sample, data, closed, interrupted, weightVars>>

\* The engine's next output.  The last word and the end of the request are one step.
Emit(t) ==
    /\ task[t] = "serving" /\ ~req[t].over
    /\ LET r == req[t]
           word == [i |-> NextIndex(r.prompt \o r.out), v |-> Weights(r.server)]
           out == Append(r.out, word)
       IN  req' = [req EXCEPT ![t].out = out,
                              ![t].over = EndsTurn(word.i) \/ Len(r.prompt) + Len(out) >= Cap]
    /\ UNCHANGED <<agent, limit, known, sample, data, task, closed, interrupted, weightVars>>

\* Mutant: the flag tells whether the request was asked to stop, not whether it did.
ReplyEvent(t) ==
    /\ task[t] = "serving" /\ (req[t].over \/ req[t].event)
    /\ Receive(t, req[t].out, req[t].event)
    /\ req' = [req EXCEPT ![t] = NoRequest]
    /\ UNCHANGED <<agent, limit, known, sample, closed, interrupted, weightVars>>

\* The request is over or its event is set: answer with the words so far.
Reply(t) ==
    /\ task[t] = "serving" /\ (req[t].over \/ req[t].event)
    /\ Receive(t, req[t].out, ~req[t].over)
    /\ req' = [req EXCEPT ![t] = NoRequest]
    /\ UNCHANGED <<agent, limit, known, sample, closed, interrupted, weightVars>>

\* cancel: pause the server and set the event of every request registered there.
Cancel(s) ==
    /\ closed' = [closed EXCEPT ![s] = TRUE]
    /\ req' = [t \in Trajectories |->
                  IF req[t].server = s THEN [req[t] EXCEPT !.event = TRUE] ELSE req[t]]

\* resume
Resume(s) == closed' = [closed EXCEPT ![s] = FALSE]

TrajectoryStep(t) ==
    \/ Interrupt(t) \/ Prompt(t) \/ Generate(t) \/ CallTools(t) \/ ToolsAnswer(t)
    \/ Turned(t) \/ Register(t) \/ Emit(t) \/ Reply(t)
SampleStep == StartSample \/ FinishSample
=============================================================================
