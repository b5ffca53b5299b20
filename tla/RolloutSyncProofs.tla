-------------------------- MODULE RolloutSyncProofs --------------------------
(* Theorems about RolloutSync, for every number of trajectories, servers    *)
(* and updates, every script and every limit.                               *)
EXTENDS RolloutSync, SequenceTheorems, TLAPS

Request(r) == DOMAIN r = {"server", "prompt", "out", "event", "over"}

SampleFields == {"at", "version", "first", "late"}
Fields == {"text", "mask", "logprobs", "state", "begin", "end", "cancel", "scored", "home",
           "overtaken"}
Row(d) == d = [f \in Fields |-> d[f]]

\* The state has the shape its declarations say, as far as the proofs need it, and
\* a request on its way or being served has a server.
Shaped ==
    /\ DOMAIN data = Trajectories /\ DOMAIN task = Trajectories
    /\ DOMAIN req = Trajectories /\ closed \in [Servers -> BOOLEAN]
    /\ DOMAIN sample = SampleFields
    /\ \A t \in Trajectories :
          /\ Row(data[t]) /\ data[t].cancel \in BOOLEAN
          /\ Request(req[t])
          /\ task[t] = "sent" => data[t].home \in Servers
          /\ task[t] = "serving" => req[t].server \in Servers

\* A trajectory's task exists only while its sample runs.
TasksOfSample ==
    \A t \in Trajectories : task[t] # "off" => sample.at = "running"

\* What a completed turn leaves.
LEMMA CompletedShape ==
    ASSUME NEW d, Row(d)
    PROVE  Row(Completed(d)) /\ Completed(d).cancel = FALSE
  BY DEF Completed, Fields, Row

LEMMA ExtendedShape ==
    ASSUME NEW d, Row(d), NEW out
    PROVE  Row(Extended(d, out)) /\ Extended(d, out).cancel = d.cancel
  BY DEF Extended, Fields, Row

Answered(d, text, mask, logprobs) ==
    [d EXCEPT !.text = text, !.mask = mask, !.logprobs = logprobs, !.state = "GENERATING"]

LEMMA AnsweredShape ==
    ASSUME NEW d, Row(d), NEW text, NEW mask, NEW logprobs
    PROVE  /\ Row(Answered(d, text, mask, logprobs))
           /\ Answered(d, text, mask, logprobs).cancel = d.cancel
  BY DEF Fields, Row, Answered

\* What a submission writes.
Started(d, home, begin) == [d EXCEPT !.home = home, !.begin = begin]

LEMMA StartedShape ==
    ASSUME NEW d, Row(d), NEW home, NEW begin
    PROVE  /\ Row(Started(d, home, begin)) /\ Started(d, home, begin).cancel = d.cancel
           /\ Started(d, home, begin).home = home
           /\ begin = d.begin => Started(d, home, begin) = [d EXCEPT !.home = home]
  BY DEF Fields, Row, Started

LEMMA HomeShape ==
    ASSUME NEW d, Row(d)
    PROVE  d = [d EXCEPT !.home = d.home]
  BY DEF Fields, Row

\* An answer changes only its own trajectory, which goes back to its loop or returns.
LEMMA ReceiveShape ==
    ASSUME Shaped, NEW t \in Trajectories, NEW out, NEW cancelled, Receive(t, out, cancelled)
    PROVE  /\ DOMAIN data' = Trajectories /\ DOMAIN task' = Trajectories
           /\ \A u \in Trajectories \ {t} : data'[u] = data[u] /\ task'[u] = task[u]
           /\ Row(data'[t]) /\ task'[t] \in {"loop", "returned"}
           /\ \/ data'[t].cancel = data[t].cancel
              \/ data'[t].cancel = FALSE /\ task'[t] = "returned"
<1> DEFINE d == Extended(data[t], out)
<1>1. Row(d) /\ d.cancel = data[t].cancel
  BY ExtendedShape DEF Shaped
<1>2. Row(Completed(d)) /\ Completed(d).cancel = FALSE
  BY <1>1, CompletedShape
<1> HIDE DEF d
<1>3. CASE agent = "single"
  <2>1. /\ data' = [data EXCEPT ![t] = IF cancelled /\ Len(d.text) < limit THEN d ELSE Completed(d)]
        /\ task' = [task EXCEPT ![t] = "returned"]
    BY <1>3 DEF Receive, SingleTurn, d
  <2> QED
    BY <1>1, <1>2, <2>1 DEF Shaped
<1>4. CASE agent # "single"
  <2>1. CASE Len(d.mask) >= limit \/ (~cancelled /\ ~HasCall(out))
    <3>1. data' = [data EXCEPT ![t] = Completed(d)] /\ task' = [task EXCEPT ![t] = "returned"]
      BY <1>4, <2>1 DEF Receive, ToolTurn, d
    <3> QED
      BY <1>2, <3>1 DEF Shaped
  <2>2. CASE ~(Len(d.mask) >= limit \/ (~cancelled /\ ~HasCall(out)))
    <3>1. PICK st : /\ data' = [data EXCEPT ![t] = [d EXCEPT !.state = st]]
                    /\ task' = [task EXCEPT ![t] = "loop"]
      BY <1>4, <2>2 DEF Receive, ToolTurn, d
    <3>2. Row([d EXCEPT !.state = st]) /\ [d EXCEPT !.state = st].cancel = d.cancel
      BY <1>1 DEF Fields, Row
    <3> QED
      BY <1>1, <3>1, <3>2 DEF Shaped
  <2> QED
    BY <2>1, <2>2
<1> QED
  BY <1>3, <1>4

\* Steps of the rollouter, the trainer, the validation and the weights that touch no
\* trajectory and no server's flag.
Aside ==
    \/ Submit \/ SyncWeights \/ LateRecovery \/ RollouterStep \/ ValStep
    \/ \E s \in Servers : Load(s) \/ SetSteps(s) \/ ResumeGeneration(s)

LEMMA AsideFrame ==
    ASSUME Aside
    PROVE  UNCHANGED <<data, task, req, closed>>
<1> USE DEF rolloutVars, setup, syncVars, weightVars
<1>1. CASE Submit \/ SyncWeights \/ LateRecovery
  BY <1>1 DEF Submit, SyncWeights, LateRecovery
<1>2. CASE RollouterStep
  BY <1>2 DEF RollouterStep, CancelWorker, Paused, BeginTransfer, UpdateParamVersion,
    ResumeWorker, Resumed
<1>3. CASE ValStep
  BY <1>3 DEF ValStep, ValRegister, ValEmit, ValReply, ValReport
<1>4. ASSUME NEW s \in Servers, Load(s) \/ SetSteps(s) \/ ResumeGeneration(s)
      PROVE  UNCHANGED <<data, task, req, closed>>
  BY <1>4 DEF Load, SetSteps, ResumeGeneration
<1> QED
  BY <1>1, <1>2, <1>3, <1>4 DEF Aside

\* Only Submit touches the sample.
LEMMA AsideSample ==
    ASSUME Aside, DOMAIN sample = SampleFields
    PROVE  /\ DOMAIN sample' = SampleFields /\ sample'.first = sample.first
           /\ \/ sample' = sample
              \/ /\ Submit /\ sample.at = "queued" /\ sample'.at = "submitted"
                 /\ sample'.late = (phase # "open")
<1> USE DEF rolloutVars, setup, syncVars, weightVars
<1>1. CASE Submit
  <2>1. /\ sample' = [sample EXCEPT !.at = "submitted", !.late = phase # "open"]
        /\ sample.at = "queued"
    BY <1>1 DEF Submit
  <2>2. /\ DOMAIN sample' = SampleFields /\ sample'.first = sample.first
        /\ sample'.at = "submitted" /\ sample'.late = (phase # "open")
    BY <2>1 DEF SampleFields
  <2> QED
    BY <1>1, <2>1, <2>2
<1>2. CASE SyncWeights \/ LateRecovery \/ RollouterStep
  BY <1>2 DEF SyncWeights, LateRecovery, RollouterStep, CancelWorker, Paused, BeginTransfer,
    UpdateParamVersion, ResumeWorker, Resumed
<1>3. CASE ValStep
  BY <1>3 DEF ValStep, ValRegister, ValEmit, ValReply, ValReport
<1>4. ASSUME NEW s \in Servers, Load(s) \/ SetSteps(s) \/ ResumeGeneration(s)
      PROVE  sample' = sample
  BY <1>4 DEF Load, SetSteps, ResumeGeneration
<1> QED
  BY <1>1, <1>2, <1>3, <1>4 DEF Aside

\* What the actions of a step can be.
LEMMA StepKinds ==
    ASSUME [Next]_vars
    PROVE  \/ Aside \/ UNCHANGED vars
           \/ StartSample /\ UNCHANGED syncVars
           \/ FinishSample /\ UNCHANGED syncVars
           \/ \E s \in Servers : CancelServer(s) \/ Abort(s) \/ ResumeServer(s)
           \/ \E t \in Trajectories : TrajectoryStep(t) /\ UNCHANGED syncVars
  BY DEF Next, Aside, ServerStep, SampleStep

\* A step of a trajectory changes that trajectory alone.
LEMMA TrajectoryFrame ==
    ASSUME Shaped, NEW t \in Trajectories, TrajectoryStep(t)
    PROVE  /\ DOMAIN data' = Trajectories /\ DOMAIN task' = Trajectories
           /\ DOMAIN req' = Trajectories /\ closed' = closed /\ sample' = sample
           /\ \A u \in Trajectories \ {t} :
                 data'[u] = data[u] /\ task'[u] = task[u] /\ req'[u] = req[u]
           /\ task[t] \in {"loop", "sent", "tools", "serving"} /\ task'[t] # "off"
           /\ Row(data'[t]) /\ Request(req'[t])
           /\ \/ data'[t].cancel = data[t].cancel
              \/ data'[t].cancel = FALSE /\ task'[t] = "returned"
           /\ task'[t] = "sent" => data'[t].home \in Servers
           /\ task'[t] = "serving" =>
                 /\ req'[t].server \in Servers
                 /\ \/ task[t] = "serving" /\ req'[t].server = req[t].server
                       /\ req'[t].event = req[t].event
                    \/ ~closed[req'[t].server]
<1> USE DEF Shaped
<1>1. CASE Interrupt(t) \/ CallTools(t)
  BY <1>1 DEF Interrupt, CallTools, Fields
<1>2. CASE Prompt(t)
  <2>1. Row([data[t] EXCEPT !.state = "GENERATING"])
        /\ [data[t] EXCEPT !.state = "GENERATING"].cancel = data[t].cancel
    BY DEF Fields, Row
  <2> QED
    BY <1>2, <2>1 DEF Prompt
<1>3. CASE Generate(t)
  <2>1. PICK s \in Servers : data' = [data EXCEPT ![t].home = s]
    BY <1>3 DEF Generate
  <2>2. Row([data[t] EXCEPT !.home = s])
        /\ [data[t] EXCEPT !.home = s].cancel = data[t].cancel
        /\ [data[t] EXCEPT !.home = s].home = s
    BY DEF Fields, Row
  <2> QED
    BY <1>3, <2>1, <2>2 DEF Generate
<1>4. CASE ToolsAnswer(t)
  <2>1. CASE Len(data[t].mask) + 1 >= limit
    <3>1. Row(Completed(data[t])) /\ Completed(data[t]).cancel = FALSE
      BY CompletedShape
    <3> QED
      BY <1>4, <2>1, <3>1 DEF ToolsAnswer
  <2>2. CASE ~(Len(data[t].mask) + 1 >= limit)
    <3> DEFINE word == [i |-> NextIndex(data[t].text), v |-> NotGenerated]
               e == Answered(data[t], Append(data[t].text, word), Append(data[t].mask, 0),
                             Append(data[t].logprobs, 0))
    <3>1. Row(data[t])
      OBVIOUS
    <3>2. Row(e) /\ e.cancel = data[t].cancel
      BY <3>1, AnsweredShape
    <3>3. data' = [data EXCEPT ![t] = e]
      BY <1>4, <2>2 DEF ToolsAnswer, Answered
    <3> HIDE DEF e
    <3> QED
      BY <1>4, <2>2, <3>2, <3>3 DEF ToolsAnswer
  <2> QED
    BY <2>1, <2>2
<1>5. CASE Turned(t)
  BY <1>5, ReceiveShape DEF Turned
<1>6. CASE Register(t)
  BY <1>6 DEF Register, NoRequest, Request
<1>7. CASE Emit(t)
  <2>1. PICK o, v : req' = [req EXCEPT ![t] = [req[t] EXCEPT !.out = o, !.over = v]]
    BY <1>7 DEF Emit
  <2>2. Request([req[t] EXCEPT !.out = o, !.over = v])
        /\ [req[t] EXCEPT !.out = o, !.over = v].server = req[t].server
        /\ [req[t] EXCEPT !.out = o, !.over = v].event = req[t].event
    BY DEF Request
  <2> QED
    BY <1>7, <2>1, <2>2 DEF Emit
<1>8. CASE Reply(t)
  <2>1. Receive(t, req[t].out, ~req[t].over) /\ task[t] = "serving"
        /\ req' = [req EXCEPT ![t] = NoRequest] /\ closed' = closed /\ sample' = sample
    BY <1>8 DEF Reply
  <2>2. Request(NoRequest)
    BY DEF NoRequest, Request
  <2> HIDE DEF Shaped
  <2>3. /\ DOMAIN data' = Trajectories /\ DOMAIN task' = Trajectories
        /\ \A u \in Trajectories \ {t} : data'[u] = data[u] /\ task'[u] = task[u]
        /\ Row(data'[t]) /\ task'[t] \in {"loop", "returned"}
        /\ \/ data'[t].cancel = data[t].cancel
           \/ data'[t].cancel = FALSE /\ task'[t] = "returned"
    BY <2>1, ReceiveShape
  <2> QED
    BY <2>1, <2>2, <2>3 DEF Shaped
<1> QED
  BY <1>1, <1>2, <1>3, <1>4, <1>5, <1>6, <1>7, <1>8 DEF TrajectoryStep
LEMMA TasksStep ==
    TasksOfSample /\ Shaped /\ [Next]_vars => TasksOfSample'
<1> SUFFICES ASSUME TasksOfSample, Shaped, [Next]_vars PROVE TasksOfSample'
  OBVIOUS
<1> USE DEF TasksOfSample, rolloutVars, setup, syncVars, weightVars
<1>1. CASE Aside
  <2>1. UNCHANGED task
    BY <1>1, AsideFrame
  <2>2. sample' = sample \/ sample.at = "queued"
    BY <1>1, AsideSample DEF Shaped
  <2> QED
    BY <2>1, <2>2
<1>2. CASE UNCHANGED vars
  BY <1>2 DEF vars
<1>3. CASE StartSample
  BY <1>3 DEF StartSample, Shaped, SampleFields
<1>4. CASE FinishSample
  BY <1>4 DEF FinishSample
<1>5. ASSUME NEW s \in Servers, CancelServer(s) \/ Abort(s) \/ ResumeServer(s)
      PROVE  TasksOfSample'
  BY <1>5 DEF CancelServer, Abort, ResumeServer
<1>6. ASSUME NEW t \in Trajectories, TrajectoryStep(t)
      PROVE  TasksOfSample'
  <2>1. task[t] # "off" /\ sample' = sample /\ \A u \in Trajectories \ {t} : task'[u] = task[u]
    BY <1>6, TrajectoryFrame
  <2> QED
    BY <2>1
<1> QED
  BY <1>1, <1>2, <1>3, <1>4, <1>5, <1>6, StepKinds

LEMMA ShapedStep == Shaped /\ [Next]_vars => Shaped'
<1> SUFFICES ASSUME Shaped, [Next]_vars PROVE Shaped'
  OBVIOUS
<1>1. CASE Aside
  <2>1. UNCHANGED <<data, task, req, closed>> /\ DOMAIN sample' = SampleFields
    BY <1>1, AsideFrame, AsideSample DEF Shaped
  <2> QED
    BY <2>1 DEF Shaped
<1>9. CASE UNCHANGED vars
  BY <1>9 DEF Shaped, vars, rolloutVars
<1>2. CASE StartSample
  <2>1. \A t \in Trajectories :
          data'[t] = [data[t] EXCEPT !.home = NoServer,
                                     !.begin = IF sample.first THEN known ELSE data[t].begin]
    BY <1>2 DEF StartSample
  <2>2. \A t \in Trajectories : Row(data'[t]) /\ data'[t].cancel = data[t].cancel
    <3> TAKE t \in Trajectories
    <3> DEFINE begin == IF sample.first THEN known ELSE data[t].begin
    <3>1. Row(data[t])
      BY DEF Shaped
    <3>2. data'[t] = Started(data[t], NoServer, begin)
      BY <2>1 DEF Started
    <3> HIDE DEF begin
    <3> QED
      BY <3>1, <3>2, StartedShape
  <2>3. /\ DOMAIN data' = Trajectories /\ DOMAIN task' = Trajectories
        /\ UNCHANGED <<req, closed>> /\ DOMAIN sample' = SampleFields
        /\ \A t \in Trajectories : task'[t] \in {"loop", "returned"}
    BY <1>2 DEF StartSample, Shaped, SampleFields
  <2> QED
    BY <2>2, <2>3 DEF Shaped
<1>3. CASE FinishSample
  <2>1. /\ DOMAIN task' = Trajectories /\ \A t \in Trajectories : task'[t] = "off"
        /\ UNCHANGED <<data, req, closed>> /\ DOMAIN sample' = DOMAIN sample
    BY <1>3 DEF FinishSample
  <2> QED
    BY <2>1 DEF Shaped
<1>4. ASSUME NEW s \in Servers, CancelServer(s) \/ Abort(s) \/ ResumeServer(s)
      PROVE  Shaped'
  <2>1. UNCHANGED <<data, task, sample>> /\ closed' \in [Servers -> BOOLEAN] /\ DOMAIN req' = Trajectories
    BY <1>4 DEF CancelServer, Cancel, Abort, ResumeServer, Resume, Shaped, weightVars
  <2>2. \A t \in Trajectories : Request(req'[t]) /\ req'[t].server = req[t].server
    BY <1>4 DEF CancelServer, Cancel, Abort, ResumeServer, Resume, Shaped, Request
  <2> QED
    BY <2>1, <2>2 DEF Shaped
<1>5. ASSUME NEW t \in Trajectories, TrajectoryStep(t)
      PROVE  Shaped'
  <2>1. \A u \in Trajectories :
          /\ Row(data'[u]) /\ data'[u].cancel \in BOOLEAN /\ Request(req'[u])
          /\ task'[u] = "sent" => data'[u].home \in Servers
          /\ task'[u] = "serving" => req'[u].server \in Servers
    BY <1>5, TrajectoryFrame DEF Shaped
  <2> QED
    BY <1>5, <2>1, TrajectoryFrame DEF Shaped
<1> QED
  BY <1>1, <1>2, <1>3, <1>4, <1>5, <1>9, StepKinds

LEMMA InitShaped == Init => Shaped /\ TasksOfSample
<1> SUFFICES ASSUME Init PROVE Shaped /\ TasksOfSample
  OBVIOUS
<1> USE DEF Init, RolloutInit
<1>1. Row(NewData) /\ NewData.cancel
  BY DEF Row, NewData, Fields
<1>2. Request(NoRequest)
  BY DEF Request, NoRequest
<1>3. closed \in [Servers -> BOOLEAN]
  OBVIOUS
<1>4. DOMAIN sample = SampleFields
  BY DEF SampleFields
<1>5. DOMAIN data = Trajectories /\ DOMAIN task = Trajectories /\ DOMAIN req = Trajectories
  OBVIOUS
<1>6. \A t \in Trajectories : data[t] = NewData /\ req[t] = NoRequest /\ task[t] = "off"
  OBVIOUS
<1> HIDE DEF Init, RolloutInit
<1> QED
  BY <1>1, <1>2, <1>3, <1>4, <1>5, <1>6 DEF Shaped, TasksOfSample
-----------------------------------------------------------------------------
LEMMA NoneSlipsStep == Shaped /\ NoneSlipsPast /\ [Next]_vars => NoneSlipsPast'
<1> SUFFICES ASSUME Shaped, NoneSlipsPast, [Next]_vars PROVE NoneSlipsPast'
  OBVIOUS
<1> USE DEF NoneSlipsPast
<1>1. CASE Aside \/ UNCHANGED vars
  BY <1>1, AsideFrame DEF vars, rolloutVars
<1>2. CASE StartSample
  BY <1>2 DEF StartSample
<1>3. CASE FinishSample
  BY <1>3 DEF FinishSample
<1>4. ASSUME NEW s \in Servers, CancelServer(s) PROVE NoneSlipsPast'
  <2>1. UNCHANGED task /\ closed' = [closed EXCEPT ![s] = TRUE]
    BY <1>4 DEF CancelServer, Cancel
  <2>2. \A t \in Trajectories :
          /\ req'[t].server = req[t].server
          /\ req'[t].event = IF req[t].server = s THEN TRUE ELSE req[t].event
    BY <1>4 DEF CancelServer, Cancel, Shaped, Request
  <2> QED
    BY <2>1, <2>2 DEF Shaped
<1>5. ASSUME NEW s \in Servers, Abort(s) PROVE NoneSlipsPast'
  <2>1. UNCHANGED <<task, closed>>
    BY <1>5 DEF Abort
  <2>2. \A t \in Trajectories :
          req'[t].server = req[t].server /\ req'[t].event = req[t].event
    BY <1>5 DEF Abort, Shaped, Request
  <2> QED
    BY <2>1, <2>2
<1>6. ASSUME NEW s \in Servers, ResumeServer(s) PROVE NoneSlipsPast'
  BY <1>6 DEF ResumeServer, Resume, Shaped
<1>7. ASSUME NEW t \in Trajectories, TrajectoryStep(t) PROVE NoneSlipsPast'
  <2> SUFFICES ASSUME NEW u \in Trajectories, task'[u] = "serving", closed'[req'[u].server]
               PROVE  req'[u].event
    OBVIOUS
  <2>1. closed' = closed
    BY <1>7, TrajectoryFrame
  <2>2. task[u] = "serving" /\ req'[u].server = req[u].server /\ req'[u].event = req[u].event
    BY <1>7, <2>1, TrajectoryFrame
  <2> QED
    BY <2>1, <2>2
<1> QED
  BY <1>1, <1>2, <1>3, <1>4, <1>5, <1>6, <1>7, StepKinds

\* A request that is served by a cancelled server has been told so: whichever came
\* first, the sweep of the registered requests or the request itself.
THEOREM RolloutNoneSlipsPast == Spec => []NoneSlipsPast
<1>1. Init => NoneSlipsPast
  BY DEF Init, RolloutInit, NoneSlipsPast
<1> QED
  BY <1>1, InitShaped, ShapedStep, NoneSlipsStep, PTL DEF Spec
-----------------------------------------------------------------------------
\* While weights are replaced every server and worker has been cancelled, and the sample
\* has been submitted only if the monitor lifted the pause; a cancelled server goes on with
\* a request only until pause has returned.
Sealed ==
    /\ phase = "open" => ~interrupted /\ \A s \in Servers : ~closed[s]
    /\ phase = "cancelling" => paused
    /\ phase \in {"paused", "updating"} => AllCancelled
    /\ phase \in {"paused", "updating"} /\ sample.at \in {"submitted", "running"} =>
          sample.late
    /\ \A t \in Trajectories :
          task[t] = "serving" /\ phase # "cancelling" => ~closed[req[t].server]

LEMMA SealedStep == Sealed /\ TasksOfSample /\ Shaped /\ [Next]_vars => Sealed'
<1> SUFFICES ASSUME Sealed, TasksOfSample, Shaped, [Next]_vars PROVE Sealed'
  OBVIOUS
<1> USE DEF Sealed, AllCancelled, rolloutVars, setup, syncVars, weightVars
<1>1. CASE Submit
  <2>1. /\ UNCHANGED <<phase, paused, task, req, closed, interrupted>>
        /\ ~paused /\ sample'.late = (phase # "open")
    BY <1>1 DEF Submit, Shaped, SampleFields
  <2> QED
    BY <2>1
<1>2. CASE SyncWeights
  BY <1>2 DEF SyncWeights
<1>3. CASE LateRecovery
  BY <1>3 DEF LateRecovery
<1>4. CASE RollouterStep
  <2>1. CASE CancelWorker \/ ResumeWorker
    BY <2>1 DEF CancelWorker, ResumeWorker
  <2>2. CASE Paused
    BY <2>2 DEF Paused, TasksOfSample
  <2>3. CASE BeginTransfer
    BY <2>3 DEF BeginTransfer
  <2>4. CASE UpdateParamVersion
    <3>1. /\ phase = "updating" /\ phase' \in {"failed", "versioned"}
          /\ UNCHANGED <<sample, closed, interrupted, paused, task, req>>
      BY <2>4 DEF UpdateParamVersion, Updated
    <3> QED
      BY <3>1
  <2>5. CASE Resumed
    BY <2>5 DEF Resumed
  <2> QED
    BY <1>4, <2>1, <2>2, <2>3, <2>4, <2>5 DEF RollouterStep
<1>5. CASE ValStep
  <2>1. UNCHANGED <<phase, paused, sample, closed, interrupted, task, req>>
    BY <1>5 DEF ValStep, ValRegister, ValEmit, ValReply, ValReport
  <2> QED
    BY <2>1
<1>6. ASSUME NEW s \in Servers, Load(s) \/ SetSteps(s) \/ ResumeGeneration(s) PROVE Sealed'
  <2>1. UNCHANGED <<phase, paused, sample, closed, interrupted, task, req>>
    BY <1>6 DEF Load, SetSteps, ResumeGeneration
  <2> QED
    BY <2>1
<1>7. ASSUME NEW s \in Servers, CancelServer(s) PROVE Sealed'
  <2>1. phase = "cancelling" /\ UNCHANGED <<phase, paused>>
    BY <1>7 DEF CancelServer
  <2> QED
    BY <2>1
<1>8. ASSUME NEW s \in Servers, Abort(s) PROVE Sealed'
  <2>1. UNCHANGED <<phase, paused, sample, closed, interrupted, task>>
    BY <1>8 DEF Abort
  <2>2. \A t \in Trajectories : req'[t].server = req[t].server
    BY <1>8 DEF Abort, Shaped, Request
  <2> QED
    BY <2>1, <2>2
<1>9. ASSUME NEW s \in Servers, ResumeServer(s) PROVE Sealed'
  <2>1. /\ phase = "versioned" /\ UNCHANGED <<phase, paused, req, task>>
        /\ closed' = [closed EXCEPT ![s] = FALSE]
    BY <1>9 DEF ResumeServer, Resume
  <2> QED
    BY <2>1 DEF Shaped
<1>10. CASE UNCHANGED vars
  BY <1>10 DEF vars
<1>11. CASE SampleStep /\ UNCHANGED syncVars
  <2>1. /\ UNCHANGED <<phase, paused, closed, interrupted, req>>
        /\ \A t \in Trajectories : task'[t] # "serving"
    BY <1>11 DEF SampleStep, StartSample, FinishSample
  <2>2. sample'.at \in {"submitted", "running"} =>
          sample'.late = sample.late /\ sample.at \in {"submitted", "running"}
    BY <1>11 DEF SampleStep, StartSample, FinishSample, Shaped, SampleFields
  <2> QED
    BY <2>1, <2>2
<1>12. ASSUME NEW t \in Trajectories, TrajectoryStep(t), UNCHANGED syncVars PROVE Sealed'
  <2>1. UNCHANGED <<closed, sample, phase, paused>>
    BY <1>12, TrajectoryFrame
  <2>2. UNCHANGED interrupted
    BY <1>12 DEF TrajectoryStep, Interrupt, Prompt, Generate, CallTools, ToolsAnswer, Turned,
       Register, Emit, Reply
  <2>3. ASSUME NEW u \in Trajectories, task'[u] = "serving", phase # "cancelling"
        PROVE  ~closed[req'[u].server]
    <3>1. CASE u = t
      BY <1>12, <2>3, <3>1, TrajectoryFrame
    <3>2. CASE u # t
      <4>1. task'[u] = task[u] /\ req'[u] = req[u]
        BY <1>12, <3>2, TrajectoryFrame
      <4> QED
        BY <2>3, <4>1
    <3> QED
      BY <3>1, <3>2
  <2> QED
    BY <2>1, <2>2, <2>3
<1> QED
  BY <1>1, <1>2, <1>3, <1>4, <1>5, <1>6, <1>7, <1>8, <1>9, <1>10, <1>11, <1>12
     DEF Next, ServerStep

\* No server works on the sample while weights are replaced, so engines abort validations
\* only and no word of the sample is torn; a task it has then was started by a late
\* recovery of the monitor.
THEOREM RolloutWeightsMoveAlone == Spec => []WeightsMoveAlone
<1>1. Init => Sealed
  BY DEF Init, RolloutInit, Sealed
<1>2. Sealed /\ TasksOfSample /\ Shaped => WeightsMoveAlone
  BY DEF Sealed, AllCancelled, TasksOfSample, Shaped, WeightsMoveAlone
<1> QED
  BY <1>1, <1>2, InitShaped, ShapedStep, TasksStep, SealedStep, PTL DEF Spec
-----------------------------------------------------------------------------
\* A trajectory that is at work is not complete, and none is before the first submission.
WorkIsOpen ==
    \A t \in Trajectories :
        /\ task[t] \in {"loop", "sent", "tools", "serving"} => data[t].cancel
        /\ task[t] # "off" => ~sample.first
        /\ sample.first => data[t].cancel

\* A submission keeps the text, the versions and the score of what was there.
LEMMA StartKeeps ==
    ASSUME Shaped, WorkIsOpen, StartSample, NEW t \in Trajectories
    PROVE  /\ data'[t].cancel = data[t].cancel
           /\ ~data[t].cancel => data'[t] = [data[t] EXCEPT !.home = data'[t].home]
           /\ task'[t] = (IF data[t].cancel THEN "loop" ELSE "returned") /\ ~sample'.first
<1> DEFINE begin == IF sample.first THEN known ELSE data[t].begin
<1>1. data'[t] = Started(data[t], NoServer, begin)
  BY DEF StartSample, Started
<1>2. Row(data[t])
  BY DEF Shaped
<1> HIDE DEF begin
<1>3. data'[t].cancel = data[t].cancel /\ data'[t].home = NoServer
  BY <1>1, <1>2, StartedShape
<1>4. ASSUME ~data[t].cancel
      PROVE  data'[t] = [data[t] EXCEPT !.home = data'[t].home]
  <2>1. ~sample.first
    BY <1>4 DEF WorkIsOpen
  <2>2. data'[t] = Started(data[t], NoServer, data[t].begin)
    BY <1>1, <2>1 DEF begin
  <2>3. Started(data[t], NoServer, data[t].begin) = [data[t] EXCEPT !.home = NoServer]
    BY <1>2, StartedShape
  <2> QED
    BY <1>3, <2>2, <2>3
<1>5. ~sample'.first
  BY DEF StartSample, Shaped, SampleFields
<1> QED
  BY <1>3, <1>4, <1>5 DEF StartSample

LEMMA WorkStep ==
    ASSUME Shaped, WorkIsOpen, [Next]_vars
    PROVE  /\ WorkIsOpen'
           /\ \A t \in Trajectories :
                 ~data[t].cancel => data'[t] = [data[t] EXCEPT !.home = data'[t].home]
<1>1. \A t \in Trajectories : data[t] = [data[t] EXCEPT !.home = data[t].home]
  <2> TAKE t \in Trajectories
  <2>1. Row(data[t])
    BY DEF Shaped
  <2> QED
    BY <2>1, HomeShape
<1> USE DEF WorkIsOpen
<1>2. CASE Aside
  <2>1. UNCHANGED <<data, task>>
    BY <1>2, AsideFrame
  <2>2. sample'.first = sample.first
    BY <1>2, AsideSample DEF Shaped
  <2> QED
    BY <1>1, <2>1, <2>2
<1>3. CASE UNCHANGED vars
  BY <1>1, <1>3 DEF vars, rolloutVars
<1>4. CASE StartSample
  BY <1>4, StartKeeps
<1>5. CASE FinishSample
  BY <1>1, <1>5 DEF FinishSample, Shaped, SampleFields
<1>6. ASSUME NEW s \in Servers, CancelServer(s) \/ Abort(s) \/ ResumeServer(s)
      PROVE  UNCHANGED <<data, task, sample>>
  BY <1>6 DEF CancelServer, Abort, ResumeServer
<1>7. ASSUME NEW t \in Trajectories, TrajectoryStep(t)
      PROVE  /\ WorkIsOpen'
             /\ \A u \in Trajectories :
                   ~data[u].cancel => data'[u] = [data[u] EXCEPT !.home = data'[u].home]
  <2>1. /\ task[t] \in {"loop", "sent", "tools", "serving"} /\ sample' = sample
        /\ \A u \in Trajectories \ {t} : data'[u] = data[u] /\ task'[u] = task[u]
        /\ \/ data'[t].cancel = data[t].cancel
           \/ data'[t].cancel = FALSE /\ task'[t] = "returned"
    BY <1>7, TrajectoryFrame
  <2>2. data[t].cancel
    BY <2>1
  <2>3. \A u \in Trajectories \ {t} : data'[u] = [data[u] EXCEPT !.home = data'[u].home]
    BY <1>1, <2>1
  <2>4. ~sample.first
    BY <2>1
  <2>5. WorkIsOpen'
    BY <2>1, <2>4
  <2> QED
    BY <2>2, <2>3, <2>5
<1> QED
  BY <1>1, <1>2, <1>3, <1>4, <1>5, <1>6, <1>7, StepKinds

\* Resubmitting a sample for its cancelled trajectories leaves the complete ones as they
\* are: their words, versions and score.
THEOREM RolloutCompletedStays == Spec => CompletedStays
<1>1. Init => WorkIsOpen
  BY DEF Init, RolloutInit, WorkIsOpen, NewData
<1>2. Shaped /\ WorkIsOpen /\ [Next]_vars =>
        [\A t \in Trajectories :
          ~data[t].cancel => data'[t] = [data[t] EXCEPT !.home = data'[t].home]]_vars
  BY WorkStep
<1>3. Shaped /\ WorkIsOpen /\ [Next]_vars => WorkIsOpen'
  BY WorkStep
<1> QED
  BY <1>1, <1>2, <1>3, InitShaped, ShapedStep, PTL DEF Spec, CompletedStays
-----------------------------------------------------------------------------
(* Which weights the words of a partial rollout come from.                  *)

Word == [i : Nat, v : Int]

\* Text and mask of a trajectory keep step, and its generated words come from the
\* versions between its first and hi, in their order.
Bracketed(d, hi) ==
    /\ d.text \in Seq(Word) /\ d.mask \in Seq({0, 1}) /\ Len(d.mask) = Len(d.text)
    /\ \A k \in 1 .. Len(d.text) :
          d.mask[k] = 1 => d.begin <= d.text[k].v /\ d.text[k].v <= hi
    /\ \A j, k \in 1 .. Len(d.text) :
          d.mask[j] = 1 /\ d.mask[k] = 1 /\ j < k => d.text[j].v <= d.text[k].v

\* The last version a complete trajectory's words may have.
LastVersion(d) == IF d.overtaken THEN d.end + 1 ELSE d.end

\* A trajectory at work may hold words up to the version the rollouter knows; a complete
\* one up to its param_version_end, or the next if it was overtaken.
Sound(d, now) ==
    /\ d.begin \in Nat /\ d.end \in Nat /\ d.begin <= now /\ d.end <= now
    /\ ~d.cancel => LastVersion(d) <= now
    /\ Bracketed(d, IF d.cancel THEN now ELSE LastVersion(d))

\* Outside an update every server has the whole of the version the rollouter knows, and a
\* server that reports a version has all its tensors.
WholeModels ==
    /\ known \in Nat /\ version \in Nat /\ DOMAIN steps = Servers /\ DOMAIN loaded = Servers
    /\ \A s \in Servers :
          /\ steps[s] \in Nat /\ steps[s] <= version
          /\ steps[s] = version => Len(loaded[s]) = TensorCount
    /\ phase = "updating" => version = known + 1
    /\ phase # "updating" =>
          known = version /\ \A s \in Servers : Len(loaded[s]) = TensorCount

\* A sample runs under the version the rollouter knows, or, if it was submitted during an
\* update, under the one before.
RunsNow ==
    sample.at = "running" =>
        /\ sample.version \in Nat
        /\ \/ sample.version = known
           \/ /\ sample.late /\ sample.version + 1 = known
              /\ phase \notin {"paused", "updating"}

\* What has been generated, answered or not, and that nothing has before the first
\* submission.
Generated ==
    \A t \in Trajectories :
        /\ Sound(data[t], known)
        /\ sample.first => data[t].text = << >>
        /\ req[t].prompt \in Seq(Word) /\ req[t].out \in Seq(Word)
        /\ task[t] = "serving" => \A k \in 1 .. Len(req[t].out) : req[t].out[k].v = known

VersionsInv == limit \in Nat /\ WholeModels /\ RunsNow /\ Generated
-----------------------------------------------------------------------------
(* Words.                                                                  *)

LEMMA BracketedLater ==
    ASSUME NEW d, NEW m \in Int, NEW n \in Int, m <= n, d.begin \in Int, Bracketed(d, m)
    PROVE  Bracketed(d, n)
<1>1. ASSUME NEW k \in 1 .. Len(d.text) PROVE d.text[k].v \in Int
  <2>1. d.text \in Seq(Word)
    BY DEF Bracketed
  <2>2. d.text[k] \in Word
    BY <2>1
  <2> QED
    BY <2>2 DEF Word
<1> QED
  BY <1>1 DEF Bracketed

\* Words of the present version behind what a trajectory has.
LEMMA ExtendedBracketed ==
    ASSUME NEW d, Row(d), d.begin \in Int, known \in Int, d.begin <= known,
           Bracketed(d, known), NEW out \in Seq(Word),
           \A k \in 1 .. Len(out) : out[k].v = known
    PROVE  /\ Bracketed(Extended(d, out), known)
           /\ Extended(d, out).begin = d.begin /\ Extended(d, out).end = d.end
<1> DEFINE e == Extended(d, out)
<1>1. /\ e.text = d.text \o out /\ e.mask = d.mask \o Ones(Len(out))
      /\ e.begin = d.begin /\ e.end = d.end
  BY DEF Extended, Row, Fields
<1>2. /\ d.text \in Seq(Word) /\ d.mask \in Seq({0, 1}) /\ Len(d.mask) = Len(d.text)
      /\ Len(d.text) \in Nat /\ Len(out) \in Nat
  BY DEF Bracketed
<1>3. Ones(Len(out)) \in Seq({0, 1}) /\ Len(Ones(Len(out))) = Len(out)
  BY <1>2 DEF Ones
<1> HIDE DEF e
<1>4. /\ e.text \in Seq(Word) /\ e.mask \in Seq({0, 1})
      /\ Len(e.text) = Len(d.text) + Len(out) /\ Len(e.mask) = Len(e.text)
  <2>1. /\ d.text \o out \in Seq(Word) /\ Len(d.text \o out) = Len(d.text) + Len(out)
    BY <1>2, ConcatProperties
  <2>2. /\ d.mask \o Ones(Len(out)) \in Seq({0, 1})
        /\ Len(d.mask \o Ones(Len(out))) = Len(d.mask) + Len(out)
    <3>1. \A m, n \in Seq({0, 1}) : m \o n \in Seq({0, 1}) /\ Len(m \o n) = Len(m) + Len(n)
      BY ConcatProperties
    <3> QED
      BY <1>2, <1>3, <3>1
  <2> QED
    BY <1>1, <1>2, <2>1, <2>2
<1>5. ASSUME NEW k \in 1 .. Len(e.text)
      PROVE  \/ /\ k \in 1 .. Len(d.text)
                /\ e.text[k] = d.text[k] /\ e.mask[k] = d.mask[k]
             \/ /\ k > Len(d.text) /\ e.text[k].v = known
  <2>1. CASE k <= Len(d.text)
    BY <1>1, <1>2, <1>3, <1>4, <2>1
  <2>2. CASE k > Len(d.text)
    <3>1. e.text[k] = out[k - Len(d.text)] /\ k - Len(d.text) \in 1 .. Len(out)
      BY <1>1, <1>2, <1>4, <2>2
    <3> QED
      BY <2>2, <3>1
  <2> QED
    BY <1>2, <1>4, <2>1, <2>2
<1>6. \A k \in 1 .. Len(e.text) :
        e.mask[k] = 1 => e.begin <= e.text[k].v /\ e.text[k].v <= known
  BY <1>1, <1>5 DEF Bracketed
<1>7. ASSUME NEW j \in 1 .. Len(e.text), NEW k \in 1 .. Len(e.text),
             e.mask[j] = 1, e.mask[k] = 1, j < k
      PROVE  e.text[j].v <= e.text[k].v
  <2>1. CASE k > Len(d.text)
    <3>1. e.text[k].v = known
      BY <1>2, <1>5, <2>1
    <3>2. e.text[j].v <= known
      BY <1>6, <1>7
    <3> QED
      BY <3>1, <3>2
  <2>2. CASE k <= Len(d.text)
    <3>1. j \in 1 .. Len(d.text) /\ k \in 1 .. Len(d.text)
      BY <1>2, <1>4, <1>7, <2>2
    <3>2. /\ e.text[j] = d.text[j] /\ e.mask[j] = d.mask[j]
          /\ e.text[k] = d.text[k] /\ e.mask[k] = d.mask[k]
      BY <1>2, <1>5, <3>1
    <3>3. d.mask[j] = 1 /\ d.mask[k] = 1
      BY <1>7, <3>2
    <3>4. d.text[j].v <= d.text[k].v
      BY <1>7, <3>1, <3>3 DEF Bracketed
    <3> QED
      BY <3>2, <3>4
  <2> QED
    BY <1>2, <1>4, <2>1, <2>2
<1> QED
  BY <1>1, <1>4, <1>6, <1>7 DEF Bracketed, e

\* Cutting a text to the limit.
LEMMA UptoCut ==
    ASSUME NEW S, NEW s \in Seq(S), NEW n \in Nat
    PROVE  /\ Upto(n, s) \in Seq(S)
           /\ Len(Upto(n, s)) = IF n < Len(s) THEN n ELSE Len(s)
           /\ \A k \in 1 .. Len(Upto(n, s)) : k \in 1 .. Len(s) /\ Upto(n, s)[k] = s[k]
<1>1. CASE n < Len(s)
  BY <1>1 DEF Upto
<1>2. CASE ~(n < Len(s))
  BY <1>2 DEF Upto
<1> QED
  BY <1>1, <1>2

LEMMA CompletedBracketed ==
    ASSUME NEW d, Row(d), NEW hi, Bracketed(d, hi), limit \in Nat
    PROVE  /\ Bracketed(Completed(d), hi)
           /\ Completed(d).begin = d.begin /\ Completed(d).end = sample.version
           /\ ~Completed(d).cancel
           /\ Completed(d).overtaken = (sample.late /\ sample.version # known)
<1> DEFINE e == Completed(d)
<1>1. /\ e.text = Upto(limit, d.text) /\ e.mask = Upto(limit, d.mask)
      /\ e.begin = d.begin /\ e.end = sample.version /\ ~e.cancel
      /\ e.overtaken = (sample.late /\ sample.version # known)
  BY DEF Completed, Row, Fields
<1> HIDE DEF e
<1>2. /\ d.text \in Seq(Word) /\ d.mask \in Seq({0, 1}) /\ Len(d.mask) = Len(d.text)
  BY DEF Bracketed
<1>3. /\ e.text \in Seq(Word) /\ e.mask \in Seq({0, 1}) /\ Len(e.mask) = Len(e.text)
  BY <1>1, <1>2, UptoCut
<1>4. \A k \in 1 .. Len(e.text) :
        k \in 1 .. Len(d.text) /\ e.text[k] = d.text[k] /\ e.mask[k] = d.mask[k]
  BY <1>1, <1>2, <1>3, UptoCut
<1> QED
  BY <1>1, <1>3, <1>4 DEF Bracketed, e

\* A tool's word is masked.
LEMMA AnsweredBracketed ==
    ASSUME NEW d, Row(d), NEW hi, Bracketed(d, hi), NEW word \in Word, NEW logprobs
    PROVE  LET e == Answered(d, Append(d.text, word), Append(d.mask, 0), logprobs)
           IN  Bracketed(e, hi) /\ e.begin = d.begin /\ e.end = d.end
<1> DEFINE e == Answered(d, Append(d.text, word), Append(d.mask, 0), logprobs)
<1>1. /\ e.text = Append(d.text, word) /\ e.mask = Append(d.mask, 0)
      /\ e.begin = d.begin /\ e.end = d.end
  BY DEF Answered, Row, Fields
<1> HIDE DEF e
<1>2. /\ d.text \in Seq(Word) /\ d.mask \in Seq({0, 1}) /\ Len(d.mask) = Len(d.text)
  BY DEF Bracketed
<1>3. /\ e.text \in Seq(Word) /\ e.mask \in Seq({0, 1}) /\ Len(e.mask) = Len(e.text)
  BY <1>1, <1>2
<1>4. ASSUME NEW k \in 1 .. Len(e.text), e.mask[k] = 1
      PROVE  k \in 1 .. Len(d.text) /\ e.text[k] = d.text[k] /\ e.mask[k] = d.mask[k]
  BY <1>1, <1>2, <1>4
<1> QED
  BY <1>1, <1>3, <1>4 DEF Bracketed, e
-----------------------------------------------------------------------------
(* The answer of a server.                                                 *)

\* A trajectory is completed with the version its sample runs under.
LEMMA SoundCompleted ==
    ASSUME VersionsInv, sample.at = "running", NEW d, Row(d), d.begin \in Nat,
           d.begin <= known, Bracketed(d, known)
    PROVE  Row(Completed(d)) /\ Sound(Completed(d), known)
<1> DEFINE e == Completed(d)
<1>1. /\ known \in Nat /\ limit \in Nat /\ sample.version \in Nat
      /\ sample.version = known \/ (sample.late /\ sample.version + 1 = known)
  BY DEF VersionsInv, WholeModels, RunsNow
<1>2. /\ Row(e) /\ Bracketed(e, known) /\ e.begin = d.begin /\ e.end = sample.version
      /\ ~e.cancel /\ e.overtaken = (sample.late /\ sample.version # known)
  BY <1>1, CompletedShape, CompletedBracketed
<1> HIDE DEF e
<1>3. LastVersion(e) = known
  BY <1>1, <1>2 DEF LastVersion
<1> QED
  BY <1>1, <1>2, <1>3 DEF Sound, e

LEMMA SoundExtended ==
    ASSUME VersionsInv, sample.at = "running", NEW d, Row(d), d.cancel, Sound(d, known),
           NEW out \in Seq(Word), \A k \in 1 .. Len(out) : out[k].v = known
    PROVE  /\ Row(Extended(d, out)) /\ Sound(Extended(d, out), known) /\ Extended(d, out).cancel
           /\ Row(Completed(Extended(d, out))) /\ Sound(Completed(Extended(d, out)), known)
<1> DEFINE e == Extended(d, out)
<1>1. known \in Nat
  BY DEF VersionsInv, WholeModels
<1>2. /\ d.begin \in Nat /\ d.end \in Nat /\ d.begin <= known /\ d.end <= known
      /\ Bracketed(d, known)
  BY DEF Sound
<1>3. Row(e) /\ e.cancel
  BY ExtendedShape
<1>4. Bracketed(e, known) /\ e.begin = d.begin /\ e.end = d.end
  BY <1>1, <1>2, ExtendedBracketed
<1> HIDE DEF e
<1>5. Row(Completed(e)) /\ Sound(Completed(e), known)
  BY <1>2, <1>3, <1>4, SoundCompleted
<1>6. Sound(e, known)
  BY <1>2, <1>3, <1>4 DEF Sound
<1> QED
  BY <1>3, <1>5, <1>6 DEF e

\* The index of the word that follows.
LEMMA NextIndexType == ASSUME NEW words \in Seq(Word) PROVE NextIndex(words) \in Nat
<1>1. words # << >> => words[Len(words)] \in Word
  BY EmptySeq
<1> QED
  BY <1>1 DEF NextIndex, Word

\* The state of the agent loop is no part of it.
LEMMA SoundState ==
    ASSUME NEW d, Row(d), Sound(d, known), NEW st
    PROVE  /\ Sound([d EXCEPT !.state = st], known) /\ [d EXCEPT !.state = st].text = d.text
<1> DEFINE e == [d EXCEPT !.state = st]
<1>1. /\ e.text = d.text /\ e.mask = d.mask /\ e.begin = d.begin /\ e.end = d.end
      /\ e.cancel = d.cancel /\ e.overtaken = d.overtaken
  BY DEF Row, Fields
<1> HIDE DEF e
<1>2. Sound(e, known)
  BY <1>1 DEF Sound, Bracketed, LastVersion
<1> QED
  BY <1>1, <1>2 DEF e

LEMMA ReceiveSound ==
    ASSUME Shaped, VersionsInv, sample.at = "running", NEW t \in Trajectories, data[t].cancel,
           NEW out \in Seq(Word), \A k \in 1 .. Len(out) : out[k].v = known,
           NEW cancelled, Receive(t, out, cancelled)
    PROVE  Sound(data'[t], known)
<1> DEFINE d == Extended(data[t], out)
<1>1. Row(data[t]) /\ Sound(data[t], known)
  BY DEF Shaped, VersionsInv, Generated
<1>2. Row(d) /\ Sound(d, known) /\ Sound(Completed(d), known)
  BY <1>1, SoundExtended DEF VersionsInv
<1> HIDE DEF d
<1>3. CASE agent = "single"
  <2>1. data' = [data EXCEPT ![t] = IF cancelled /\ Len(d.text) < limit THEN d ELSE Completed(d)]
    BY <1>3 DEF Receive, SingleTurn, d
  <2> QED
    BY <1>2, <2>1 DEF Shaped
<1>4. CASE agent # "single"
  <2>1. CASE Len(d.mask) >= limit \/ (~cancelled /\ ~HasCall(out))
    <3>1. data' = [data EXCEPT ![t] = Completed(d)]
      BY <1>4, <2>1 DEF Receive, ToolTurn, d
    <3> QED
      BY <1>2, <3>1 DEF Shaped
  <2>2. CASE ~(Len(d.mask) >= limit \/ (~cancelled /\ ~HasCall(out)))
    <3>1. PICK st : data' = [data EXCEPT ![t] = [d EXCEPT !.state = st]]
      BY <1>4, <2>2 DEF Receive, ToolTurn, d
    <3>2. Sound([d EXCEPT !.state = st], known)
      BY <1>2, SoundState
    <3> QED
      BY <3>1, <3>2 DEF Shaped
  <2> QED
    BY <2>1, <2>2
<1> QED
  BY <1>3, <1>4
-----------------------------------------------------------------------------
(* The servers' weights.                                                   *)

\* The steps of the rollouter, the trainer and the weights, and what they change.
LEMMA WholeInit == Init => WholeModels /\ limit \in Nat
<1> SUFFICES ASSUME Init PROVE WholeModels /\ limit \in Nat
  OBVIOUS
<1>1. limit \in Nat /\ TensorCount \in Nat
  BY RolloutAssumption DEF Init, RolloutInit
<1>2. phase = "open" /\ version = 0 /\ known = 0 /\ \A s \in Servers : steps[s] = 0
  BY DEF Init, RolloutInit, Stream!StreamInit
<1>3. DOMAIN steps = Servers /\ DOMAIN loaded = Servers
  BY DEF Init, Stream!StreamInit
<1>4. \A s \in Servers : Len(loaded[s]) = TensorCount
  BY <1>1 DEF Init, Stream!StreamInit
<1> QED
  BY <1>1, <1>2, <1>3, <1>4 DEF WholeModels

LEMMA WholeStep == WholeModels /\ [Next]_vars => WholeModels'
<1> SUFFICES ASSUME WholeModels, [Next]_vars PROVE WholeModels'
  OBVIOUS
<1> USE DEF rolloutVars, weightVars, setup, syncVars
<1>1. ASSUME UNCHANGED <<known, version, loaded, steps>>,
             phase = "updating" <=> phase' = "updating"
      PROVE  WholeModels'
  BY <1>1 DEF WholeModels
<1>2. CASE Submit \/ SyncWeights \/ LateRecovery
  BY <1>1, <1>2 DEF Submit, SyncWeights, LateRecovery
<1>3. CASE BeginTransfer
  <2>1. /\ version' = version + 1 /\ UNCHANGED <<known, steps>> /\ phase = "paused"
        /\ phase' = "updating" /\ loaded' = [r \in Servers |-> << >>]
    BY <1>3 DEF BeginTransfer, Stream!BeginUpdate
  <2> QED
    BY <2>1 DEF WholeModels
<1>4. CASE UpdateParamVersion
  <2>1. /\ Updated /\ UNCHANGED <<version, loaded, steps>> /\ known' = version
        /\ phase' \in {"failed", "versioned"}
    BY <1>4 DEF UpdateParamVersion
  <2> QED
    BY <2>1 DEF WholeModels, Updated
<1>5. CASE CancelWorker \/ Paused \/ ResumeWorker \/ Resumed
  BY <1>1, <1>5 DEF CancelWorker, Paused, ResumeWorker, Resumed
<1>6. CASE ValStep
  BY <1>1, <1>6 DEF ValStep, ValRegister, ValEmit, ValReply, ValReport
<1>7. ASSUME NEW s \in Servers, Load(s) PROVE WholeModels'
  <2>1. /\ phase = "updating" /\ UNCHANGED <<known, version, steps, phase>>
        /\ Stream!LoadIntact(s)
    BY <1>7 DEF Load, Stream!LoadIntact
  <2>2. /\ DOMAIN loaded' = DOMAIN loaded
        /\ \A r \in Servers \ {s} : loaded'[r] = loaded[r]
        /\ \E n \in 1 .. TensorCount - Len(loaded[s]) : TRUE
    BY <2>1 DEF Stream!LoadIntact, WholeModels
  <2>3. Len(loaded[s]) # TensorCount
    <3>1. ASSUME Len(loaded[s]) = TensorCount PROVE FALSE
      <4>1. TensorCount - Len(loaded[s]) = 0
        BY <3>1, RolloutAssumption
      <4> QED
        BY <2>2, <4>1
    <3> QED
      BY <3>1
  <2>4. \A r \in Servers : steps[r] = version => r # s
    BY <2>3 DEF WholeModels
  <2> QED
    BY <2>1, <2>2, <2>4 DEF WholeModels
<1>8. ASSUME NEW s \in Servers, SetSteps(s) PROVE WholeModels'
  <2>1. /\ phase = "updating" /\ UNCHANGED <<phase, known, version, loaded>>
        /\ steps' = [steps EXCEPT ![s] = version] /\ Len(loaded[s]) = TensorCount
    BY <1>8 DEF SetSteps
  <2>2. DOMAIN steps' = Servers /\ \A r \in Servers : steps'[r] = IF r = s THEN version ELSE steps[r]
    BY <2>1 DEF WholeModels
  <2>3. \A r \in Servers : /\ steps'[r] \in Nat /\ steps'[r] <= version
                          /\ steps'[r] = version => Len(loaded[r]) = TensorCount
    BY <2>1, <2>2 DEF WholeModels
  <2> QED
    BY <2>1, <2>2, <2>3 DEF WholeModels
<1>9. ASSUME NEW s \in Servers,
             CancelServer(s) \/ Abort(s) \/ ResumeGeneration(s) \/ ResumeServer(s)
      PROVE  WholeModels'
  BY <1>1, <1>9 DEF CancelServer, Abort, ResumeGeneration, ResumeServer
<1>10. CASE UNCHANGED vars
  BY <1>1, <1>10 DEF vars
<1>11. CASE SampleStep /\ UNCHANGED syncVars
  BY <1>1, <1>11 DEF SampleStep, StartSample, FinishSample
<1>12. ASSUME NEW t \in Trajectories, TrajectoryStep(t), UNCHANGED syncVars PROVE WholeModels'
  <2>1. UNCHANGED <<known, version, loaded>>
    BY <1>12 DEF TrajectoryStep, Interrupt, Prompt, Generate, CallTools, ToolsAnswer, Turned,
       Register, Emit, Reply
  <2> QED
    BY <1>1, <1>12, <2>1
<1> QED
  BY <1>2, <1>3, <1>4, <1>5, <1>6, <1>7, <1>8, <1>9, <1>10, <1>11, <1>12
     DEF Next, RollouterStep, ServerStep

\* limit is chosen once.
LEMMA LimitStep == [Next]_vars => limit' = limit
<1> SUFFICES ASSUME [Next]_vars PROVE limit' = limit
  OBVIOUS
<1> USE DEF rolloutVars
<1>1. CASE Aside
  BY <1>1 DEF Aside, Submit, SyncWeights, LateRecovery, RollouterStep, CancelWorker, Paused, BeginTransfer,
     UpdateParamVersion, ResumeWorker, Resumed, ValStep, ValRegister, ValEmit, ValReply,
     ValReport, Load, SetSteps, ResumeGeneration
<1>2. CASE StartSample \/ FinishSample \/ UNCHANGED vars
  BY <1>2 DEF StartSample, FinishSample, vars
<1>3. ASSUME NEW s \in Servers, CancelServer(s) \/ Abort(s) \/ ResumeServer(s)
      PROVE  limit' = limit
  BY <1>3 DEF CancelServer, Abort, ResumeServer
<1>4. ASSUME NEW t \in Trajectories, TrajectoryStep(t) PROVE limit' = limit
  BY <1>4 DEF TrajectoryStep, Interrupt, Prompt, Generate, CallTools, ToolsAnswer, Turned,
     Register, Emit, Reply
<1> QED
  BY <1>1, <1>2, <1>3, <1>4, StepKinds
-----------------------------------------------------------------------------
(* Every step keeps what has been generated sound.                         *)

\* Where nothing generates, only the version the rollouter knows may change, and upwards.
LEMMA SoundLater ==
    ASSUME NEW d, NEW m \in Nat, NEW n \in Nat, m <= n, Sound(d, m)
    PROVE  Sound(d, n)
  BY BracketedLater DEF Sound, LastVersion

\* Steps that change no trajectory's data and no answer, and keep that version while one
\* is being served.
LEMMA GeneratedFrame ==
    ASSUME Generated, WholeModels, WholeModels', UNCHANGED <<data, task>>,
           sample'.first = sample.first, known <= known',
           known' = known \/ \A t \in Trajectories : task[t] # "serving",
           \A t \in Trajectories : req'[t].prompt = req[t].prompt /\ req'[t].out = req[t].out
    PROVE  Generated'
<1>1. known \in Nat /\ known' \in Nat
  BY DEF WholeModels
<1>2. ASSUME NEW t \in Trajectories PROVE Sound(data[t], known')
  <2>1. Sound(data[t], known)
    BY DEF Generated
  <2> QED
    BY <1>1, <2>1, SoundLater
<1> QED
  BY <1>2 DEF Generated

\* A submission dates what is submitted for the first time, and has nothing else to it.
LEMMA StartGenerated ==
    ASSUME Shaped, VersionsInv, StartSample
    PROVE  Generated' /\ RunsNow'
<1>1. known \in Nat /\ known' = known
  BY DEF StartSample, VersionsInv, WholeModels
<1>2. UNCHANGED req /\ \A t \in Trajectories : task'[t] # "serving"
  BY DEF StartSample
<1>3. ~sample'.first /\ sample'.version = known
  BY DEF StartSample, Shaped, SampleFields
<1>4. ASSUME NEW t \in Trajectories PROVE Sound(data'[t], known)
  <2> DEFINE begin == IF sample.first THEN known ELSE data[t].begin
             d == Started(data[t], NoServer, begin)
  <2>1. data'[t] = d
    BY DEF StartSample, Started
  <2>2. /\ d.begin = begin /\ d.end = data[t].end /\ d.cancel = data[t].cancel
        /\ d.text = data[t].text /\ d.mask = data[t].mask
        /\ d.overtaken = data[t].overtaken
    BY DEF Started, Shaped, Row, Fields
  <2>3. Sound(data[t], known) /\ (sample.first => data[t].text = << >>)
    BY DEF VersionsInv, Generated
  <2> HIDE DEF d
  <2>4. CASE sample.first
    BY <1>1, <2>1, <2>2, <2>3, <2>4 DEF Sound, Bracketed, LastVersion
  <2>5. CASE ~sample.first
    BY <1>1, <2>1, <2>2, <2>3, <2>5 DEF Sound, Bracketed, LastVersion
  <2> QED
    BY <2>4, <2>5
<1> QED
  BY <1>1, <1>2, <1>3, <1>4 DEF VersionsInv, Generated, RunsNow

\* A step of a trajectory.
LEMMA TrajectoryGenerated ==
    ASSUME Shaped, VersionsInv, TasksOfSample, Sealed, WorkIsOpen, NEW t \in Trajectories,
           TrajectoryStep(t), UNCHANGED syncVars
    PROVE  Generated' /\ RunsNow'
<1>1. /\ sample.at = "running" /\ sample' = sample /\ data[t].cancel /\ ~sample.first
      /\ \A u \in Trajectories \ {t} :
            data'[u] = data[u] /\ task'[u] = task[u] /\ req'[u] = req[u]
  BY TrajectoryFrame DEF TasksOfSample, WorkIsOpen
<1>2. UNCHANGED <<known, phase>>
  BY DEF TrajectoryStep, Interrupt, Prompt, Generate, CallTools, ToolsAnswer, Turned,
     Register, Emit, Reply, syncVars
<1>3. SUFFICES /\ Sound(data'[t], known) /\ req'[t].prompt \in Seq(Word)
               /\ req'[t].out \in Seq(Word)
               /\ task'[t] = "serving" =>
                     \A k \in 1 .. Len(req'[t].out) : req'[t].out[k].v = known
  BY <1>1, <1>2 DEF VersionsInv, Generated, RunsNow
<1>4. /\ Row(data[t]) /\ Sound(data[t], known) /\ data[t].text \in Seq(Word)
      /\ DOMAIN data = Trajectories /\ DOMAIN req = Trajectories /\ DOMAIN task = Trajectories
      /\ Request(req[t]) /\ req[t].prompt \in Seq(Word) /\ req[t].out \in Seq(Word)
      /\ task[t] = "serving" => \A k \in 1 .. Len(req[t].out) : req[t].out[k].v = known
      /\ known \in Nat /\ limit \in Nat
  BY DEF Shaped, VersionsInv, Generated, WholeModels, Sound, Bracketed
<1>5. CASE Interrupt(t) \/ CallTools(t)
  BY <1>4, <1>5 DEF Interrupt, CallTools
<1>6. CASE Prompt(t)
  <2>1. /\ data'[t] = [data[t] EXCEPT !.state = "GENERATING"] /\ UNCHANGED <<task, req>>
        /\ task[t] = "loop"
    BY <1>4, <1>6 DEF Prompt
  <2>2. Sound([data[t] EXCEPT !.state = "GENERATING"], known)
    BY <1>4, SoundState
  <2> QED
    BY <1>4, <2>1, <2>2
<1>7. CASE Generate(t)
  <2>1. PICK s \in Servers : data' = [data EXCEPT ![t].home = s]
    BY <1>7 DEF Generate
  <2> DEFINE e == [data[t] EXCEPT !.home = s]
  <2>2. /\ e.text = data[t].text /\ e.mask = data[t].mask /\ e.begin = data[t].begin
        /\ e.end = data[t].end /\ e.cancel = data[t].cancel
        /\ e.overtaken = data[t].overtaken
    BY <1>4 DEF Row, Fields
  <2> HIDE DEF e
  <2>3. Sound(e, known)
    BY <1>4, <2>2 DEF Sound, Bracketed, LastVersion
  <2>4. data'[t] = e /\ UNCHANGED req /\ task'[t] = "sent"
    BY <1>4, <1>7, <2>1 DEF Generate, e
  <2> QED
    BY <1>4, <2>3, <2>4
<1>8. CASE ToolsAnswer(t)
  <2>1. UNCHANGED req /\ task'[t] \in {"returned", "loop"}
    BY <1>4, <1>8 DEF ToolsAnswer
  <2>2. CASE Len(data[t].mask) + 1 >= limit
    <3>1. data'[t] = Completed(data[t])
      BY <1>4, <1>8, <2>2 DEF ToolsAnswer
    <3>2. Sound(Completed(data[t]), known)
      BY <1>1, <1>4, SoundCompleted DEF Sound
    <3> QED
      BY <1>4, <2>1, <3>1, <3>2
  <2>3. CASE ~(Len(data[t].mask) + 1 >= limit)
    <3> DEFINE word == [i |-> NextIndex(data[t].text), v |-> NotGenerated]
               logprobs == Append(data[t].logprobs, 0)
               e == Answered(data[t], Append(data[t].text, word), Append(data[t].mask, 0), logprobs)
    <3>1. data'[t] = e
      BY <1>4, <1>8, <2>3 DEF ToolsAnswer, Answered
    <3>2. word \in Word
      BY <1>4, NextIndexType DEF Word, NotGenerated
    <3>3. e.cancel = data[t].cancel
      BY <1>4, AnsweredShape
    <3> HIDE DEF word, logprobs
    <3> HIDE DEF e
    <3>4. Bracketed(e, known) /\ e.begin = data[t].begin /\ e.end = data[t].end
      <4>1. Bracketed(data[t], known)
        BY <1>1, <1>4 DEF Sound
      <4> QED
        BY <1>4, <3>2, <4>1, AnsweredBracketed DEF e
    <3>5. Sound(e, known)
      BY <1>1, <1>4, <3>3, <3>4 DEF Sound
    <3> QED
      BY <1>4, <2>1, <3>1, <3>5
  <2> QED
    BY <2>2, <2>3
<1>9. CASE Turned(t)
  <2>1. Receive(t, << >>, TRUE) /\ UNCHANGED req
    BY <1>9 DEF Turned
  <2>2. Sound(data'[t], known)
    <3>1. << >> \in Seq(Word) /\ \A k \in 1 .. Len(<< >>) : << >>[k].v = known
      OBVIOUS
    <3> QED
      BY <1>1, <2>1, <3>1, ReceiveSound
  <2>3. task'[t] # "serving"
    BY <2>1, ReceiveShape
  <2> QED
    BY <1>4, <2>1, <2>2, <2>3
<1>10. CASE Register(t)
  <2>1. req'[t].prompt = data[t].text /\ req'[t].out = << >> /\ data'[t] = data[t]
    BY <1>4, <1>10 DEF Register, NoRequest
  <2> QED
    BY <1>4, <2>1
<1>11. CASE Emit(t)
  <2> DEFINE word == [i |-> NextIndex(req[t].prompt \o req[t].out), v |-> Weights(req[t].server)]
  <2>1. task[t] = "serving" /\ UNCHANGED <<data, task>> /\ req[t].server \in Servers
    BY <1>11 DEF Emit, Shaped
  <2>2. Weights(req[t].server) = known
    <3>1. Len(loaded[req[t].server]) = TensorCount /\ known = version
      BY <2>1 DEF Sealed, AllCancelled, VersionsInv, WholeModels
    <3>2. loaded[req[t].server] # << >>
      BY <3>1, RolloutAssumption, EmptySeq
    <3> QED
      BY <3>1, <3>2, Zenon DEF Weights
  <2>3. word \in Word /\ word.v = known
    <3>1. req[t].prompt \o req[t].out \in Seq(Word)
      BY <1>4
    <3>2. NextIndex(req[t].prompt \o req[t].out) \in Nat
      BY <3>1, NextIndexType
    <3> QED
      BY <1>4, <2>2, <3>2 DEF Word
  <2>4. req'[t].out = Append(req[t].out, word) /\ req'[t].prompt = req[t].prompt
    BY <1>4, <1>11 DEF Emit, Request
  <2> HIDE DEF word
  <2>5. \A k \in 1 .. Len(Append(req[t].out, word)) : Append(req[t].out, word)[k].v = known
    BY <1>4, <2>1, <2>3
  <2> QED
    BY <1>4, <2>1, <2>3, <2>4, <2>5
<1>12. CASE Reply(t)
  <2>1. Receive(t, req[t].out, ~req[t].over) /\ task[t] = "serving" /\ req'[t] = NoRequest
    BY <1>4, <1>12 DEF Reply
  <2>2. Sound(data'[t], known)
    BY <1>1, <1>4, <2>1, ReceiveSound
  <2>3. task'[t] # "serving"
    BY <2>1, ReceiveShape
  <2>4. NoRequest.prompt = << >> /\ NoRequest.out = << >>
    BY DEF NoRequest
  <2> QED
    BY <2>1, <2>2, <2>3, <2>4
<1> QED
  BY <1>5, <1>6, <1>7, <1>8, <1>9, <1>10, <1>11, <1>12 DEF TrajectoryStep

\* What the rollouter knows moves only when an update ends, and forwards.
LEMMA AsideKnown ==
    ASSUME Aside, VersionsInv
    PROVE  \/ known' = known /\ (phase' \in {"paused", "updating"} =>
                                   phase \in {"paused", "updating"} \/ Paused)
           \/ UpdateParamVersion /\ known' = known + 1
<1> USE DEF rolloutVars, weightVars, setup, syncVars
<1>1. CASE Submit \/ SyncWeights \/ LateRecovery
  BY <1>1 DEF Submit, SyncWeights, LateRecovery
<1>2. CASE RollouterStep
  <2>1. CASE UpdateParamVersion
    BY <2>1 DEF UpdateParamVersion, Updated, VersionsInv, WholeModels
  <2>2. CASE ~UpdateParamVersion
    BY <1>2, <2>2 DEF RollouterStep, CancelWorker, Paused, BeginTransfer, ResumeWorker, Resumed
  <2> QED
    BY <2>1, <2>2
<1>3. CASE ValStep
  BY <1>3 DEF ValStep, ValRegister, ValEmit, ValReply, ValReport
<1>4. ASSUME NEW s \in Servers, Load(s) \/ SetSteps(s) \/ ResumeGeneration(s)
      PROVE  UNCHANGED <<known, phase>>
  BY <1>4 DEF Load, SetSteps, ResumeGeneration
<1> QED
  BY <1>1, <1>2, <1>3, <1>4 DEF Aside

LEMMA AsideGenerated ==
    ASSUME Shaped, VersionsInv, WholeModels', TasksOfSample, Sealed, Aside
    PROVE  Generated' /\ RunsNow'
<1>1. UNCHANGED <<data, task, req>>
  BY AsideFrame
<1>2. /\ sample'.first = sample.first
      /\ sample' = sample \/ sample'.at = "submitted"
  BY AsideSample DEF Shaped
<1>3. CASE known' = known /\ (phase' \in {"paused", "updating"} =>
                                phase \in {"paused", "updating"} \/ Paused)
  <2>1. Generated'
    <3>1. known <= known'
      BY <1>3 DEF VersionsInv, WholeModels
    <3> QED
      BY <1>1, <1>2, <1>3, <3>1, GeneratedFrame DEF VersionsInv
  <2>2. RunsNow'
    <3>1. CASE sample'.at = "submitted" \/ Paused
      BY <1>2, <3>1 DEF RunsNow, Paused
    <3>2. CASE sample' = sample /\ ~Paused
      BY <1>3, <3>2 DEF RunsNow, VersionsInv
    <3> QED
      BY <1>2, <3>1, <3>2
  <2> QED
    BY <2>1, <2>2
<1>4. CASE UpdateParamVersion /\ known' = known + 1
  <2>1. phase = "updating" /\ phase' \in {"failed", "versioned"} /\ sample' = sample
    BY <1>4 DEF UpdateParamVersion, Updated
  <2>2. \A t \in Trajectories : task[t] # "serving"
    BY <2>1 DEF Sealed, AllCancelled, Shaped
  <2>3. known <= known' /\ known \in Nat
    BY <1>4 DEF VersionsInv, WholeModels
  <2>4. Generated'
    BY <1>1, <1>2, <2>2, <2>3, GeneratedFrame DEF VersionsInv
  <2>5. RunsNow'
    BY <1>4, <2>1, <2>3 DEF RunsNow, Sealed, VersionsInv
  <2> QED
    BY <2>4, <2>5
<1> QED
  BY <1>3, <1>4, AsideKnown

LEMMA VersionsStep ==
    ASSUME Shaped, TasksOfSample, Sealed, WorkIsOpen, VersionsInv, [Next]_vars
    PROVE  VersionsInv'
<1>1. limit' \in Nat /\ WholeModels'
  BY LimitStep, WholeStep DEF VersionsInv
<1>2. SUFFICES Generated' /\ RunsNow'
  BY <1>1 DEF VersionsInv
<1>3. CASE Aside
  BY <1>1, <1>3, AsideGenerated
<1>4. ASSUME UNCHANGED <<data, task, known>>, sample'.first = sample.first,
             \A t \in Trajectories : req'[t].prompt = req[t].prompt /\ req'[t].out = req[t].out
      PROVE  Generated'
  <2>1. known <= known'
    BY <1>4 DEF VersionsInv, WholeModels
  <2> QED
    BY <1>1, <1>4, <2>1, GeneratedFrame DEF VersionsInv
<1>5. CASE UNCHANGED vars
  BY <1>4, <1>5 DEF vars, rolloutVars, syncVars, VersionsInv, RunsNow
<1>6. CASE StartSample
  BY <1>6, StartGenerated
<1>7. CASE FinishSample
  <2>1. /\ UNCHANGED <<data, req, known>> /\ \A t \in Trajectories : task'[t] = "off"
        /\ sample'.first = sample.first /\ sample'.at \in {"queued", "done"}
    BY <1>7 DEF FinishSample, Shaped, SampleFields
  <2> QED
    BY <2>1 DEF VersionsInv, Generated, RunsNow
<1>8. ASSUME NEW s \in Servers, CancelServer(s) \/ Abort(s) \/ ResumeServer(s)
      PROVE  Generated' /\ RunsNow'
  <2>1. UNCHANGED <<data, task, sample, known, phase>>
    BY <1>8 DEF CancelServer, Abort, ResumeServer, syncVars
  <2>2. \A t \in Trajectories : req'[t].prompt = req[t].prompt /\ req'[t].out = req[t].out
    BY <1>8 DEF CancelServer, Cancel, Abort, ResumeServer, Shaped, Request
  <2> QED
    BY <1>4, <2>1, <2>2 DEF VersionsInv, RunsNow
<1>9. ASSUME NEW t \in Trajectories, TrajectoryStep(t), UNCHANGED syncVars
      PROVE  Generated' /\ RunsNow'
  BY <1>9, TrajectoryGenerated
<1> QED
  BY <1>3, <1>5, <1>6, <1>7, <1>8, <1>9, StepKinds

LEMMA InitVersions == Init => VersionsInv
<1> SUFFICES ASSUME Init PROVE VersionsInv
  OBVIOUS
<1>1. limit \in Nat /\ WholeModels
  BY WholeInit
<1>2. sample.at # "running" /\ known = 0
  BY DEF Init, RolloutInit
<1>3. \A t \in Trajectories : data[t] = NewData /\ req[t] = NoRequest /\ task[t] = "off"
  BY DEF Init, RolloutInit
<1>4. Sound(NewData, 0) /\ NewData.text = << >>
  BY DEF NewData, Sound, Bracketed, LastVersion
<1>5. NoRequest.prompt \in Seq(Word) /\ NoRequest.out \in Seq(Word)
  BY DEF NoRequest
<1> QED
  BY <1>1, <1>2, <1>3, <1>4, <1>5 DEF VersionsInv, Generated, RunsNow

\* The generated words of a complete trajectory come from whole models of the versions
\* between param_version_start and param_version_end, in their order, however often
\* it was cut, by however many updates of however many servers; those of one that was
\* submitted during an update and overtaken by it reach one version further.
THEOREM RolloutVersionsBracket == Spec => []VersionsBracket
<1>1. VersionsInv => VersionsBracket
  <2> SUFFICES ASSUME VersionsInv, NEW t \in Trajectories, ~data[t].cancel
               PROVE  LET d == data[t]
                          own == {k \in DOMAIN d.text : d.mask[k] = 1}
                          last == IF d.overtaken THEN d.end + 1 ELSE d.end
                      IN  /\ \A k \in own : d.text[k].v \in d.begin .. last
                          /\ \A j, k \in own : j < k => d.text[j].v <= d.text[k].v
    BY DEF VersionsBracket
  <2>1. /\ Bracketed(data[t], LastVersion(data[t])) /\ data[t].begin \in Nat
        /\ data[t].end \in Nat
    BY DEF VersionsInv, Generated, Sound
  <2>2. data[t].text \in Seq(Word) /\ DOMAIN data[t].text = 1 .. Len(data[t].text)
    BY <2>1 DEF Bracketed
  <2>3. ASSUME NEW k \in 1 .. Len(data[t].text) PROVE data[t].text[k].v \in Int
    <3>1. data[t].text[k] \in Word
      BY <2>2
    <3> QED
      BY <3>1 DEF Word
  <2> QED
    BY <2>1, <2>2, <2>3 DEF Bracketed, LastVersion
<1>2. Init => WorkIsOpen /\ Sealed
  BY DEF Init, RolloutInit, WorkIsOpen, NewData, Sealed
<1>3. Shaped /\ WorkIsOpen /\ [Next]_vars => WorkIsOpen'
  BY WorkStep
<1>4. Shaped /\ TasksOfSample /\ Sealed /\ WorkIsOpen /\ VersionsInv /\ [Next]_vars
        => VersionsInv'
  BY VersionsStep
<1> QED
  BY <1>1, <1>2, <1>3, <1>4, InitShaped, InitVersions, ShapedStep, TasksStep, SealedStep, PTL
     DEF Spec
=============================================================================
