---------------------------- MODULE WeightStream ----------------------------
(***************************************************************************)
(* What CheckpointEngineManager.update_weights promises, whatever engine   *)
(* carries the weights: every receiver loads the tensors of one version,   *)
(* each once and in the sender's order, and an update begins only after    *)
(* the one before has reached every receiver.                              *)
(***************************************************************************)
EXTENDS Integers, Sequences

CONSTANTS Workers,      \* the receiving rollout workers
          TensorCount,  \* tensors of the model
          MaxUpdates    \* bound: updates of a run

VARIABLES version,   \* the version on its way, or the last that arrived
          loaded,    \* [Workers -> sequence of <<tensor, set of contents>>]
          at_risk    \* pairs <<worker, tensor>> the engine does not vouch for

streamVars == <<version, loaded, at_risk>>

Tensor(k) == <<k, {<<version, k>>}>>
Complete == \A r \in Workers : Len(loaded[r]) = TensorCount

StreamInit ==
    /\ version = 0
    /\ loaded = [r \in Workers |-> [k \in 1 .. TensorCount |-> <<k, {<<0, k>>}>>]]

BeginUpdate ==
    /\ Complete /\ version < MaxUpdates
    /\ version' = version + 1
    /\ loaded' = [r \in Workers |-> << >>]
    /\ UNCHANGED at_risk

\* Worker r loads the n tensors that follow those it has, as they were sent.
LoadIntact(r) ==
    \E n \in 1 .. TensorCount - Len(loaded[r]) :
        /\ loaded' = [loaded EXCEPT ![r] = @ \o [i \in 1 .. n |-> Tensor(Len(@) + i)]]
        /\ UNCHANGED <<version, at_risk>>

\* Worker r loads the tensors that follow those it has, one bucket at a time; what
\* arrives of a tensor at risk may be anything.
LoadTensors(r) ==
    \E n \in 1 .. TensorCount - Len(loaded[r]) :
        LET k(i) == Len(loaded[r]) + i IN
        /\ Len(loaded'[r]) = Len(loaded[r]) + n
        /\ SubSeq(loaded'[r], 1, Len(loaded[r])) = loaded[r]
        /\ \A i \in 1 .. n :
              /\ loaded'[r][k(i)][1] = k(i)
              /\ <<r, k(i)>> \notin at_risk => loaded'[r][k(i)] = Tensor(k(i))
        /\ \A q \in Workers \ {r} : loaded'[q] = loaded[q]
        /\ UNCHANGED <<version, at_risk>>

StreamNext == BeginUpdate \/ \E r \in Workers : LoadTensors(r)

StreamSpec == StreamInit /\ [][StreamNext]_streamVars
=============================================================================
