--------------------------- MODULE MCTraceRuntime ---------------------------
(***************************************************************************)
(* The halves of src/runtime, the engine (with what is told of its run)    *)
(* and the causal recorder, and of a dynamics run its recorder and the     *)
(* checked session of its mechanics, in one run.  They share nothing: a    *)
(* behaviour is one of one part, beside others that have not begun.        *)
(***************************************************************************)
EXTENDS MCTickEngine, TraceView, CausalRecording, RunRecord, DynamicsSession, TLC

VARIABLE part

Idle == Declared(0, Heat, <<"heat">>, NoOne, <<>>, <<>>, <<>>)
RealOrIdle == AllSimfiles \union {Idle}

Try(key, at) == [key |-> key, at |-> at]
SomeAttempts == {Try(1, 0), Try(1, 1), Try(2, 0), Try(3, 1)}
Outcome(o, with) ==
  [id |-> 1, outcome |-> o, participant |-> "ann", counterparty |-> with, seq |-> 1]
SomeOutcomes == {{}, {Outcome("fulfilled", Nobody)}, {Outcome("matched", Nobody)}}

Symmetry == Permutations(Run) \union Permutations(Correlations)

PartInit == part \in {"engine", "causal", "record", "session"}

TraceRuntimeInit ==
  /\ PartInit
  /\ Init /\ RecInit /\ RecordInit /\ SessionInit
  /\ sim = Idle <=> part # "engine"
  /\ part # "engine" => acts = <<>> /\ draws = NoDraws

TraceRuntimeNext ==
  /\ \/ part = "engine" /\ StepTick /\ UNCHANGED <<recVars, recordVars, sessionVars>>
     \/ part = "causal" /\ RecNext /\ UNCHANGED <<vars, recordVars, sessionVars>>
     \/ part = "record" /\ RecordNext /\ UNCHANGED <<vars, recVars, sessionVars>>
     \/ part = "session" /\ SessionNext /\ UNCHANGED <<vars, recVars, recordVars>>
  /\ UNCHANGED part

TraceRuntime ==
  TraceRuntimeInit /\ [][TraceRuntimeNext]_<<vars, recVars, recordVars, sessionVars, part>>
=============================================================================
