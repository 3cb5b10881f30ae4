----------------------------- MODULE ReceiptChain -----------------------------
(***************************************************************************)
(* What a composed run believes of the answers it gets (src/compose, and  *)
(* the production ports of src/spawnfile).  Runs share one target.  Each   *)
(* builds its requests from the receipts its journal holds, verifies each  *)
(* answer against them, keeps the receipts of mutations as completed, and  *)
(* commits a phase; a run that resumes verifies what it stored again.  The *)
(* target may answer a run with a receipt it has given before, for this    *)
(* run or for another.                                                     *)
(*                                                                         *)
(* How intents, lookups and commits survive a crash is in ComposedRun; an  *)
(* operation that was performed is answered here as it was the first time. *)
(* A digest stands for what it digests, so that an answer carries the very *)
(* request it is the answer to.                                            *)
(***************************************************************************)
EXTENDS ComposedPhases, FiniteSets

CONSTANTS
  Chain,          \* the runs on one target, each with a deployment of its own
  LastTick,       \* the terminal tick a run is configured with
  MaxMishaps,     \* bound on crashes, lost and wrong answers, early endings
  NoAnswer

ASSUME ReceiptChainAssumption ==
  /\ LastTick \in Nat \ {0}
  /\ MaxMishaps \in Nat

VARIABLES
  stage,       \* the last phase in the journal of each run
  took,        \* the answers its phases, and the one under way, stand on
  kept,        \* the mutations its journal holds as completed, with receipts
  on,          \* whether a process is working on the run
  exported,    \* whether its world evidence directory is there
  given,       \* every answer the target has given
  held,        \* the handles of what the target holds
  clock,       \* the world of each run
  mishaps

chainVars == <<stage, took, kept, on, exported, given, held, clock, mishaps>>

\* composedRunPhaseIndex, the calls into a phase and those through it.
Index ==
  [name \in {PhaseNames[k] : k \in DOMAIN PhaseNames} |->
     (CHOOSE k \in DOMAIN PhaseNames : PhaseNames[k] = name) - 1]
CallsInto == [k \in 1..Completed |-> Calls(k)]
Through == [k \in Phase |-> CallsThrough(k)]

Reached(r, name) == stage[r] >= Index[name]

-----------------------------------------------------------------------------
(* Resources, the operations that create them and those that need them.    *)

Creates ==
  [op \in Operation |->
     CASE op = Preparation            -> {"artifact", "secrets", "network", "volume"}
       [] op = "create_world_service" -> {"created"}
       [] op = "start_world_service"  -> {"service"}
       [] op = "up"                   -> {"handoff"}
       [] op = "attach_organization"  -> {"attachment"}
       [] OTHER                       -> {}]

Needs ==
  [op \in Operation |->
     CASE op = "create_world_service" -> Creates[Preparation]
       [] op = "start_world_service"  -> {"created"}
       [] op = "up"                   -> {"network"}
       [] op = "attach_organization"  -> {"network", "handoff"}
       [] op \in {"attest_topology", "activate_topology"} ->
            {"network", "created", "service", "attachment"}
       [] op \in {"query_world_readiness", "query_world_clock",
                  "snapshot_public_artifact", "stop_world_service"} -> {"service"}
       [] op = "export_evidence_volume" -> {"volume"}
       [] op = "detach_organization"    -> {"network", "attachment"}
       [] op = "revoke_secret_bindings" -> {"secrets"}
       [] op = "cleanup_run" -> {"volume", "attachment", "secrets", "service"}
       [] OTHER -> {}]

Creator ==
  [name \in UNION {Creates[op] : op \in Operation} |->
     CHOOSE op \in Operation : name \in Creates[op]]

\* A handle is what the stored receipt of its creator says it is.
Handle(r, name) == <<name, took[r][Creator[name]].run>>

Request(r, op) ==
  [op |-> op, run |-> r, uses |-> {Handle(r, name) : name \in Needs[op]}]

\* The calls of the next phase that have no answer yet, and the first of them.
CallsLeft(r) ==
  {i \in DOMAIN CallsInto[stage[r] + 1] : took[r][CallsInto[stage[r] + 1][i]] = NoAnswer}
Asking(r) == on[r] /\ stage[r] < Completed /\ CallsLeft(r) # {}
NextAsked(r) ==
  CallsInto[stage[r] + 1][CHOOSE i \in CallsLeft(r) : \A j \in CallsLeft(r) : i <= j]

-----------------------------------------------------------------------------
(* Verification. *)

\* Fault: an answer of the right kind will do.
FaultyTied(r, op, a) == a.op = op

\* verifyTargetResourceReceipt and its kin: the digest of the request.
Tied(r, op, a) == a.request = Request(r, op)

\* verifyActivation: the topology that was attested is the one activated.
Attested(r, a) == a.request.uses = took[r]["attest_topology"].request.uses

\* The answers that are not tied to their request: only the run, and for an
\* activation the topology, are compared.
Names(r, op, a) ==
  /\ a.run = r
  /\ op = "activate_topology" => Attested(r, a)

\* The first clock that is read must be one nobody has acted under, the world
\* must have ended by itself, and no file of the organization may be missing.
Fits(op, a) ==
  /\ op = "artifacts_export" => a.fact = "whole"
  /\ op = "down" => a.fact = "removed"
  /\ op = "query_world_clock" => a.seen.ticks >= 1 /\ a.seen.acts = 0
  /\ op = "snapshot_public_artifact" => a.fact = "completed"

Accepts(r, op, a) ==
  /\ IF op \in LifecycleOps \union {"attest_topology", "activate_topology"}
     THEN Names(r, op, a) ELSE Tied(r, op, a)
  /\ Fits(op, a)

\* Fault: how the cleanup went is left out.
FaultyUsable(r, op, a) ==
  op = "export_evidence_volume" => a.fact = "whole" /\ ~exported[r]

\* What is only looked at once the receipt is kept.
Usable(r, op, a) ==
  /\ op = "export_evidence_volume" => a.fact = "whole" /\ ~exported[r]
  /\ op = "cleanup_run" => a.fact = "removed"

\* deriveOwnership
Owned == {"network", "volume", "attachment", "handoff", "secrets", "created",
          "service"}

\* verifyEvidenceCorrelation: what is cleaned up after is one world.
Correlated(r) ==
  /\ \A op \in {"stop_world_service", "query_world_readiness"} :
       took[r][op].request.uses = {Handle(r, "service")}
  /\ took[r]["snapshot_public_artifact"].fact = "completed"

\* What the journal of a run says is verified again whenever it is resumed,
\* before the cleanup and before the terminal receipt.
StillAccepted(r) ==
  /\ \A op \in Through[stage[r]] :
       took[r][op] # NoAnswer /\ took[r][op].run = r
  /\ Reached(r, "activated") =>
       Names(r, "activate_topology", took[r]["activate_topology"])
  /\ Reached(r, "organization_evidence_exported") =>
       /\ Cardinality({Handle(r, name) : name \in Owned}) = Cardinality(Owned)
       /\ Correlated(r)

-----------------------------------------------------------------------------
(* The processes of simfile. *)

\* What a process that ends leaves: the answers of committed phases.
Durable(r) ==
  [op \in Operation |->
     IF op \in Through[stage[r]] THEN took[r][op] ELSE NoAnswer]

Ends(r) ==
  /\ on' = [on EXCEPT ![r] = FALSE]
  /\ took' = [took EXCEPT ![r] = Durable(r)]

Mishap == mishaps < MaxMishaps /\ mishaps' = mishaps + 1

Resume(r) ==
  /\ ~on[r] /\ stage[r] < Completed
  /\ StillAccepted(r)
  /\ on' = [on EXCEPT ![r] = TRUE]
  /\ UNCHANGED <<stage, took, kept, exported, given, held, clock, mishaps>>

CrashesWhileOn(r) ==
  /\ on[r] /\ Mishap /\ Ends(r)
  /\ UNCHANGED <<stage, kept, exported, given, held, clock>>

Keep(r, op, a) ==
  kept' = IF op \in JournaledOps THEN [kept EXCEPT ![r][op] = a] ELSE kept

\* A refused answer ends the lifecycle; an accepted one is kept before it is
\* looked at more closely, and the evidence is laid out before its inventory.
Takes(r, op, a) ==
  \/ /\ ~Accepts(r, op, a)
     /\ Ends(r)
     /\ UNCHANGED <<kept, exported>>
  \/ /\ Accepts(r, op, a)
     /\ Keep(r, op, a)
     /\ exported' = IF op = "export_evidence_volume" /\ a.fact = "whole"
                    THEN [exported EXCEPT ![r] = TRUE] ELSE exported
     /\ IF Usable(r, op, a)
        THEN took' = [took EXCEPT ![r][op] = a] /\ UNCHANGED on
        ELSE Ends(r)

\* The journal answers for a mutation it holds as completed.
Recalls(r, op) == op \in JournaledOps /\ kept[r][op] # NoAnswer

\* Fault: a completed mutation whose phase is not committed is a repeat.
FaultyRecall(r) ==
  /\ Asking(r) /\ Recalls(r, NextAsked(r)) /\ Ends(r)
  /\ UNCHANGED <<stage, kept, exported, given, held, clock, mishaps>>

Recall(r) ==
  /\ Asking(r)
  /\ LET op == NextAsked(r) IN Recalls(r, op) /\ Takes(r, op, kept[r][op])
  /\ UNCHANGED <<stage, given, held, clock, mishaps>>

-----------------------------------------------------------------------------
(* The target. *)

NotLooked == [ticks |-> 0, acts |-> 0]

Answer(r, op, fact) ==
  [op |-> op, run |-> r, request |-> Request(r, op), fact |-> fact,
   seen |-> IF op = "query_world_clock"
            THEN [ticks |-> clock[r].ticks, acts |-> clock[r].acts]
            ELSE NotLooked]

\* How an operation went, or how the world ended.
Facts(r, op) ==
  CASE op = "snapshot_public_artifact" -> {clock[r].state}
    [] op \in {"export_evidence_volume", "artifacts_export"} -> {"whole", "partial"}
    [] op \in {"down", "cleanup_run"}  -> {"removed", "incomplete"}
    [] OTHER                           -> {"done"}

FallsShort(a) == a.fact \in {"partial", "incomplete"}

\* An operation is answered as it was the first time; a look at the world as
\* the world is.  The clock is read once there is one, and the terminal
\* artifact once the world has ended.
Looks == {"query_world_clock", "snapshot_public_artifact"}

Replies(r, op) ==
  LET earlier == {a \in given : a.request = Request(r, op)} IN
  IF op \notin Looks /\ earlier # {} THEN earlier
  ELSE {Answer(r, op, f) : f \in Facts(r, op)}

\* There is something to answer.
Answers(r, op) ==
  /\ op = "query_world_clock" => clock[r].ticks >= 1
  /\ op = "snapshot_public_artifact" => clock[r].state \in {"completed", "interrupted"}

Released(a) ==
  CASE a.op = "detach_organization"    -> {h \in a.request.uses : h[1] = "attachment"}
    [] a.op = "revoke_secret_bindings" -> a.request.uses
    [] a.fact = "incomplete" -> {}
    [] a.op = "down"         -> {<<"handoff", a.run>>}
    [] a.op = "cleanup_run"  ->
         a.request.uses \union {h \in held : h[2] = a.run /\ h[1] # "handoff"}
    [] OTHER -> {}

\* An operation takes effect once.
Performs(r, op, a) ==
  /\ given' = given \union {a}
  /\ held' = IF a \in given THEN held
             ELSE (held \union {<<name, r>> : name \in Creates[op]}) \ Released(a)
  /\ clock' = IF op = "activate_topology" /\ clock[r].state = "paused"
              THEN [clock EXCEPT ![r].state = "running"] ELSE clock

\* The answer is heard.  That an operation falls short is a mishap.
Ask(r) ==
  /\ Asking(r)
  /\ LET op == NextAsked(r) IN
     /\ ~Recalls(r, op) /\ Answers(r, op)
     /\ \E a \in Replies(r, op) :
          /\ Performs(r, op, a)
          /\ Takes(r, op, a)
          /\ IF FallsShort(a) /\ a \notin given THEN Mishap ELSE UNCHANGED mishaps
  /\ UNCHANGED stage

\* The operation takes effect, and the process ends before it hears of it, or
\* as soon as the receipt is kept.
EndsAsking(r) ==
  /\ Asking(r) /\ Mishap
  /\ LET op == NextAsked(r) IN
     /\ ~Recalls(r, op) /\ Answers(r, op)
     /\ \E a \in Replies(r, op) :
          /\ FallsShort(a) => a \in given
          /\ Performs(r, op, a)
          /\ Ends(r)
          /\ \/ UNCHANGED kept
             \/ Accepts(r, op, a) /\ op \in JournaledOps /\ Keep(r, op, a)
  /\ UNCHANGED <<stage, exported>>

\* The target answers with a receipt of that kind that it gave before.
HearsAnother(r) ==
  /\ Asking(r) /\ Mishap
  /\ LET op == NextAsked(r) IN
     /\ ~Recalls(r, op)
     /\ \E a \in given : a.op = op /\ Takes(r, op, a)
  /\ UNCHANGED <<stage, given, held, clock>>

Commits(r) ==
  /\ on[r] /\ stage[r] < Completed
  /\ CallsLeft(r) = {}
  /\ StillAccepted(r)
  /\ stage' = [stage EXCEPT ![r] = @ + 1]
  /\ UNCHANGED <<took, kept, on, exported, given, held, clock, mishaps>>

-----------------------------------------------------------------------------
(* The worlds.  The organization is there before its world is activated.   *)

Ticks(r) ==
  /\ clock[r].state = "running"
  /\ clock' = IF clock[r].ticks < LastTick
              THEN [clock EXCEPT ![r].ticks = @ + 1]
              ELSE [clock EXCEPT ![r].state = "completed"]
  /\ UNCHANGED <<stage, took, kept, on, exported, given, held, mishaps>>

AgentActs(r) ==
  /\ clock[r].state = "running" /\ clock[r].acts = 0
  /\ clock' = [clock EXCEPT ![r].acts = 1]
  /\ UNCHANGED <<stage, took, kept, on, exported, given, held, mishaps>>

IsInterrupted(r) ==
  /\ clock[r].state = "running" /\ Mishap
  /\ clock' = [clock EXCEPT ![r].state = "interrupted"]
  /\ UNCHANGED <<stage, took, kept, on, exported, given, held>>

ChainInit ==
  /\ stage = [r \in Chain |-> 0]
  /\ took = [r \in Chain |-> [op \in Operation |-> NoAnswer]]
  /\ kept = [r \in Chain |-> [op \in JournaledOps |-> NoAnswer]]
  /\ on = [r \in Chain |-> FALSE]
  /\ exported = [r \in Chain |-> FALSE]
  /\ given = {} /\ held = {}
  /\ clock = [r \in Chain |-> [state |-> "paused", ticks |-> 0, acts |-> 0]]
  /\ mishaps = 0

Proceeds(r) == Resume(r) \/ Commits(r) \/ Recall(r) \/ Ask(r)

ChainNext ==
  \E r \in Chain :
    \/ Proceeds(r)
    \/ CrashesWhileOn(r) \/ EndsAsking(r) \/ HearsAnother(r)
    \/ Ticks(r) \/ AgentActs(r) \/ IsInterrupted(r)

ChainSpec == ChainInit /\ [][ChainNext]_chainVars

\* The operator resumes a run until it is complete, a process goes on, and a
\* world that runs ticks.
FairChain ==
  /\ ChainSpec
  /\ \A r \in Chain : WF_chainVars(Proceeds(r)) /\ WF_chainVars(Ticks(r))

-----------------------------------------------------------------------------
(* Properties. *)

\* Whatever a run has stored is of that run and over its own resources, and
\* passes every verification it meets later: run.ts, cleanup.ts and the
\* terminal receipt look at other fields than the ports did.
StoredStaysAccepted ==
  \A r \in Chain :
    /\ StillAccepted(r)
    /\ \A op \in Through[stage[r]] : took[r][op].request = Request(r, op)

\* A run that is cleaned has left nothing at the target, and a run that is
\* not yet has everything it was given until both exports are in its journal.
CleanedIsClean ==
  \A r \in Chain :
    /\ Reached(r, "cleaned") => \A h \in held : h[2] # r
    /\ ~Reached(r, "organization_evidence_exported") =>
         \A a \in given : a.run = r =>
           {<<name, r>> : name \in Creates[a.op]} \subseteq held

\* The receipts of a run tell what it has and holds, now and after it ended.
ReceiptsTied == StoredStaysAccepted /\ CleanedIsClean

\* A run that is resumed for long enough completes, but for these ends:
\* nothing was begun, an agent acted before the first clock was read, the
\* evidence was laid out and its phase not committed, an export or the removal of
\* something fell short, whose answer is final, or the world did not end by
\* itself.
RunFinishes ==
  \A r \in Chain :
    <>[](\/ stage[r] = Completed
         \/ stage[r] = 0 /\ ~on[r]
         \/ clock[r].acts = 1 /\ ~Reached(r, "tick_1")
         \/ exported[r] /\ ~Reached(r, "world_evidence_exported")
         \/ \E answer \in given : answer.run = r /\ FallsShort(answer)
         \/ clock[r].state = "interrupted")

\* An export that was interrupted can be resumed (finalize-world.ts:83:
\* "composed world evidence is recoverable", at world_evidence_exported).
EvidenceRecoverable ==
  \A r \in Chain : exported[r] ~> Reached(r, "world_evidence_exported")
===============================================================================
