----------------------------- MODULE ComposedRun -----------------------------
(***************************************************************************)
(* The durable lifecycle of a composed run (src/compose): a process walks  *)
(* the phases, asks Spawnfile for what each one needs, and records what it *)
(* learnt by replacing one journal file.  `simfile run` and `simfile       *)
(* recover` are the same walk started from whatever the journal says.      *)
(*                                                                         *)
(* Spawnfile and the world it runs are external: an invocation that was    *)
(* delivered takes effect later or not at all, whether or not its caller   *)
(* is still there; its lookup is authoritative; and it recognises a        *)
(* repeated idempotency key, so `target' never goes back from "done".      *)
(***************************************************************************)
EXTENDS ComposedPhases, FiniteSets

CONSTANTS
    Procs,          \* the processes that may work on the journal
    Overlap,        \* whether one may start while another is working
    MaxFaults       \* bound on crashes, signals and failures

ASSUME OverlapIsBoolean == Overlap \in BOOLEAN
ASSUME FaultsAreBounded == MaxFaults \in Nat

VARIABLES
    journal,        \* the contents of the journal file
    target,         \* what Spawnfile knows of each operation
    world,          \* how the world service ended, if it has
    spoilt,         \* the operations whose outcome no process can use
    proc,           \* the state of each process
    faults          \* how many faults have happened

vars == << journal, target, world, spoilt, proc, faults >>

OpState == {"none", "intent_durable", "lookup_required", "not_applied",
            "pending", "completed"}

Journal ==
    [ phase : Phase,
      ops   : [JournaledOps -> OpState],
      state : {"active", "recoverable", "complete"} ]

Requested ==
    [ phase |-> 0,
      ops   |-> [op \in JournaledOps |-> "none"],
      state |-> "active" ]

Mode == {"off", "work", "calling", "waiting", "replacing", "renaming",
         "confirming", "failing"}

(* What a process does once its replacement is confirmed. *)
Sequel == {"call", "next", "phase", "fail", "exit"}

Process ==
    [ mode    : Mode,
      snap    : Journal,        \* what the session read or wrote last
      current : BOOLEAN,        \* the file still is the one it knows
      step    : 1 .. 5,         \* position in the calls of the stage
      staged  : Journal,        \* the replacement being written
      sequel  : Sequel,
      signal  : BOOLEAN ]       \* SIGINT or SIGTERM was received

Off ==
    [ mode |-> "off", snap |-> Requested, current |-> FALSE, step |-> 1,
      staged |-> Requested, sequel |-> "exit", signal |-> FALSE ]

TypeOK ==
    /\ journal \in Journal
    /\ target \in [Operation -> {"absent", "running", "done", "ambiguous"}]
    /\ world \in {"running", "completed", "failed"}
    /\ spoilt \subseteq Operation
    /\ proc \in [Procs -> Process]
    /\ faults \in 0 .. MaxFaults

Init ==
    /\ journal = Requested
    /\ target = [op \in Operation |-> "absent"]
    /\ world = "running"
    /\ spoilt = {}
    /\ proc = [p \in Procs |-> Off]
    /\ faults = 0

-----------------------------------------------------------------------------
(* Helpers of one process.                                                 *)

Stage(p) == Calls(proc[p].snap.phase + 1)
(* Faulty: the last call of a stage is skipped. *)
FaultyStageDone(p) == proc[p].step >= Len(Stage(p))

StageDone(p) == proc[p].step > Len(Stage(p))
NextCall(p) == Stage(p)[proc[p].step]

(* The calling process wants op and still owns the file (driver.guard).   *)
Wants(p, op) ==
    /\ proc[p].mode = "work"
    /\ proc[p].current
    /\ ~StageDone(p)
    /\ op = NextCall(p)

Observed(j, op, s) == [j EXCEPT !.ops[op] = s]

(* Faulty: the phase is appended to a journal that never saw the operations. *)
FaultyAppendPhase(j) ==
    [ phase |-> j.phase + 1, ops |-> Requested.ops, state |-> "active" ]

AppendPhase(j) ==
    [j EXCEPT !.phase = @ + 1,
              !.state = IF j.phase + 1 = Completed THEN "complete"
                                                   ELSE "active"]

MarkRecoverable(j) == [j EXCEPT !.state = "recoverable"]

Goes(p, mode) == proc' = [proc EXCEPT ![p].mode = mode]

NextStep(p) ==
    proc' = [proc EXCEPT ![p].mode = "work", ![p].step = @ + 1]

Stops(p) == proc' = [proc EXCEPT ![p] = Off]

(* session.replace(expected, next): next is validated and written beside   *)
(* the file; the sequel runs once it has become the file.                  *)
Replace(p, next, sequel) ==
    proc' = [proc EXCEPT ![p].mode = "replacing",
                         ![p].staged = next,
                         ![p].sequel = sequel]

Fault == faults < MaxFaults /\ faults' = faults + 1

-----------------------------------------------------------------------------
(* Opening the journal, and the walk over the phases.                      *)

(* run or recover opens a session over the journal of an incomplete run.   *)
Start(p) ==
    /\ proc[p].mode = "off"
    /\ Overlap \/ \A q \in Procs : proc[q].mode = "off"
    /\ journal.phase < Completed
    /\ proc' = [proc EXCEPT ![p] =
                    [Off EXCEPT !.mode = "work", !.snap = journal,
                                !.staged = journal, !.current = TRUE]]
    /\ UNCHANGED << journal, target, world, spoilt, faults >>

(* The phase whose commit lays the exported world evidence out as files.   *)
LaysOut(p) == \E i \in DOMAIN Stage(p) : Stage(p)[i] = "export_evidence_volume"
WithLaidOut(p) ==
    IF LaysOut(p) THEN spoilt \union {"export_evidence_volume"} ELSE spoilt

(* Every call of the stage has its receipt: commitComposedPhase.  Evidence *)
(* that was laid out cannot be laid out again, whatever becomes of this    *)
(* commit (materializeWorldEvidenceArchive creates its directory).         *)
Commit(p) ==
    /\ proc[p].mode = "work"
    /\ StageDone(p)
    /\ LaysOut(p) => "export_evidence_volume" \notin spoilt
    /\ spoilt' = WithLaidOut(p)
    /\ Replace(p, AppendPhase(proc[p].snap), "phase")
    /\ UNCHANGED << journal, target, world, faults >>

(* The directory is there, or the archive cannot be read this time.        *)
CannotLayOut(p) ==
    /\ proc[p].mode = "work"
    /\ StageDone(p)
    /\ LaysOut(p)
    /\ IF "export_evidence_volume" \in spoilt THEN UNCHANGED faults ELSE Fault
    /\ Goes(p, "failing")
    /\ UNCHANGED << journal, target, world, spoilt >>

(* assertCurrent finds another file in its place before a call.            *)
Overtaken(p) ==
    /\ proc[p].mode = "work"
    /\ ~StageDone(p)
    /\ ~proc[p].current
    /\ Goes(p, "failing")
    /\ UNCHANGED << journal, target, world, spoilt, faults >>

-----------------------------------------------------------------------------
(* Making one call.                                                        *)

(* A receipt is verified, recorded and looked at once more (completeTarget *)
(* comes between): a spoilt one fails before or after it is recorded.      *)
Receives(p, op) ==
    \/ /\ op \notin spoilt
       /\ Replace(p, Observed(proc[p].snap, op, "completed"), "next")
    \/ /\ op \in spoilt
       /\ Replace(p, Observed(proc[p].snap, op, "completed"), "fail")
    \/ /\ op \in spoilt \ {Preparation}
       /\ Goes(p, "failing")

(* The journal already holds the receipt.  It is verified again, and what  *)
(* spoilt it for the process that recorded it spoils it for every other.   *)
HasReceipt(p, op) ==
    /\ Wants(p, op)
    /\ op \in JournaledOps
    /\ proc[p].snap.ops[op] = "completed"
    /\ \/ op \notin spoilt /\ NextStep(p)
       \/ op \in spoilt /\ Goes(p, "failing")
    /\ UNCHANGED << journal, target, world, spoilt, faults >>

(* Faulty: the operation is invoked before anything is durable. *)
FaultyIntend(p, op) ==
    /\ Wants(p, op)
    /\ op \in JournaledOps
    /\ proc[p].snap.ops[op] = "none"
    /\ Goes(p, "calling")
    /\ UNCHANGED << journal, target, world, spoilt, faults >>

(* The intent becomes durable before the operation is invoked. *)
Intend(p, op) ==
    /\ Wants(p, op)
    /\ op \in JournaledOps
    /\ proc[p].snap.ops[op] = "none"
    /\ Replace(p, Observed(proc[p].snap, op, "intent_durable"), "call")
    /\ UNCHANGED << journal, target, world, spoilt, faults >>

(* Faulty: whatever is not complete is invoked again. *)
FaultyLookUp(p, op) ==
    /\ Wants(p, op)
    /\ op \in TargetOps
    /\ proc[p].snap.ops[op] \notin {"none", "completed"}
    /\ ~proc[p].signal
    /\ \/ /\ target[op] = "done"
          /\ Receives(p, op)
       \/ /\ target[op] # "done"
          /\ Replace(p, Observed(proc[p].snap, op, "not_applied"), "call")
    /\ UNCHANGED << journal, target, world, spoilt, faults >>

(* Faulty: an operation found not applied is recorded and never retried. *)
FaultyLookUpStalls(p, op) ==
    /\ Wants(p, op)
    /\ op \in TargetOps
    /\ proc[p].snap.ops[op] \notin {"none", "completed"}
    /\ ~proc[p].signal
    /\ \/ /\ target[op] = "done"
          /\ Receives(p, op)
       \/ /\ target[op] = "running"
          /\ Replace(p, Observed(proc[p].snap, op, "pending"), "fail")
       \/ /\ target[op] = "absent"
          /\ Replace(p, Observed(proc[p].snap, op, "not_applied"), "fail")
    /\ UNCHANGED << journal, target, world, spoilt, faults >>

(* An earlier attempt has no receipt: ask Spawnfile what became of it.     *)
LookUp(p, op) ==
    /\ Wants(p, op)
    /\ op \in TargetOps
    /\ proc[p].snap.ops[op] \notin {"none", "completed"}
    /\ ~proc[p].signal
    /\ \/ /\ target[op] = "done"
          /\ Receives(p, op)
       \/ /\ target[op] = "running"
          /\ Replace(p, Observed(proc[p].snap, op, "pending"), "fail")
       \/ /\ target[op] = "absent"
          /\ Replace(p, Observed(proc[p].snap, op, "not_applied"), "call")
    /\ UNCHANGED << journal, target, world, spoilt, faults >>

(* The preparation is asked again under its key, without a lookup. *)
PrepareAgain(p, op) ==
    /\ Wants(p, op)
    /\ op = Preparation
    /\ proc[p].snap.ops[op] \notin {"none", "completed"}
    /\ Goes(p, "calling")
    /\ UNCHANGED << journal, target, world, spoilt, faults >>

(* resolveSpawnfileLifecycleOutcome: look before invoking. *)
LifecycleLookUp(p, op) ==
    /\ Wants(p, op)
    /\ op \in LifecycleOps
    /\ ~proc[p].signal
    /\ \/ target[op] = "done" /\ op \notin spoilt /\ NextStep(p)
       \/ target[op] = "absent" /\ Goes(p, "calling")
       \/ target[op] \in {"running", "ambiguous"} /\ Goes(p, "failing")
       \/ op \in spoilt /\ Goes(p, "failing")
    /\ UNCHANGED << journal, target, world, spoilt, faults >>

AskDirectly(p, op) ==
    /\ Wants(p, op)
    /\ op \in DirectOps
    /\ Goes(p, "calling")
    /\ UNCHANGED << journal, target, world, spoilt, faults >>

(* A lookup that fails, or runs under an aborted signal, says nothing.     *)
LookUpFails(p, op) ==
    /\ Wants(p, op)
    /\ \/ op \in TargetOps /\ proc[p].snap.ops[op] \notin {"none", "completed"}
       \/ op \in LifecycleOps
    /\ IF proc[p].signal THEN UNCHANGED faults ELSE Fault
    /\ Goes(p, "failing")
    /\ UNCHANGED << journal, target, world, spoilt >>

(* The command is handed to Spawnfile.                                     *)
Deliver(p) ==
    /\ proc[p].mode = "calling"
    /\ ~proc[p].signal
    /\ target' = [target EXCEPT ![NextCall(p)] =
                      IF @ = "absent" THEN "running" ELSE @]
    /\ Goes(p, "waiting")
    /\ UNCHANGED << journal, world, spoilt, faults >>

(* The receipt arrives and is verified.  A terminal signal that says the   *)
(* world ended early is refused.                                           *)
Return(p) ==
    LET op == NextCall(p) IN
    /\ proc[p].mode = "waiting"
    /\ target[op] = "done"
    /\ \/ /\ op \in JournaledOps
          /\ Receives(p, op)
       \/ /\ op \notin JournaledOps \union spoilt
          /\ op = "snapshot_public_artifact" => world = "completed"
          /\ NextStep(p)
       \/ /\ op = "snapshot_public_artifact"
          /\ world = "failed"
          /\ Goes(p, "failing")
       \/ /\ op \in spoilt \ JournaledOps
          /\ Goes(p, "failing")
    /\ UNCHANGED << journal, target, world, spoilt, faults >>

(* The invocation throws: the journal remembers that its effect is open.   *)
Throws(p) ==
    IF NextCall(p) \in JournaledOps
    THEN Replace(p, Observed(proc[p].snap, NextCall(p), "lookup_required"),
                 "fail")
    ELSE Goes(p, "failing")

(* Spawnfile refuses, or the abort signal ends the call. *)
CallEnds(p) ==
    /\ proc[p].mode \in {"calling", "waiting"}
    /\ \/ proc[p].signal
       \/ /\ proc[p].mode = "waiting"
          /\ target[NextCall(p)] \in {"absent", "ambiguous"}
    /\ Throws(p)
    /\ UNCHANGED << journal, target, world, spoilt, faults >>

(* A timeout, a lost answer or a command that could not be run. *)
CallBreaks(p) ==
    /\ proc[p].mode \in {"calling", "waiting"}
    /\ Fault
    /\ Throws(p)
    /\ UNCHANGED << journal, target, world, spoilt >>

(* An answer that fails its verification leaves no trace in the journal;   *)
(* the preparation is verified after it was recorded.                      *)
ReceiptRejected(p) ==
    /\ proc[p].mode = "waiting"
    /\ NextCall(p) # Preparation
    /\ target[NextCall(p)] = "done"
    /\ Fault
    /\ Goes(p, "failing")
    /\ UNCHANGED << journal, target, world, spoilt >>

-----------------------------------------------------------------------------
(* Replacing the journal: checked twice, renamed, read back.               *)

(* The last assertCurrent before the rename. *)
CheckReplace(p) ==
    /\ proc[p].mode = "replacing"
    /\ \/ proc[p].current /\ Goes(p, "renaming")
       \/ ~proc[p].current /\ proc[p].sequel # "exit" /\ Goes(p, "failing")
       \/ ~proc[p].current /\ proc[p].sequel = "exit" /\ Stops(p)
    /\ UNCHANGED << journal, target, world, spoilt, faults >>

Rename(p) ==
    /\ proc[p].mode = "renaming"
    /\ journal' = proc[p].staged
    /\ proc' = [q \in Procs |->
                  IF q = p
                  THEN [proc[q] EXCEPT !.mode = "confirming", !.current = TRUE]
                  ELSE [proc[q] EXCEPT !.current = FALSE]]
    /\ UNCHANGED << target, world, spoilt, faults >>

(* The snapshot of the file shows what was written, or another generation. *)
Confirm(p) ==
    LET me == proc[p]
        is == [me EXCEPT !.snap = me.staged] IN
    /\ me.mode = "confirming"
    /\ \/ /\ ~me.current
          /\ IF me.sequel = "exit" THEN Stops(p) ELSE Goes(p, "failing")
       \/ /\ me.current
          /\ me.sequel = "call"
          /\ proc' = [proc EXCEPT ![p] = [is EXCEPT !.mode = "calling"]]
       \/ /\ me.current
          /\ me.sequel = "next"
          /\ proc' = [proc EXCEPT ![p] =
                          [is EXCEPT !.mode = "work", !.step = @ + 1]]
       \/ /\ me.current
          /\ me.sequel = "fail" \/ (me.sequel = "phase" /\ me.signal)
          /\ proc' = [proc EXCEPT ![p] = [is EXCEPT !.mode = "failing"]]
       \/ /\ me.current
          /\ me.sequel = "phase" /\ ~me.signal
          /\ IF me.staged.phase = Completed
             THEN Stops(p)
             ELSE proc' = [proc EXCEPT ![p] =
                               [is EXCEPT !.mode = "work", !.step = 1]]
       \/ /\ me.current
          /\ me.sequel = "exit"
          /\ Stops(p)
    /\ UNCHANGED << journal, target, world, spoilt, faults >>

(* The catch block of runDurableComposedRun: a run that completed after    *)
(* all is reported as such, an incomplete one is left recoverable.         *)
GiveUp(p) ==
    /\ proc[p].mode = "failing"
    /\ IF proc[p].current /\ proc[p].snap.phase < Completed
       THEN Replace(p, MarkRecoverable(proc[p].snap), "exit")
       ELSE Stops(p)
    /\ UNCHANGED << journal, target, world, spoilt, faults >>

-----------------------------------------------------------------------------
(* Signals and crashes, and what happens at Spawnfile.                     *)

Interrupt(p) ==
    /\ proc[p].mode # "off"
    /\ ~proc[p].signal
    /\ Fault
    /\ proc' = [proc EXCEPT ![p].signal = TRUE]
    /\ UNCHANGED << journal, target, world, spoilt >>

Crash(p) ==
    /\ proc[p].mode # "off"
    /\ Fault
    /\ Stops(p)
    /\ UNCHANGED << journal, target, world, spoilt >>

(* A delivered operation takes effect; the terminal artifact is there once *)
(* the world has ended.                                                    *)
TakesEffect(op) ==
    /\ target[op] = "running"
    /\ op = "snapshot_public_artifact" => world # "running"
    /\ target' = [target EXCEPT ![op] = "done"]
    /\ UNCHANGED << journal, world, spoilt, proc, faults >>

(* It takes effect in a way that Simfile never accepts: the receipt does   *)
(* not verify, or says that the export or the cleanup is incomplete.       *)
IsSpoilt(op) ==
    /\ target[op] = "running"
    /\ Fault
    /\ op = "snapshot_public_artifact" => world # "running"
    /\ target' = [target EXCEPT ![op] = "done"]
    /\ spoilt' = spoilt \union {op}
    /\ UNCHANGED << journal, world, proc >>

(* It is rolled back, or, for a lifecycle command, left ambiguous.         *)
HasNoEffect(op) ==
    /\ target[op] = "running"
    /\ Fault
    /\ \/ target' = [target EXCEPT ![op] = "absent"]
       \/ /\ op \in LifecycleOps
          /\ target' = [target EXCEPT ![op] = "ambiguous"]
    /\ UNCHANGED << journal, world, spoilt, proc >>

WorldEnds ==
    /\ world = "running"
    /\ target["activate_topology"] = "done"
    /\ world' \in {"completed", "failed"}
    /\ UNCHANGED << journal, target, spoilt, proc, faults >>

-----------------------------------------------------------------------------
MakeCall(p, op) ==
    \/ HasReceipt(p, op)
    \/ Intend(p, op)
    \/ LookUp(p, op)
    \/ PrepareAgain(p, op)
    \/ LifecycleLookUp(p, op)
    \/ AskDirectly(p, op)

(* What a process does when nothing goes wrong around it. *)
Work(p) ==
    \/ Commit(p)
    \/ "export_evidence_volume" \in spoilt /\ CannotLayOut(p)
    \/ Overtaken(p)
    \/ \E op \in Operation : MakeCall(p, op)
    \/ \E op \in LifecycleOps \union TargetOps :
          proc[p].signal /\ LookUpFails(p, op)
    \/ Deliver(p)
    \/ Return(p)
    \/ CallEnds(p)
    \/ CheckReplace(p)
    \/ Rename(p)
    \/ Confirm(p)
    \/ GiveUp(p)

Disturbance(p) ==
    \/ \E op \in LifecycleOps \union TargetOps :
          ~proc[p].signal /\ LookUpFails(p, op)
    \/ "export_evidence_volume" \notin spoilt /\ CannotLayOut(p)
    \/ CallBreaks(p)
    \/ ReceiptRejected(p)
    \/ Interrupt(p)
    \/ Crash(p)

Spawnfile ==
    \/ \E op \in Operation : TakesEffect(op) \/ IsSpoilt(op) \/ HasNoEffect(op)
    \/ WorldEnds

Next == Spawnfile \/ \E p \in Procs : Start(p) \/ Work(p) \/ Disturbance(p)

Spec == Init /\ [][Next]_vars

-----------------------------------------------------------------------------
(* Properties.                                                             *)

(* A durable phase stands on the effects of every call that leads to it,   *)
(* for the file and for whatever a session holds of it.                    *)
EffectBeforePhase ==
    /\ \A op \in CallsThrough(journal.phase) : target[op] = "done"
    /\ \A p \in Procs :
          proc[p].mode # "off" =>
              \A op \in CallsThrough(proc[p].snap.phase) : target[op] = "done"

(* Receipts are kept with the phases: a journaled operation of a stage     *)
(* that is durable is recorded as completed, and nothing is recorded as    *)
(* completed that has not taken effect (persist merges the phase into the  *)
(* session's journal, which has seen the operations).                      *)
ReceiptsKept ==
    \A op \in JournaledOps :
        /\ op \in CallsThrough(journal.phase) => journal.ops[op] = "completed"
        /\ journal.ops[op] = "completed" => target[op] = "done"

(* Nothing happens at the target that the journal could forget: a crash    *)
(* always finds the intent of an operation that was delivered.             *)
IntentDurable ==
    \A op \in JournaledOps :
        target[op] # "absent" => journal.ops[op] # "none"

(* Whatever is taken away from the run, both owners' evidence is out first *)
(* (cleanupComposedRun requires both exports).                             *)
EvidenceFirst ==
    (\E op \in ReleasingOps : target[op] # "absent")
        => target["export_evidence_volume"] = "done"
           /\ target["artifacts_export"] = "done"

(* Recovery never repeats a target or lifecycle operation whose earlier    *)
(* attempt is in flight or has taken effect.                               *)
NoBlindRetry ==
    [][\A p \in Procs :
          proc[p].mode = "calling" /\ proc'[p].mode = "waiting"
            /\ NextCall(p) \in TargetOps \union LifecycleOps
          => target[NextCall(p)] = "absent"]_vars

(* A replacement never overwrites a generation its session has not seen    *)
(* (journalSession: "never overwrites a hostile intervening generation").  *)
NeverOverwritesIntervening ==
    [][\A p \in Procs :
          proc[p].mode = "renaming" /\ proc'[p].mode = "confirming"
          => proc[p].current]_vars

(* The run is the abstract one: effects in lifecycle order, one durable    *)
(* phase at a time, through every crash and recovery.                      *)
Abstract == INSTANCE DurableRun
                WITH phase <- journal.phase,
                     applied <- {op \in Operation : target[op] = "done"}
ImplementsDurableRun == Abstract!RunSpec
===============================================================================
