--------------------------- MODULE ComposedCommand ---------------------------
(***************************************************************************)
(* The two commands that own a composed run, `simfile run' and `simfile    *)
(* recover', around the lifecycle of ComposedRun: the private support      *)
(* root, the journal in it, the bootstrap operations that resolve the      *)
(* target, prepare the bundle and provision credentials, the binding of    *)
(* the execution, and the run record that a completed run is sealed in.    *)
(*                                                                         *)
(* One command works at a time (ComposedRun is checked with two on its     *)
(* own), so Overlap is FALSE wherever this module is used, and replacing   *)
(* the journal is one step.  Spawnfile, the disk and the wall clock are    *)
(* external.                                                               *)
(***************************************************************************)
EXTENDS ComposedRun

VARIABLES
    cmd,        \* the position of each command
    root,       \* the support root on disk
    boot,       \* the bootstrap part of the journal
    bundle,     \* the bundle at Spawnfile, under its idempotency key
    grants,     \* the credentials provisioned for this journal
    record,     \* the run record at the output path
    outside     \* what the target resolves to, the wall clock, and whether
                \* credentials are live that no journal names (adrift)

commandVars == << cmd, root, boot, bundle, grants, record, outside >>
allVars == << vars, commandVars >>

Lifecycle == << journal, target, world, spoilt, proc >>

(* The bootstrap operations, in the order they must be journaled; the      *)
(* fifth, the preparation, belongs to the lifecycle.                       *)
BootstrapKinds == << "resolve_target_config", "select_target",
                     "prepare_container_bundle", "provision_credentials" >>
Bootstrap == {BootstrapKinds[i] : i \in DOMAIN BootstrapKinds}
BootState == {"none", "intent_durable", "lookup_required", "completed",
              "ambiguous"}

(* The target configuration is one of two; 0 stands for none. *)
Config == {1, 2}

At == {"idle", "preparing", "reconstructing", "resolve", "resolving",
       "select", "selecting", "bundle", "looking", "bundling", "file",
       "writing", "credentials", "provisioning", "bind", "record", "ready",
       "lifecycle", "failing", "sealing", "aborting", "throwing"}

Idle == [kind |-> "run", at |-> "idle", config |-> 0]
NoJournal ==
    [ops |-> [k \in Bootstrap |-> "none"], receipt |-> 0, execution |-> 0]
NoRoot == [dir |-> FALSE, journal |-> FALSE, selected |-> "absent"]
NoGrants == [inflight |-> FALSE, count |-> 0, live |-> FALSE]

CommandTypeOK ==
    /\ TypeOK
    /\ cmd \in [Procs -> [kind : {"run", "recover"}, at : At,
                          config : {0} \union Config]]
    /\ root \in [dir : BOOLEAN, journal : BOOLEAN,
                 selected : {"absent", "torn", "whole"}]
    /\ boot \in [ops : [Bootstrap -> BootState], receipt : {0} \union Config,
                 execution : {0} \union Config]
    /\ bundle \in {"absent", "running", "done"}
    /\ grants \in [inflight : BOOLEAN, count : 0 .. 2, live : BOOLEAN]
    /\ record \in {"absent", "staging", "sealed"}
    /\ outside \in [config : Config, behind : BOOLEAN, adrift : BOOLEAN]

CommandInit ==
    /\ Init
    /\ cmd = [p \in Procs |-> Idle]
    /\ root = NoRoot
    /\ boot = NoJournal
    /\ bundle = "absent"
    /\ grants = NoGrants
    /\ record = "absent"
    /\ outside = [config |-> 1, behind |-> FALSE, adrift |-> FALSE]

-----------------------------------------------------------------------------
(* Helpers.                                                                *)

IsAt(p, place) == cmd[p].at = place
Moves(p, place) == cmd' = [cmd EXCEPT ![p].at = place]
Exits(p) == cmd' = [cmd EXCEPT ![p] = Idle]

State(kind) == boot.ops[kind]
Observe(kind, state) == boot' = [boot EXCEPT !.ops[kind] = state]

(* journalBootstrapOperationIntent: the kinds come in order, each after    *)
(* the completion of the one before it, all before the execution is bound. *)
MayIntend(kind) ==
    /\ State(kind) = "none"
    /\ \A i \in DOMAIN BootstrapKinds :
          (\E j \in DOMAIN BootstrapKinds : BootstrapKinds[j] = kind /\ i < j)
              => State(BootstrapKinds[i]) = "completed"
    /\ boot.execution = 0

(* An operation that is not there yet gets its intent before it is asked.  *)
IntendOnce(kind) ==
    IF State(kind) = "none"
    THEN MayIntend(kind) /\ Observe(kind, "intent_durable")
    ELSE UNCHANGED boot

-----------------------------------------------------------------------------
(* Starting a command.                                                     *)

(* run: the output path and the support root must both be free.            *)
RunStart(p) ==
    /\ IsAt(p, "idle") /\ \A q \in Procs : IsAt(q, "idle")
    /\ record = "absent"
    /\ ~root.dir
    /\ root' = [root EXCEPT !.dir = TRUE]
    /\ cmd' = [cmd EXCEPT ![p] = [Idle EXCEPT !.at = "preparing"]]
    /\ UNCHANGED << Lifecycle, faults, boot, bundle, grants, record, outside >>

(* The local preparation ends in the genesis of the journal.               *)
Genesis(p) ==
    /\ IsAt(p, "preparing")
    /\ root' = [root EXCEPT !.journal = TRUE]
    /\ Moves(p, "resolve")
    /\ UNCHANGED << Lifecycle, faults, boot, bundle, grants, record, outside >>

(* It fails: withComposedSupportRoot takes the root away, if it can.       *)
PreparationFails(p) ==
    /\ IsAt(p, "preparing")
    /\ Fault
    /\ root' \in {NoRoot, root}
    /\ Exits(p)
    /\ UNCHANGED << Lifecycle, boot, bundle, grants, record, outside >>

(* recover: the journal of an incomplete run is opened.                    *)
RecoverStart(p) ==
    /\ IsAt(p, "idle") /\ \A q \in Procs : IsAt(q, "idle")
    /\ root.journal
    /\ journal.phase < Completed
    /\ cmd' = [cmd EXCEPT ![p] = [Idle EXCEPT !.kind = "recover",
                                              !.at = "reconstructing"]]
    /\ UNCHANGED << Lifecycle, faults, root, boot, bundle, grants, record,
                    outside >>

(* Sources, plan, report and request are those of the capsule.             *)
Reconstruct(p) ==
    /\ IsAt(p, "reconstructing")
    /\ Moves(p, "resolve")
    /\ UNCHANGED << Lifecycle, faults, root, boot, bundle, grants, record,
                    outside >>

-----------------------------------------------------------------------------
(* The bootstrap operations.                                               *)

Resolve(p) ==
    /\ IsAt(p, "resolve")
    /\ IntendOnce("resolve_target_config")
    /\ Moves(p, "resolving")
    /\ UNCHANGED << Lifecycle, faults, root, bundle, grants, record, outside >>

(* Faulty: a resolution that was completed before is not compared. *)
FaultyResolved(p) ==
    /\ IsAt(p, "resolving")
    /\ boot' = [boot EXCEPT !.ops["resolve_target_config"] = "completed",
                            !.receipt = IF @ = 0 THEN outside.config ELSE @]
    /\ cmd' = [cmd EXCEPT ![p].at = "select", ![p].config = outside.config]
    /\ UNCHANGED << Lifecycle, faults, root, bundle, grants, record, outside >>

(* The target is resolved anew by every command, and must resolve to what  *)
(* the journal says it did.                                                *)
Resolved(p) ==
    LET seen == outside.config
        kind == "resolve_target_config" IN
    /\ IsAt(p, "resolving")
    /\ \/ /\ State(kind) # "completed"
          /\ boot' = [boot EXCEPT !.ops[kind] = "completed", !.receipt = seen]
          /\ cmd' = [cmd EXCEPT ![p].at = "select", ![p].config = seen]
       \/ /\ State(kind) = "completed"
          /\ boot.receipt = seen
          /\ cmd' = [cmd EXCEPT ![p].at = "select", ![p].config = seen]
          /\ UNCHANGED boot
       \/ /\ State(kind) = "completed"
          /\ boot.receipt # seen
          /\ Moves(p, "failing")
          /\ UNCHANGED boot
    /\ UNCHANGED << Lifecycle, faults, root, bundle, grants, record, outside >>

Select(p) ==
    /\ IsAt(p, "select")
    /\ IntendOnce("select_target")
    /\ Moves(p, IF State("select_target") = "completed" THEN "bundle"
                                                        ELSE "selecting")
    /\ UNCHANGED << Lifecycle, faults, root, bundle, grants, record, outside >>

(* Asked again under its key, without a lookup. *)
Selected(p) ==
    /\ IsAt(p, "selecting")
    /\ Observe("select_target", "completed")
    /\ Moves(p, "bundle")
    /\ UNCHANGED << Lifecycle, faults, root, bundle, grants, record, outside >>

Bundle(p) ==
    /\ IsAt(p, "bundle")
    /\ IntendOnce("prepare_container_bundle")
    /\ Moves(p, IF State("prepare_container_bundle") = "completed"
                THEN "file" ELSE "looking")
    /\ UNCHANGED << Lifecycle, faults, root, bundle, grants, record, outside >>

(* The lookup decides between the receipt, recover and prepare.            *)
LookUpBundle(p) ==
    /\ IsAt(p, "looking")
    /\ \/ /\ bundle = "done"
          /\ Observe("prepare_container_bundle", "completed")
          /\ Moves(p, "file")
          /\ UNCHANGED bundle
       \/ /\ bundle # "done"
          /\ bundle' = "running"
          /\ Moves(p, "bundling")
          /\ UNCHANGED boot
    /\ UNCHANGED << Lifecycle, faults, root, grants, record, outside >>

Bundled(p) ==
    /\ IsAt(p, "bundling")
    /\ \/ /\ bundle = "done"
          /\ Observe("prepare_container_bundle", "completed")
          /\ Moves(p, "file")
       \/ /\ bundle = "absent"
          /\ Observe("prepare_container_bundle", "lookup_required")
          /\ Moves(p, "failing")
    /\ UNCHANGED << Lifecycle, faults, root, bundle, grants, record, outside >>

(* writeOrVerifyPrivateComposedJson creates the file, then fills it.       *)
SelectedFile(p) ==
    /\ IsAt(p, "file")
    /\ \/ /\ root.selected = "absent"
          /\ root' = [root EXCEPT !.selected = "torn"]
          /\ Moves(p, "writing")
       \/ /\ root.selected = "torn"
          /\ Moves(p, "failing")
          /\ UNCHANGED root
       \/ /\ root.selected = "whole"
          /\ Moves(p, "credentials")
          /\ UNCHANGED root
    /\ UNCHANGED << Lifecycle, faults, boot, bundle, grants, record, outside >>

FileWritten(p) ==
    /\ IsAt(p, "writing")
    /\ root' = [root EXCEPT !.selected = "whole"]
    /\ Moves(p, "credentials")
    /\ UNCHANGED << Lifecycle, faults, boot, bundle, grants, record, outside >>

(* Faulty: an attempt that left no receipt is simply made again. *)
FaultyCredentials(p) ==
    /\ IsAt(p, "credentials")
    /\ \/ /\ State("provision_credentials") = "completed"
          /\ Moves(p, "bind")
          /\ UNCHANGED << boot, grants >>
       \/ /\ State("provision_credentials") # "completed"
          /\ Observe("provision_credentials", "intent_durable")
          /\ grants' = [grants EXCEPT !.inflight = TRUE]
          /\ Moves(p, "provisioning")
    /\ UNCHANGED << Lifecycle, faults, root, bundle, record, outside >>

(* Provisioning has no lookup: an earlier attempt without a receipt makes  *)
(* its outcome ambiguous for good.                                         *)
Credentials(p) ==
    LET kind == "provision_credentials" IN
    /\ IsAt(p, "credentials")
    /\ \/ /\ State(kind) = "completed"
          /\ Moves(p, "bind")
          /\ UNCHANGED << boot, grants >>
       \/ /\ State(kind) \notin {"none", "completed"}
          /\ Observe(kind, "ambiguous")
          /\ Moves(p, "failing")
          /\ UNCHANGED grants
       \/ /\ MayIntend(kind)
          /\ Observe(kind, "intent_durable")
          /\ grants' = [grants EXCEPT !.inflight = TRUE]
          /\ Moves(p, "provisioning")
    /\ UNCHANGED << Lifecycle, faults, root, bundle, record, outside >>

Provisioned(p) ==
    /\ IsAt(p, "provisioning")
    /\ ~grants.inflight
    /\ \/ /\ grants.live
          /\ Observe("provision_credentials", "completed")
          /\ Moves(p, "bind")
       \/ /\ ~grants.live
          /\ Observe("provision_credentials", "ambiguous")
          /\ Moves(p, "failing")
    /\ UNCHANGED << Lifecycle, faults, root, bundle, grants, record, outside >>

(* The execution that a command would run: that of the target it resolved. *)
BoundExecution(p) == cmd[p].config

(* The execution is committed to the journal once, and found there by      *)
(* every later command.  It cannot differ: the resolution would have.      *)
Bind(p) ==
    /\ IsAt(p, "bind")
    /\ \/ /\ boot.execution = 0
          /\ journal.phase = 0
          /\ \A k \in Bootstrap : State(k) = "completed"
          /\ boot' = [boot EXCEPT !.execution = BoundExecution(p)]
          /\ Moves(p, IF cmd[p].kind = "run" THEN "record" ELSE "ready")
       \/ /\ boot.execution = BoundExecution(p)
          /\ Moves(p, IF cmd[p].kind = "run" THEN "record" ELSE "ready")
          /\ UNCHANGED boot
    /\ UNCHANGED << Lifecycle, faults, root, bundle, grants, record, outside >>

(* A bootstrap call throws.  Its observation, if it has one, is journaled. *)
BootstrapFails(p) ==
    LET asked == [ resolving    |-> "resolve_target_config",
                   selecting    |-> "select_target",
                   looking      |-> "prepare_container_bundle",
                   bundling     |-> "prepare_container_bundle",
                   provisioning |-> "provision_credentials" ]
        at == cmd[p].at IN
    /\ at \in DOMAIN asked \union {"reconstructing", "credentials"}
    /\ Fault
    /\ IF at \in DOMAIN asked /\ State(asked[at]) # "completed"
       THEN Observe(asked[at], IF at = "provisioning" THEN "ambiguous"
                                                      ELSE "lookup_required")
       ELSE UNCHANGED boot
    /\ Moves(p, "failing")
    /\ UNCHANGED << Lifecycle, root, bundle, grants, record, outside >>

(* preserveComposedBootstrapFailure leaves the journal recoverable, or, if *)
(* that fails too, as it was.                                              *)
Preserve(p) ==
    /\ IsAt(p, "failing")
    /\ \/ journal' = MarkRecoverable(journal) /\ UNCHANGED faults
       \/ Fault /\ UNCHANGED journal
    /\ Exits(p)
    /\ UNCHANGED << target, world, spoilt, proc, root, boot, bundle, grants, record,
                    outside >>

-----------------------------------------------------------------------------
(* The run record, and the lifecycle inside the command.                   *)

CreateRecord(p) ==
    /\ IsAt(p, "record")
    /\ record = "absent"
    /\ record' = "staging"
    /\ Moves(p, "ready")
    /\ UNCHANGED << Lifecycle, faults, root, boot, bundle, grants, outside >>

(* Without a record the run gives everything up: it revokes the credential *)
(* sources and removes the support root, each whether or not the other     *)
(* fails.  The removal may leave the root as it was, or without some of    *)
(* its files, which for a recovery is as good as a torn one; a credential  *)
(* that was not revoked outlives the journal that named it.                *)
RecordFails(p) ==
    /\ IsAt(p, "record")
    /\ Fault
    /\ root' \in {NoRoot, [root EXCEPT !.journal = FALSE],
                  [root EXCEPT !.selected = "torn"], root}
    /\ boot' = IF root'.journal THEN boot ELSE NoJournal
    /\ \E live \in {grants.live, FALSE} :
          /\ grants' = IF root'.journal THEN [grants EXCEPT !.live = live]
                                        ELSE NoGrants
          /\ outside' = [outside EXCEPT !.adrift = @ \/ (live /\ ~root'.journal)]
    /\ Exits(p)
    /\ UNCHANGED << Lifecycle, bundle, record >>

StartLifecycle(p) ==
    /\ IsAt(p, "ready")
    /\ Start(p)
    /\ Moves(p, "lifecycle")
    /\ UNCHANGED << root, boot, bundle, grants, record, outside >>

(* How the lifecycle of p ends when its process stops. *)
Outcome(p) ==
    IF ~proc[p].current THEN "throwing"
    ELSE IF journal.phase = Completed THEN "sealing" ELSE "aborting"

(* A step of the process of ComposedRun, and what it means to the command  *)
(* when it is the last one: recover has nothing left to do.                *)
Within(p, step, outcome) ==
    /\ IsAt(p, "lifecycle")
    /\ step
    /\ IF proc'[p].mode # "off" THEN UNCHANGED cmd
       ELSE IF cmd[p].kind = "run" THEN Moves(p, outcome) ELSE Exits(p)
    /\ UNCHANGED << root, boot, bundle, grants, record, outside >>

AtPhaseEnd(p) == proc[p].mode = "work" /\ StageDone(p)

(* A phase cannot be recorded at an earlier time than the one before it;   *)
(* by then its evidence is laid out.                                       *)
ClockRefusesPhase(p) ==
    /\ AtPhaseEnd(p)
    /\ outside.behind
    /\ Goes(p, "failing")
    /\ spoilt' = WithLaidOut(p)
    /\ UNCHANGED << journal, target, world, faults >>

(* Replacing the journal fails on the disk: before the rename the session  *)
(* keeps its generation, after it the file is no longer the one it knows.  *)
(* If the replacement was to leave the run recoverable, its process ends.  *)
JournalFails(p) ==
    /\ proc[p].mode \in {"replacing", "confirming"}
    /\ Fault
    /\ IF proc[p].sequel = "exit" THEN Stops(p)
       ELSE proc' = [proc EXCEPT
                ![p].mode = "failing",
                ![p].current = @ /\ proc[p].mode = "replacing"]
    /\ UNCHANGED << journal, target, world, spoilt >>

LifecycleWork(p) ==
    Within(p, \/ (AtPhaseEnd(p) => ~outside.behind) /\ Work(p)
              \/ ClockRefusesPhase(p), Outcome(p))

(* Crash ends the command, not only its lifecycle: see CommandCrash.       *)
Disturbed(p) == Disturbance(p) /\ proc'[p].mode # "off"

LifecycleDisturbed(p) ==
    \/ Within(p, Disturbed(p), Outcome(p))
    \/ Within(p, JournalFails(p), "throwing")

(* The end of `simfile run': a completed run is sealed into its record and *)
(* its sources are revoked; one left for recovery gives up its record and  *)
(* keeps its sources; one whose lifecycle threw gives up both.             *)
Finish(p) ==
    /\ \/ /\ IsAt(p, "sealing")
          /\ record' = "sealed"
          /\ grants' = [grants EXCEPT !.live = FALSE]
       \/ /\ IsAt(p, "aborting")
          /\ record' = "absent"
          /\ UNCHANGED grants
       \/ /\ IsAt(p, "throwing")
          /\ record' = "absent"
          /\ grants' = [grants EXCEPT !.live = FALSE]
    /\ Exits(p)
    /\ UNCHANGED << Lifecycle, faults, root, boot, bundle, outside >>

(* The evidence does not fit or the replay disagrees: the record stays     *)
(* where it is, and the sources are revoked on the way out, or cannot be.  *)
SealFails(p) ==
    /\ IsAt(p, "sealing")
    /\ Fault
    /\ record' \in {"staging", "sealed"}
    /\ grants' \in {grants, [grants EXCEPT !.live = FALSE]}
    /\ Exits(p)
    /\ UNCHANGED << Lifecycle, root, boot, bundle, outside >>

(* Giving up the record or the sources fails; the other is still given up. *)
CleanupFails(p) ==
    /\ cmd[p].at \in {"aborting", "throwing"}
    /\ Fault
    /\ record' \in {"staging", "absent"}
    /\ \/ UNCHANGED grants
       \/ IsAt(p, "throwing") /\ grants' = [grants EXCEPT !.live = FALSE]
    /\ Exits(p)
    /\ UNCHANGED << Lifecycle, root, boot, bundle, outside >>

-----------------------------------------------------------------------------
(* Everything around the commands.                                         *)

CommandCrash(p) ==
    /\ ~IsAt(p, "idle")
    /\ Fault
    /\ Stops(p)
    /\ Exits(p)
    /\ UNCHANGED << journal, target, world, spoilt, root, boot, bundle, grants, record,
                    outside >>

BundleTakesEffect ==
    /\ bundle = "running"
    /\ bundle' = "done"
    /\ UNCHANGED << Lifecycle, faults, cmd, root, boot, grants, record,
                    outside >>

BundleIsRolledBack ==
    /\ bundle = "running"
    /\ Fault
    /\ bundle' = "absent"
    /\ UNCHANGED << Lifecycle, cmd, root, boot, grants, record, outside >>

(* Provisioning ends at Spawnfile, whether or not its caller is there.     *)
Provision ==
    /\ grants.inflight
    /\ grants' = [inflight |-> FALSE, count |-> grants.count + 1, live |-> TRUE]
    /\ UNCHANGED << Lifecycle, faults, cmd, root, boot, bundle, record,
                    outside >>

ProvisionRefused ==
    /\ grants.inflight
    /\ Fault
    /\ grants' = [grants EXCEPT !.inflight = FALSE]
    /\ UNCHANGED << Lifecycle, cmd, root, boot, bundle, record, outside >>

TargetDrifts ==
    /\ Fault
    /\ outside' = [outside EXCEPT !.config = 3 - @]
    /\ UNCHANGED << Lifecycle, cmd, root, boot, bundle, grants, record >>

ClockStepsBack ==
    /\ ~outside.behind
    /\ Fault
    /\ outside' = [outside EXCEPT !.behind = TRUE]
    /\ UNCHANGED << Lifecycle, cmd, root, boot, bundle, grants, record >>

ClockCatchesUp ==
    /\ outside.behind
    /\ outside' = [outside EXCEPT !.behind = FALSE]
    /\ UNCHANGED << Lifecycle, faults, cmd, root, boot, bundle, grants,
                    record >>
-----------------------------------------------------------------------------
BootstrapWork(p) ==
    \/ Genesis(p) \/ Reconstruct(p)
    \/ Resolve(p) \/ Resolved(p)
    \/ Select(p) \/ Selected(p)
    \/ Bundle(p) \/ LookUpBundle(p) \/ Bundled(p)
    \/ SelectedFile(p) \/ FileWritten(p)
    \/ Credentials(p) \/ Provisioned(p)
    \/ Bind(p)
    \/ Preserve(p)

CommandWork(p) ==
    \/ BootstrapWork(p)
    \/ CreateRecord(p)
    \/ StartLifecycle(p)
    \/ LifecycleWork(p)
    \/ Finish(p)

CommandDisturbance(p) ==
    \/ PreparationFails(p)
    \/ BootstrapFails(p)
    \/ RecordFails(p)
    \/ LifecycleDisturbed(p)
    \/ SealFails(p)
    \/ CleanupFails(p)
    \/ CommandCrash(p)

Surroundings ==
    \/ Spawnfile /\ UNCHANGED commandVars
    \/ BundleTakesEffect \/ BundleIsRolledBack
    \/ Provision \/ ProvisionRefused
    \/ TargetDrifts \/ ClockStepsBack \/ ClockCatchesUp

CommandNext ==
    \/ Surroundings
    \/ \E p \in Procs :
          RunStart(p) \/ RecoverStart(p) \/ CommandWork(p)
             \/ CommandDisturbance(p)

CommandSpec == CommandInit /\ [][CommandNext]_allVars

(* The operator runs and recovers, a command runs on, what was delivered   *)
(* to Spawnfile ends, and the clock passes the last time it has shown.     *)
CommandFairSpec ==
    /\ CommandSpec
    /\ \A p \in Procs : /\ WF_allVars(RunStart(p))
                        /\ WF_allVars(RecoverStart(p))
                        /\ WF_allVars(CommandWork(p))
    /\ \A op \in Operation :
          WF_allVars(TakesEffect(op) /\ UNCHANGED commandVars)
    /\ WF_allVars(WorldEnds /\ UNCHANGED commandVars)
    /\ WF_allVars(BundleTakesEffect)
    /\ WF_allVars(Provision)
    /\ WF_allVars(ClockCatchesUp)

-----------------------------------------------------------------------------
(* Properties.                                                             *)

(* Durable authority comes before any mutation at the target or of its     *)
(* credentials (prepareLinkedComposedRun), and stays for as long as they   *)
(* do: whatever has been asked for can be found in a journal on disk.  The *)
(* one exception is a run whose record cannot be created: its root goes    *)
(* even when its credentials could not be revoked, and they live on with   *)
(* no journal that names them (adrift).  Of the target it asked nothing.   *)
AuthorityFirst ==
    /\ IntentDurable
    /\ grants.inflight \/ grants.live =>
          root.journal /\ State("provision_credentials") # "none"
    /\ (\E op \in Operation : target[op] # "absent") =>
          /\ root.journal /\ boot.execution # 0
          /\ \A p \in Procs : ~IsAt(p, "record")

(* One journal provisions credentials at most once, through any crash,     *)
(* recovery or late answer (provisionJournaledCredentials).                *)
CredentialsOnce == grants.count <= 1

(* Every command that works on the lifecycle does so with the target       *)
(* configuration that the journal's receipt and its bound execution name,  *)
(* however often the target was resolved since (finalizeComposedBootstrap).*)
BindingAgrees ==
    /\ boot.execution # 0 =>
          /\ \A k \in Bootstrap : State(k) = "completed"
          /\ boot.execution = boot.receipt
    /\ \A p \in Procs :
          cmd[p].at \in {"record", "ready", "lifecycle"} =>
              cmd[p].config = boot.execution /\ boot.execution # 0

(* The authority of a run is bound once: one set of credentials, and one   *)
(* configuration of the target.                                            *)
CredentialsBound == CredentialsOnce /\ BindingAgrees

(* The authority of a run: durable before anything is asked for in its     *)
(* name, and bound once for all the commands that work on it.              *)
AuthorityExact == AuthorityFirst /\ CredentialsBound

(* An operator who runs, and recovers whatever is left recoverable, sees   *)
(* the run complete after finitely many faults, unless it ended in one of  *)
(* the dead ends: nothing begun, a root without a journal, credentials     *)
(* ambiguous, a torn target file, another target configuration, a world    *)
(* that ended early, a lifecycle command whose outcome nobody knows, or an *)
(* operation that took effect, has not led to its phase, and whose outcome *)
(* every process refuses: a receipt that is not accepted, or evidence that *)
(* an earlier process laid out and did not commit.                         *)
CommandSettles ==
    <>[](\/ journal.phase = Completed
         \/ ~root.dir
         \/ root.dir /\ ~root.journal
         \/ State("provision_credentials") = "ambiguous"
         \/ root.selected = "torn"
         \/ boot.receipt \notin {0, outside.config}
         \/ world = "failed"
         \/ \E op \in LifecycleOps : target[op] = "ambiguous"
         \/ \E op \in spoilt : op \notin CallsThrough(journal.phase))
===============================================================================
