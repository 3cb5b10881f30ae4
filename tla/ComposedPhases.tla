---------------------------- MODULE ComposedPhases ----------------------------
(***************************************************************************)
(* The lifecycle of a composed run: the order of its durable phases and    *)
(* the calls on Spawnfile that must succeed before each one is committed.  *)
(* A phase is its index, as in composedRunPhaseIndex.                      *)
(***************************************************************************)
EXTENDS Naturals, Sequences

PhaseNames ==
    << "requested", "prepared", "world_created", "world_started_paused",
       "world_ready", "organization_started", "organization_ready",
       "topology_verified", "activated", "tick_1", "running", "terminal",
       "world_paused", "world_evidence_exported",
       "organization_evidence_exported", "cleaned", "completed" >>

Completed == 16
Phase == 0 .. Completed

(* Spawnfile keeps the outcome of these under the request's idempotency   *)
(* key, and Simfile journals an intent before it calls one.               *)
TargetOps == {"create_world_service", "start_world_service",
              "attach_organization", "stop_world_service",
              "export_evidence_volume", "detach_organization",
              "revoke_secret_bindings", "cleanup_run"}

(* The preparation call, journaled as a bootstrap operation. *)
Preparation == "prepare_composed_run"

(* Commands with a lifecycle invocation id, looked up but not journaled.  *)
LifecycleOps == {"up", "artifacts_export", "down"}

(* Everything else is asked again by whoever needs the answer. *)
DirectOps == {"query_world_readiness", "attest_topology",
              "activate_topology", "query_world_clock",
              "snapshot_public_artifact"}

JournaledOps == TargetOps \union {Preparation}
Operation == JournaledOps \union LifecycleOps \union DirectOps

(* Calls that take something away from the run. *)
ReleasingOps == {"detach_organization", "down", "revoke_secret_bindings",
                 "cleanup_run"}

(* The calls that lead into each phase, in the order they are made, as the *)
(* functions of run.ts make them.                                          *)
PreparationCalls ==
    [ prepared |-> << Preparation >> ]

WorldStartupCalls ==
    [ world_created        |-> << "create_world_service" >>,
      world_started_paused |-> << "start_world_service" >>,
      world_ready          |-> << "query_world_readiness" >> ]

OrganizationStartupCalls ==
    [ organization_started |-> << "up", "attach_organization" >>,
      organization_ready   |-> << >> ]

TopologyCalls ==
    [ topology_verified |-> << "attest_topology" >>,
      activated         |-> << "activate_topology" >>,
      tick_1            |-> << "query_world_clock" >> ]

SupervisionCalls ==
    [ running  |-> << >>,
      terminal |-> << "snapshot_public_artifact" >> ]

WorldFinalizationCalls ==
    [ world_paused            |-> << "stop_world_service" >>,
      world_evidence_exported |-> << "export_evidence_volume" >> ]

OrganizationFinalizationCalls ==
    [ organization_evidence_exported |-> << "artifacts_export" >> ]

(* The stop_world step of the cleanup asks nothing of Spawnfile: the world *)
(* was stopped to be paused.                                               *)
CleanupCalls ==
    [ cleaned |-> << "detach_organization", "down",
                     "revoke_secret_bindings", "cleanup_run" >> ]

(* The calls between phase k - 1 and phase k; there are none before        *)
(* requested and completed.                                                *)
Calls(k) ==
    LET name == PhaseNames[k + 1] IN
    CASE name \in DOMAIN PreparationCalls  -> PreparationCalls[name]
      [] name \in DOMAIN WorldStartupCalls -> WorldStartupCalls[name]
      [] name \in DOMAIN OrganizationStartupCalls ->
            OrganizationStartupCalls[name]
      [] name \in DOMAIN TopologyCalls     -> TopologyCalls[name]
      [] name \in DOMAIN SupervisionCalls  -> SupervisionCalls[name]
      [] name \in DOMAIN WorldFinalizationCalls ->
            WorldFinalizationCalls[name]
      [] name \in DOMAIN OrganizationFinalizationCalls ->
            OrganizationFinalizationCalls[name]
      [] name \in DOMAIN CleanupCalls      -> CleanupCalls[name]
      [] OTHER                             -> << >>

(* Everything a run in durable phase k must have done. *)
CallsThrough(k) ==
    UNION { {Calls(j)[i] : i \in DOMAIN Calls(j)} : j \in 0 .. k }
===============================================================================
