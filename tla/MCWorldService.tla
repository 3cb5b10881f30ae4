---------------------------- MODULE MCWorldService ----------------------------
(***************************************************************************)
(* The world and the listener in front of it, in one run: the runtime of a *)
(* world, or the MCP listener with its pool of sessions.  A behaviour is   *)
(* one or the other.  The listener has as many sessions as slots and as    *)
(* identifiers, so that the pool fills up and an identifier passes on.     *)
(***************************************************************************)
EXTENDS WorldCheckpoint, McpListener, TLC

CONSTANTS p1, p2, d1, d2

MCPrincipals == {p1, p2}
MCDecisions == {d1, d2}
MCOwner == d1 :> p1 @@ d2 :> p2

Acts(A) == ListenerInit /\ A /\ UNCHANGED listenerVars
Serves(A) == Init /\ A /\ UNCHANGED vars

WorldServiceInit == Init /\ ListenerInit

WorldService ==
  /\ WorldServiceInit
  /\ [][Acts(CheckpointNext) \/ Serves(ListenerNext)]_<<vars, listenerVars>>

(* The fairness of FairSpec and of FairListener, for the one that runs. *)
FairWorldService ==
  /\ WorldService
  /\ WF_vars(Acts(ActStage \/ EndRead))
  /\ SF_vars(Acts(BeginStep \/ StepCannotBegin))
  /\ WF_vars(Acts(StepStage))
  /\ SF_vars(Acts(\E applied \in SUBSET Sequences : StepReturns(applied)))
  /\ \A r \in Request : WF_listenerVars(Serves(Proceed(r)))
  /\ \A s \in McpSession : WF_listenerVars(Serves(IdleFires(s)))
  /\ \A s \in McpSession : WF_listenerVars(Serves(CloseSettles(s)))

(* What the service has taken on it finishes: an accepted action is        *)
(* settled (clockAuthority.ts), and a listener that is told to close does  *)
(* close (mcpSessionLifecycle.ts).                                         *)
ServiceSettles == AcceptedIsSettled /\ CloseCompletes
=============================================================================
