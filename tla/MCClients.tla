------------------------------ MODULE MCClients ------------------------------
(***************************************************************************)
(* Those who are told what happens in a run, in one run of TLC: a client   *)
(* that follows the files of a run, the writer of the composed run's       *)
(* viewer data among those files, the agents that call a world, the client *)
(* of the Moltnet machine, the world's own posts to Moltnet, whoever waits *)
(* for the world's end, the page that shows a run and the map with its     *)
(* playhead.  A behaviour is one of these eight.                           *)
(***************************************************************************)
EXTENDS LiveFollow, LiveProjection, WorldCall, WorldDelivery, SupervisedCall,
        ReplayShell, SpatialPlayback

Plain == [wellFormed |-> TRUE, keysOnce |-> TRUE, depth |-> 1, bytes |-> 2]
Msg(operation, request, body, id, wake, writing) ==
  [operation |-> operation, fields |-> Needs(operation), request |-> request,
   body |-> body, id |-> id, wake |-> wake, writing |-> writing]
Claim1 == Msg("claim", "none", "none", 1, 1, Plain)
Claim2 == Msg("claim", "none", "none", 2, 2, Plain)
CallMessages ==
  [p1 |-> {Claim1, Claim2, Msg("act", "r1", "b1", 0, 0, Plain), Msg("act", "r1", "b2", 0, 0, Plain),
           Msg("act", "r2", "b1", 0, 0, [Plain EXCEPT !.keysOnce = FALSE]),
           Msg("ledger", "none", "none", 0, 0, Plain)},
   p2 |-> {Msg("act", "r1", "b1", 0, 0, Plain)}]

Frame(c, operation) ==
  [version |-> "moltnet.machine.v1", correlation_id |-> c, operation |-> operation,
   fields |-> {"version", "correlation_id", "operation", operation},
   payloads |-> {operation}, payloadFits |-> TRUE, size |-> "fits", keysOnce |-> TRUE]
MachineOddities == {Frame("a", "read"), [Frame("b", "read") EXCEPT !.keysOnce = FALSE]}
MachineOperations == [c \in {"a", "b"} |-> IF c = "a" THEN "send_nudge" ELSE "read"]

RunEvent(id, kind, scope) ==
  [id |-> id, kind |-> kind, scope |-> scope, network |-> "net", wellFormed |-> TRUE]
RunEvents == <<RunEvent("e1", "world.message", "hall"), RunEvent("e2", "sim.tick", "hall"),
               RunEvent("e3", "world.dm", "ann"), RunEvent("e4", "world.message", "hall")>>

ShortRecord ==
  [times |-> <<0, 1, 1, 4>>, ticks |-> <<1, 0, 2, 0>>, samples |-> <<1, 2>>, unit |-> 4,
   chat |-> TRUE]
RunRecords ==
  {ShortRecord,
   [times |-> <<0, 9>>, ticks |-> <<1, 0>>, samples |-> <<1, 3>>, unit |-> 4,
    chat |-> FALSE],
   [times |-> <<>>, ticks |-> <<>>, samples |-> <<1, 2, 4>>, unit |-> 6,
    chat |-> FALSE]}
PastedLinks ==
  {NoLink, [at |-> <<"event", 2>>, sel |-> "a", portals |-> <<"a", "a">>, panel |-> "map"]}
SampleTicks == <<1, 2, 5>>

VARIABLE part  \* which of the eight this behaviour is one of

allVars == <<vars, projectionVars, callVars, machineVars, deliveryVars, supervisedVars,
             shellVars, playbackVars, part>>

Following(A) == part = "follow" /\ A
  /\ UNCHANGED <<part, projectionVars, callVars, machineVars, deliveryVars,
                 supervisedVars, shellVars, playbackVars>>
Projecting(A) == part = "projection" /\ A
  /\ UNCHANGED <<part, vars, callVars, machineVars, deliveryVars,
                 supervisedVars, shellVars, playbackVars>>
Calling(A) == part = "call" /\ A
  /\ UNCHANGED <<part, vars, projectionVars, machineVars, deliveryVars,
                 supervisedVars, shellVars, playbackVars>>
Machine(A) == part = "machine" /\ A
  /\ UNCHANGED <<part, vars, projectionVars, callVars, deliveryVars,
                 supervisedVars, shellVars, playbackVars>>
Delivering(A) == part = "delivery" /\ A
  /\ UNCHANGED <<part, vars, projectionVars, callVars, machineVars,
                 supervisedVars, shellVars, playbackVars>>
Supervising(A) == part = "supervised" /\ A
  /\ UNCHANGED <<part, vars, projectionVars, callVars, machineVars,
                 deliveryVars, shellVars, playbackVars>>
Showing(A) == part = "page" /\ A
  /\ UNCHANGED <<part, vars, projectionVars, callVars, machineVars,
                 deliveryVars, supervisedVars, playbackVars>>
Mapping(A) == part = "map" /\ A
  /\ UNCHANGED <<part, vars, projectionVars, callVars, machineVars,
                 deliveryVars, supervisedVars, shellVars>>

PartInit ==
  part \in {"follow", "projection", "call", "machine", "delivery", "supervised", "page",
            "map"}

\* The parts that do not run begin in one state each.
Resting ==
  /\ part # "page" => recording.record = ShortRecord /\ recording.sealed /\ address = NoLink
  /\ part # "map" => viewed.n = 0 /\ controls.still

ClientsInit ==
  PartInit /\ Init /\ ProjectionInit /\ CallInit /\ MachineInit /\ DeliveryInit
  /\ SupervisedInit /\ ShellInit /\ PlaybackInit /\ Resting
ClientsNext ==
  \/ Following(Next) \/ Projecting(ProjectionNext) \/ Calling(CallNext)
  \/ Machine(MachineNext) \/ Delivering(DeliveryNext)
  \/ Supervising(SupervisedNext) \/ Showing(ShellNext) \/ Mapping(PlaybackNext)

Clients == ClientsInit /\ [][ClientsNext]_allVars

(* The browser's frames keep coming as long as something is to be moved,   *)
(* and the playhead's idle timer fires: weak fairness of PlayFrame,        *)
(* AnimationFrame and DrainFires, written with their guards.               *)
FrameDue == Mounted(screen) /\ controls.pb.playing /\ screen.n > 1
FairBrowser ==
  /\ []<>(part # "page" \/ ~ShellGoing) \/ []<><<Showing(PlayFrame)>>_shellVars
  /\ []<>(part # "map" \/ ~FrameDue) \/ []<><<Mapping(AnimationFrame)>>_playbackVars
  /\ []<>(part # "map" \/ ~controls.timer) \/ []<><<Mapping(DrainFires)>>_playbackVars

(* The fairness of FairSpec, FairProjection, MachineFairness and           *)
(* SupervisedFairness for the one that runs.                               *)
FairClients ==
  /\ Clients /\ FairBrowser
  /\ WF_vars(Following(FollowSeal)) /\ WF_vars(Following(Follow))
  /\ WF_projectionVars(Projecting(PauseWorld))
  /\ WF_projectionVars(Projecting(TerminalCapture))
  /\ WF_projectionVars(Projecting(Publish))
  /\ WF_projectionVars(Projecting(Complete))
  /\ WF_machineVars(Machine(ExitSeen)) /\ WF_machineVars(Machine(Deadline))
  /\ WF_machineVars(Machine(ForceKill))
  /\ WF_supervisedVars(Supervising(TimeoutFires))
  /\ WF_supervisedVars(Supervising(KillFires))
  /\ WF_supervisedVars(Supervising(PollFires))
  /\ WF_supervisedVars(Supervising(GiveUp))
  /\ WF_supervisedVars(Supervising(CancelWait("timeout")))

(* Everyone who waits is told in the end: the stream of a follower ends    *)
(* once the run is sealed, however slow its client is (runLiveFollow.ts);  *)
(* no failure of a capture or a write keeps a run from completing once its *)
(* world has ended (liveViewerProjection.ts); and once the machine's child *)
(* is gone, its output ended or its client closed, every promise is        *)
(* settled and the child gone (client.ts); whoever waits for a world's end *)
(* is told by the operator timeout, and the child that asked answered for, *)
(* whatever its processes do (supervisionTimeout.ts, process.ts).  And a   *)
(* cursor or a playhead that is played comes to rest (ScrubBar.tsx,        *)
(* SpatialPlaybackControls.tsx).                                           *)
ClientsSettle ==
  (\/ part = "follow" /\ run.place = "sealed"
   \/ part = "projection" /\ world.final
   \/ part = "machine" /\ MachineGoing
   \/ part = "supervised" /\ SupervisionGoing
   \/ part = "page" /\ ShellGoing
   \/ part = "map" /\ PlayheadGoing)
  ~> (\/ part = "follow" /\ follow.ended
      \/ part = "projection" /\ record.stage \in {"sealed", "failed", "aborted"}
      \/ part = "machine" /\ MachineGone
      \/ part = "supervised" /\ SupervisionGone
      \/ part = "page" /\ ShellRests
      \/ part = "map" /\ PlayheadRests)
=============================================================================
