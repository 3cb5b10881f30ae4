----------------------------- MODULE WorldSidecar -----------------------------
(***************************************************************************)
(* The process that serves one world (sidecarEntrypoint.ts and the runner  *)
(* of runnableBundle.ts): it proves a disposable kernel, composes the live *)
(* world, publishes its readiness evidence, listens, and lets the world    *)
(* run once Spawnfile's activation marker is there.  It may be started     *)
(* again in the same evidence root after it stopped, failed or died.       *)
(***************************************************************************)
EXTENDS Naturals

CONSTANTS
    Worlds,         \* initial states a composer may produce
    MaxStarts,      \* bound: starts of the process
    MaxTicks        \* bound: ticks and claimed decisions of a world

Absent == "absent"

VARIABLES
    root,       \* the evidence root
    site,       \* the process
    before      \* the evidence the current start found there

sidecarVars == << root, site, before >>

NoReadiness == [there |-> FALSE, body |-> Absent, links |-> 0]

Down ==
    [ at |-> "down", world |-> Absent, proved |-> Absent, ticks |-> 0, claims |-> 0,
      listens |-> "no", controller |-> FALSE, created |-> FALSE, activated |-> FALSE,
      watcher |-> "none", stopping |-> FALSE, ended |-> "never", trouble |-> FALSE ]

\* A composer may bring a readiness proof, a controller, both or neither.
SidecarInit ==
    /\ \E proves, controlled \in BOOLEAN :
         root = [evidence |-> NoReadiness, temporary |-> Absent, starts |-> 0,
                 marker |-> Absent, log |-> FALSE,
                 proves |-> proves, controlled |-> controlled]
    /\ site = Down
    /\ before = NoReadiness

At(phase) == site.at = phase
Becomes(changes) ==
    site' = [x \in DOMAIN site |-> IF x \in DOMAIN changes THEN changes[x] ELSE site[x]]
Onward(phase) == Becomes([at |-> phase])

\* A start that throws is undone: controller, server, evidence, then the log.
Fails == Onward("undoController")

Started == root.starts < MaxStarts

Boot ==
    /\ At("down") /\ Started
    /\ site' = [Down EXCEPT !.at = IF root.proves THEN "prove" ELSE "compose"]
    /\ root' = [root EXCEPT !.starts = @ + 1]
    /\ before' = root.evidence

\* The disposable kernel must be pristine, unchanged by the proof, and step once.
ProveKernel ==
    /\ At("prove")
    /\ \/ \E w \in Worlds : Becomes([proved |-> w, at |-> "compose"])
       \/ Fails
    /\ UNCHANGED << root, before >>

\* The live world must be the one the proof saw, at tick 0 without a decision.
ComposeLive ==
    /\ At("compose")
    /\ \/ \E w \in Worlds, ticks \in {0, 1} :
            IF ticks = 0 /\ site.proved \in {Absent, w}
            THEN Becomes([world |-> w, at |-> "secrets"])
            ELSE Fails
       \/ Fails
    /\ UNCHANGED << root, before >>

\* Every secret is read through held descriptors and no two are the same.
ReadSecrets ==
    /\ At("secrets")
    /\ Onward("probe") \/ Fails
    /\ UNCHANGED << root, before >>

\* The adapters are tried on a local port: the clock answers that it is paused.
Probe ==
    /\ At("probe")
    /\ Becomes([at |-> "probing", listens |-> "locally"]) \/ Fails
    /\ UNCHANGED << root, before >>

StopProbe ==
    /\ At("probing")
    /\ \/ Becomes([at |-> IF root.controlled THEN "controller" ELSE "check", listens |-> "no"])
       \/ Becomes([at |-> "undoController", listens |-> "no"])
    /\ UNCHANGED << root, before >>

\* A controller may wrongly move the world before it is let.
StartController ==
    /\ At("controller")
    /\ \/ \E ticks \in {0, 1} : Becomes([controller |-> TRUE, ticks |-> ticks, at |-> "check"])
       \/ Fails
    /\ UNCHANGED << root, before >>

Pristine == site.ticks = 0 /\ site.claims = 0

\* Mutant: the state is not compared again once the controller runs.
FaultyCheckPaused ==
    /\ At("check")
    /\ Onward("write")
    /\ UNCHANGED << root, before >>

CheckPaused ==
    /\ At("check")
    /\ IF Pristine THEN Onward("write") \/ Fails ELSE Fails
    /\ UNCHANGED << root, before >>

-----------------------------------------------------------------------------
\* The evidence: written beside, synced, linked to its name, verified, and the
\* temporary taken away.
WriteEvidence ==
    /\ At("write")
    /\ \/ root' = [root EXCEPT !.temporary = site.world] /\ Onward("link")
       \/ Fails /\ UNCHANGED root
    /\ UNCHANGED before

\* Exact means those bytes in a regular file that has no other name.
Exact(evidence) == evidence.there /\ evidence.body = site.world /\ evidence.links = 1

\* An exact prior publication is taken over; anything else fails the start.
LinkEvidence ==
    /\ At("link")
    /\ IF root.evidence.there
       THEN /\ root' = [root EXCEPT !.temporary = Absent]
            /\ IF Exact(root.evidence) THEN Onward("listen") ELSE Fails
       ELSE \/ /\ root' = [root EXCEPT !.evidence =
                              [there |-> TRUE, body |-> site.world, links |-> 2]]
               /\ Onward("linked")
            \/ /\ root' = [root EXCEPT !.temporary = Absent]
               /\ Fails
    /\ UNCHANGED before

\* The linked file is read back; a failure takes both names away.
VerifyEvidence ==
    /\ At("linked")
    /\ \/ Onward("unlink") /\ UNCHANGED root
       \/ /\ root' = [root EXCEPT !.evidence = NoReadiness, !.temporary = Absent]
          /\ Fails
    /\ UNCHANGED before

UnlinkTemporary ==
    /\ At("unlink")
    /\ root' = [root EXCEPT !.temporary = Absent, !.evidence.links = 1]
    /\ Becomes([at |-> "listen", created |-> TRUE])
    /\ UNCHANGED before

Listen ==
    /\ At("listen")
    /\ Becomes([at |-> "self-test", listens |-> "publicly"]) \/ Fails
    /\ UNCHANGED << root, before >>

\* The public port must answer with this very readiness.  A world without a
\* controller is activated at once.
SelfTest ==
    /\ At("self-test")
    /\ \/ Becomes([at |-> "running", watcher |-> IF root.controlled THEN "polling" ELSE "none",
                activated |-> ~root.controlled])
       \/ Fails
    /\ UNCHANGED << root, before >>

\* One look at the marker: absent, it is looked at again; exact, the controller is
\* released; anything else ends the watch, and the world stays paused.
PollMarker ==
    /\ At("running") /\ site.watcher = "polling" /\ root.marker # Absent
    /\ IF root.marker = site.world
       THEN Becomes([watcher |-> "done", activated |-> TRUE])
       ELSE Becomes([watcher |-> "rejected"])
    /\ UNCHANGED << root, before >>

-----------------------------------------------------------------------------
\* Spawnfile writes the marker of a run whose evidence it saw, or another's.
WriteMarker ==
    /\ root.marker = Absent /\ root.evidence.there
    /\ \E m \in Worlds : root' = [root EXCEPT !.marker = m]
    /\ UNCHANGED << site, before >>

\* The released controller steps the world.
TickWorld ==
    /\ site.activated /\ site.controller /\ site.ticks < MaxTicks
    /\ At("running")
    /\ Becomes([ticks |-> site.ticks + 1])
    /\ UNCHANGED << root, before >>

\* A participant claims a decision: refused until the world is activated.
Claim ==
    /\ site.listens = "publicly" /\ site.claims < MaxTicks
    /\ site.activated
    /\ Becomes([claims |-> site.claims + 1])
    /\ UNCHANGED << root, before >>

-----------------------------------------------------------------------------
\* The undoing of a failed start.
UndoController ==
    /\ At("undoController")
    /\ Becomes([at |-> "undoServer", controller |-> FALSE, watcher |-> "none"])
    /\ UNCHANGED << root, before >>

UndoServer ==
    /\ At("undoServer")
    /\ Becomes([at |-> "undoEvidence", listens |-> "no"])
    /\ UNCHANGED << root, before >>

\* Mutant: exact evidence is removed, whoever published it.
FaultyUndoEvidence ==
    /\ At("undoEvidence")
    /\ root' = [root EXCEPT !.evidence = IF Exact(@) THEN NoReadiness ELSE @]
    /\ Onward("log")
    /\ UNCHANGED before

\* Only what this start published is removed, and only while it is exact; that it
\* could not be removed is not reported.
UndoEvidence ==
    /\ At("undoEvidence")
    /\ \/ /\ root' = [root EXCEPT !.evidence =
                        IF site.created /\ Exact(@) THEN NoReadiness ELSE @]
          /\ Onward("log")
       \/ /\ site.created
          /\ Becomes([at |-> "log", trouble |-> TRUE])
          /\ UNCHANGED root
    /\ UNCHANGED before

\* The failure is kept beside the evidence, if that can be written, and the exit
\* code is set.
LogFailure ==
    /\ At("log")
    /\ root' \in {root, [root EXCEPT !.log = TRUE]}
    /\ Becomes([at |-> "exiting", ended |-> "failed"])
    /\ UNCHANGED before

\* Nobody calls exit: the process is over once nothing keeps it alive.
Exit ==
    /\ At("exiting")
    /\ Onward("down")
    /\ UNCHANGED << root, before >>

\* The first signal asks the process to stop; a started sidecar closes at once.
Signal ==
    /\ ~At("down") /\ ~site.stopping
    /\ Becomes([stopping |-> TRUE])
    /\ UNCHANGED << root, before >>

\* Closing: the port at once, then watcher, controller, MCP sessions and
\* descriptors together.
BeginClose ==
    /\ At("running") /\ site.stopping
    /\ Becomes([at |-> "closing", listens |-> "no", watcher |-> "none"])
    /\ UNCHANGED << root, before >>

Ends(how) == Becomes([at |-> "down", ended |-> how, controller |-> FALSE])

\* They all close, or one of them fails.  It may be that neither ever happens.
CloseAnswers ==
    /\ At("closing")
    /\ \E how \in {"closed", "closeFailed"} : Ends(how)
    /\ UNCHANGED << root, before >>

\* Mutant: the wait for them has no limit.
FaultyCloseTimesOut ==
    /\ At("closing") /\ ~site.controller
    /\ Ends("closeFailed")
    /\ UNCHANGED << root, before >>

\* After five seconds they are not waited for any longer.
CloseTimesOut ==
    /\ At("closing")
    /\ Ends("closeFailed")
    /\ UNCHANGED << root, before >>

SidecarDies ==
    /\ ~At("down")
    /\ site' = [Down EXCEPT !.ended = "died"]
    /\ UNCHANGED << root, before >>

Proceeds ==
    \/ ProveKernel \/ ComposeLive \/ ReadSecrets \/ Probe \/ StopProbe
    \/ StartController \/ CheckPaused
    \/ WriteEvidence \/ LinkEvidence \/ VerifyEvidence \/ UnlinkTemporary
    \/ Listen \/ SelfTest
    \/ UndoController \/ UndoServer \/ UndoEvidence \/ LogFailure \/ Exit

\* What the process waits for without a limit: the composer's proof, its world,
\* its controller to start and to close; the open connections of a server that
\* closes; and whatever the composer left behind of a start that failed.
AwaitsOthers ==
    \/ site.at \in {"prove", "compose", "probing", "controller", "exiting"}
    \/ At("undoController") /\ site.controller
    \/ At("undoServer") /\ site.listens # "no"

SidecarNext ==
    \/ Boot \/ Proceeds \/ PollMarker \/ WriteMarker \/ TickWorld \/ Claim
    \/ Signal \/ BeginClose \/ CloseAnswers \/ CloseTimesOut \/ SidecarDies

SidecarSpec == SidecarInit /\ [][SidecarNext]_sidecarVars

\* The host's own calls settle, the event loop polls, and the timer fires.
FairSidecar ==
    /\ WF_sidecarVars(Proceeds /\ ~AwaitsOthers) /\ WF_sidecarVars(PollMarker)
    /\ WF_sidecarVars(BeginClose) /\ WF_sidecarVars(CloseTimesOut)

-----------------------------------------------------------------------------
SidecarTypeOK ==
    /\ root.evidence.links \in 0..2 /\ root.starts \in 0..MaxStarts
    /\ root.marker \in Worlds \union {Absent}
    /\ site.ticks \in 0..(MaxTicks + 1) /\ site.claims \in 0..MaxTicks
    /\ site.listens \in {"no", "locally", "publicly"}

\* Whoever reaches the public port finds complete evidence of this very world on
\* the disk, and a world nobody has moved unless its marker is there; ticks and
\* decisions come from an activated world only.
ReadinessHonest ==
    /\ site.listens = "publicly" =>
         /\ root.evidence = [there |-> TRUE, body |-> site.world, links |-> 1]
         /\ site.activated \/ Pristine
    /\ (root.controlled /\ site.activated) => root.marker = site.world
    /\ site.claims > 0 => site.activated

\* A start that failed leaves the evidence root as it found it and no port open:
\* what another start published stays, what it published itself is gone, unless
\* the removal itself went wrong.
FailedStartUndone ==
    (site.at \in {"exiting", "down"} /\ site.ended = "failed") =>
      /\ site.listens = "no"
      /\ site.trouble \/ root.evidence = before

SidecarExact == ReadinessHonest /\ FailedStartUndone

\* A signal ends the process: a started sidecar always, even if a controller or a
\* session never closes (close has five seconds); a start too, unless it waits for
\* ever for the composer or, being undone, for its controller or for connections
\* (sidecarEntrypoint.ts:202-203 set no limit).  And a sidecar that watches for its marker is
\* released once the marker is there, unless it stops.
SidecarSettles ==
    /\ site.stopping ~> (At("down") \/ []AwaitsOthers)
    /\ (At("running") /\ site.watcher = "polling" /\ root.marker = site.world)
         ~> (site.activated \/ ~At("running"))
=============================================================================
