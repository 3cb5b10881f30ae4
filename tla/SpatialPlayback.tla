--------------------------- MODULE SpatialPlayback ---------------------------
(***************************************************************************)
(* The map of a local viewer (web/src/viewer/App.tsx) and its playhead     *)
(* (SpatialPlaybackControls.tsx, spatialPlayback.ts).  A server tells the  *)
(* page of every new tick of a trace (src/view/events.ts); the page        *)
(* fetches the whole trace each time, and answers may overtake each other. *)
(* While the run goes on the playhead stays a buffer behind the last       *)
(* sample; when none has come for a while it runs on to the last one, and  *)
(* once the run is over, or the user says so, samples are played as they   *)
(* were recorded.                                                          *)
(*                                                                         *)
(* Time is counted in units of which a tick has TickUnits; a frame of the  *)
(* browser takes one of FrameSteps.  React's effects run with the update   *)
(* that causes them.  The trace only grows, and ends at most once.         *)
(***************************************************************************)
EXTENDS Naturals, Sequences, FiniteSets

CONSTANTS
  Ticks,        \* the tick of each sample the run will record
  TickUnits,    \* tick_duration_ms
  BufferUnits,  \* liveSpatialPlaybackDelayMs
  CapUnits,     \* maximumPresentationStepMs
  FrameSteps,   \* bound: what a frame of the browser takes
  Speeds,       \* spatialPlaybackSpeeds
  MaxFlight,    \* bound: answers under way at once
  MaxLost,      \* bound: fetches of the world that fail
  MaxActs       \* bound: what the user does

\* A trace has one sample of a tick, in their order (runtime/viewer-trace.ts), and a
\* tick has a duration (compose/liveViewerProjection.ts).
ASSUME PlaybackAssumption ==
  /\ Ticks \in Seq(Nat) /\ Ticks # <<>>
  /\ \A i, j \in 1..Len(Ticks) : i < j => Ticks[i] < Ticks[j]
  /\ TickUnits \in Nat \ {0} /\ BufferUnits \in Nat /\ CapUnits \in Nat
  /\ FrameSteps \subseteq Nat \ {0} /\ Speeds \subseteq Nat \ {0}

VARIABLES
  viewed,    \* the server: mode, and the trace [n, status] it serves
  feed,      \* sendViewerEvents: the page's stream and the samples it was told of
  answers,   \* fetches of /api/world under way, each with the trace it will bring
  screen,    \* SimfileViewerApp: mode, n, status, error, whether a world is shown
  controls,  \* SpatialPlaybackControls: its state and references
  budget     \* what is left of the bounds: [lost, acts]

playbackVars == <<viewed, feed, answers, screen, controls, budget>>

-----------------------------------------------------------------------------
(* spatialPlayback.ts: n samples, a playhead pb = [tick, frame, playing,   *)
(* ended], ticks counted in units.                                         *)

At(i) == Ticks[i] * TickUnits
FirstTick(n) == IF n = 0 THEN 0 ELSE At(1)
FinalTick(n) == IF n = 0 THEN 0 ELSE At(n)
Least(a, b) == IF a <= b THEN a ELSE b
Most(a, b) == IF a >= b THEN a ELSE b

\* frameAtOrBeforeTick; frames count from zero.
FrameAt(n, t) == Cardinality({i \in 2..n : At(i) <= t})

\* liveDelayTicks
Delay ==
  TickUnits * Most(1, (BufferUnits + TickUnits - 1) \div TickUnits)

\* A mutant of LiveTarget: the playhead keeps no distance to the last sample.
FaultyLiveTarget(n) == FinalTick(n)

LiveTarget(n) ==
  IF FinalTick(n) < FirstTick(n) + Delay THEN FirstTick(n) ELSE FinalTick(n) - Delay

LiveReady(n) == n > 1 /\ FinalTick(n) >= FirstTick(n) + Delay

PlayheadAt(n, t, playing, over) ==
  [tick |-> t, frame |-> FrameAt(n, t), playing |-> playing, ended |-> over]

\* createSpatialPlaybackState
Created(n, playing) == PlayheadAt(n, FirstTick(n), playing /\ n > 1, n < 2)

\* createLiveSpatialPlaybackState
CreatedLive(n, still) == PlayheadAt(n, LiveTarget(n), LiveReady(n) /\ ~still, FALSE)

\* A mutant of ReconciledLive: an answer starts the map from its first sample.
FaultyReconciledLive(pb, n, still) == Created(n, ~still)

\* reconcileLiveSpatialPlayback
ReconciledLive(pb, n, still) ==
  LET target == LiveTarget(n)
      stale  == still \/ pb.tick < FirstTick(n) \/ target > pb.tick + 2 * Delay
  IN  IF n = 0 THEN CreatedLive(n, still)
      ELSE PlayheadAt(n, IF stale THEN target ELSE Least(pb.tick, target),
                LiveReady(n) /\ ~still, FALSE)

\* A mutant of Reconciled: it keeps a playhead that is past the last sample.
FaultyReconciled(pb, n, requested) ==
  IF n = 0 THEN Created(n, FALSE)
  ELSE LET over == n < 2 \/ pb.tick >= FinalTick(n)
       IN  PlayheadAt(n, Most(FirstTick(n), pb.tick), requested /\ ~over, over)

\* reconcileSpatialPlaybackSamples
Reconciled(pb, n, requested) ==
  IF n = 0 THEN Created(n, FALSE)
  ELSE LET t    == Most(FirstTick(n), Least(FinalTick(n), pb.tick))
           over == n < 2 \/ t >= FinalTick(n)
       IN  PlayheadAt(n, t, requested /\ ~over, over)

\* scrubSpatialPlayback
Scrubbed(n, frame) ==
  LET to == Least(frame, IF n = 0 THEN 0 ELSE n - 1)
  IN  [tick |-> IF n = 0 THEN 0 ELSE At(to + 1), frame |-> to, playing |-> FALSE,
       ended |-> n < 2 \/ to + 1 >= n]

\* setSpatialPlaybackPlaying
SetPlaying(pb, n, playing) ==
  IF ~playing \/ n < 2 THEN [pb EXCEPT !.playing = FALSE]
  ELSE IF pb.ended THEN Created(n, TRUE) ELSE [pb EXCEPT !.playing = TRUE]

\* advanceSpatialPlayback
Advanced(pb, n, elapsed) ==
  IF ~pb.playing \/ n < 2 \/ elapsed = 0 THEN pb
  ELSE LET t == Least(FinalTick(n), pb.tick + elapsed)
       IN  PlayheadAt(n, t, t < FinalTick(n), t >= FinalTick(n))

\* advanceLiveSpatialPlayback
AdvancedLive(pb, n, elapsed, drain) ==
  LET t == Least(IF drain THEN FinalTick(n) ELSE LiveTarget(n),
                 pb.tick + Least(elapsed, CapUnits))
  IN  IF ~pb.playing \/ n < 2 \/ elapsed = 0 \/ t = pb.tick THEN pb
      ELSE PlayheadAt(n, t, TRUE, FALSE)

-----------------------------------------------------------------------------
(* SpatialPlaybackControls: its effects, for controls c on a screen s.     *)

NoClock == [on |-> FALSE, anchor |-> 0, total |-> 0]
Mounted(s) == s.shown /\ ~s.error
Live(s) == s.mode = "live" /\ s.status = "live"
FollowingRun(c, s) == Live(s) /\ ~c.manual

\* A component that is not mounted, and one that is mounted and has run no effect.
Fresh(still) ==
  [for |-> "none", manual |-> FALSE, requested |-> FALSE, drain |-> FALSE,
   timer |-> FALSE, speed |-> 1, pb |-> Created(0, FALSE), clock |-> NoClock,
   still |-> still]

\* The effect on samples: one run's playhead is made once for each kind of
\* playback and then follows the samples.
OnSamples(c, s) ==
  LET kind == IF Live(s) THEN "live" ELSE "replay"
  IN  IF c.for # kind
      THEN [c EXCEPT !.for = kind, !.manual = FALSE, !.drain = FALSE,
                     !.requested = ~Live(s) /\ ~c.still,
                     !.pb = IF Live(s) THEN CreatedLive(s.n, c.still)
                            ELSE Created(s.n, ~c.still)]
      ELSE [c EXCEPT !.pb = IF FollowingRun(c, s) THEN ReconciledLive(@, s.n, c.still)
                            ELSE Reconciled(@, s.n, c.requested /\ ~c.still)]

\* The effect of the idle timer, when what it waits upon is new.
OnIdle(c, s, anew) ==
  IF anew THEN [c EXCEPT !.drain = FALSE, !.timer = FollowingRun(c, s) /\ s.n > 1] ELSE c

\* The effects after c and s became d and t: the animation's own clock starts
\* again when what it depends on has changed.
Effects(c, s, d, t) ==
  LET e      == OnSamples(d, t)
      turned == FollowingRun(c, s) # FollowingRun(e, t)
      f      == OnIdle(e, t, turned \/ s.n # t.n \/ c.for = "none")
      same   == /\ ~turned /\ f.drain = c.drain /\ f.speed = c.speed
                /\ f.pb.playing = c.pb.playing
  IN  IF same THEN f ELSE [f EXCEPT !.clock = NoClock]

-----------------------------------------------------------------------------
(* The server and its stream.                                              *)

Answer(first) == [n |-> viewed.n, status |-> viewed.status, first |-> first]

\* refreshWorld; a fetch that would bring what another brings is that fetch.
RefreshWorld == answers' = answers \cup {Answer(FALSE)}
Room == Cardinality(answers) < MaxFlight

RecordSample ==
  /\ viewed.mode = "live" /\ viewed.status = "live" /\ viewed.n < Len(Ticks)
  /\ \E status \in {"live", "completed"} :
       viewed' = [viewed EXCEPT !.n = @ + 1, !.status = status]
  /\ UNCHANGED <<feed, answers, screen, controls, budget>>

\* poll
PollTrace ==
  /\ feed.polls /\ feed.queued < viewed.n
  /\ feed' = [feed EXCEPT !.queued = viewed.n]
  /\ UNCHANGED <<viewed, answers, screen, controls, budget>>

\* One queued tick, or in replay mode the next beat, and the page's answer to it.
PushTick ==
  /\ feed.polls /\ Room
  /\ \/ viewed.mode = "replay" /\ UNCHANGED feed
     \/ feed.pushed < feed.queued /\ feed' = [feed EXCEPT !.pushed = @ + 1]
  /\ RefreshWorld
  /\ UNCHANGED <<viewed, screen, controls, budget>>

-----------------------------------------------------------------------------
(* SimfileViewerApp.                                                       *)

StateArrives ==
  /\ screen.mode = "none"
  /\ screen' = [screen EXCEPT !.mode = viewed.mode]
  /\ controls' = IF Mounted(screen) THEN Effects(controls, screen, controls, screen')
                 ELSE controls
  /\ UNCHANGED <<viewed, feed, answers, budget>>

\* connectStream by the first answer, whose server tells the last tick at once and
\* whose page asks again; closed by an answer that says the run is over.
Connected(a) ==
  IF a.first /\ a.status = "live"
  THEN feed' = [open |-> TRUE, queued |-> viewed.n, pushed |-> viewed.n,
                polls |-> viewed.mode = "replay" \/ viewed.status = "live"]
  ELSE IF ~a.first /\ a.status # "live" THEN feed' = [feed EXCEPT !.open = FALSE, !.polls = FALSE]
  ELSE UNCHANGED feed

WorldArrives ==
  \E a \in answers :
    /\ screen' = [screen EXCEPT !.n = a.n, !.status = a.status, !.shown = TRUE,
                                !.error = FALSE]
    /\ controls' = Effects(controls, screen, controls, screen')
    /\ Connected(a)
    /\ answers' = (answers \ {a}) \cup
         (IF a.first /\ a.status = "live" THEN {Answer(FALSE)} ELSE {})
    /\ UNCHANGED <<viewed, budget>>

\* The page shows the error instead, which takes the controls down.
WorldLost ==
  \E a \in answers :
    /\ budget.lost > 0
    /\ budget' = [budget EXCEPT !.lost = @ - 1]
    /\ answers' = answers \ {a}
    /\ screen' = [screen EXCEPT !.error = TRUE]
    /\ controls' = Fresh(controls.still)
    /\ UNCHANGED <<viewed, feed>>

-----------------------------------------------------------------------------
(* The user, the idle timer and the frames of the browser.                 *)

Act(c) ==
  /\ Mounted(screen) /\ screen.n > 0 /\ budget.acts > 0
  /\ budget' = [budget EXCEPT !.acts = @ - 1]
  /\ controls' = Effects(controls, screen, c, screen)
  /\ UNCHANGED <<viewed, feed, answers, screen>>

Replay ==
  Act([controls EXCEPT !.manual = Live(screen), !.requested = ~controls.still,
                       !.drain = FALSE, !.pb = Created(screen.n, ~controls.still)])

GoLive ==
  /\ Live(screen) /\ controls.manual
  /\ Act([controls EXCEPT !.manual = FALSE, !.requested = FALSE, !.drain = FALSE,
                          !.pb = CreatedLive(screen.n, controls.still)])

Toggle ==
  /\ ~FollowingRun(controls, screen) /\ ~controls.still /\ screen.n > 1
  /\ LET playing == ~(controls.pb.playing \/ (Live(screen) /\ controls.requested))
     IN  Act([controls EXCEPT !.requested = playing,
                              !.pb = SetPlaying(@, screen.n, playing)])

Scrub ==
  \E frame \in 0..(Len(Ticks) - 1) :
    /\ frame < screen.n
    /\ Act([controls EXCEPT !.manual = Live(screen), !.requested = FALSE,
                            !.pb = Scrubbed(screen.n, frame)])

SetSpeed ==
  /\ ~FollowingRun(controls, screen)
  /\ \E speed \in Speeds \ {controls.speed} : Act([controls EXCEPT !.speed = speed])

\* The idle timer: samples have stayed away, so the rest is shown.
DrainFires ==
  /\ controls.timer
  /\ controls' = [controls EXCEPT !.timer = FALSE, !.drain = TRUE, !.clock = NoClock,
                                  !.pb = [@ EXCEPT !.playing = TRUE, !.ended = FALSE]]
  /\ UNCHANGED <<viewed, feed, answers, screen, budget>>

\* stepSpatialPlaybackAnimationClock, from an anchor and the whole time since.
Stepped(c, n, elapsed) ==
  LET clock == IF c.clock.on THEN [c.clock EXCEPT !.total = @ + elapsed]
               ELSE [on |-> TRUE, anchor |-> c.pb.tick, total |-> 0]
      from  == [c.pb EXCEPT !.tick = clock.anchor, !.playing = TRUE, !.ended = FALSE]
      pb    == Advanced(from, n, clock.total * c.speed)
  IN  [c EXCEPT !.pb = pb, !.clock = IF pb.playing THEN clock ELSE NoClock]

\* A frame: the first after a start only notes the time.
AnimationFrame ==
  /\ Mounted(screen) /\ controls.pb.playing /\ screen.n > 1
  /\ \E elapsed \in FrameSteps :
       controls' =
         IF ~FollowingRun(controls, screen) THEN Stepped(controls, screen.n, elapsed)
         ELSE IF ~controls.clock.on THEN [controls EXCEPT !.clock = [@ EXCEPT !.on = TRUE]]
         ELSE [controls EXCEPT !.pb = AdvancedLive(@, screen.n, elapsed, controls.drain)]
  /\ UNCHANGED <<viewed, feed, answers, screen, budget>>

-----------------------------------------------------------------------------
PlaybackInit ==
  /\ viewed \in [mode : {"live"}, n : 0..1, status : {"live"}]
               \cup [mode : {"replay"}, n : {Len(Ticks)}, status : {"live"}]
  /\ feed = [open |-> FALSE, polls |-> FALSE, queued |-> 0, pushed |-> 0]
  /\ answers = {Answer(TRUE)}
  /\ screen = [mode |-> "none", n |-> 0, status |-> "live", error |-> FALSE,
               shown |-> FALSE]
  /\ \E still \in BOOLEAN : controls = Fresh(still)
  /\ budget = [lost |-> MaxLost, acts |-> MaxActs]

PlaybackNext ==
  \/ RecordSample \/ PollTrace \/ PushTick
  \/ StateArrives \/ WorldArrives \/ WorldLost
  \/ Replay \/ GoLive \/ Toggle \/ Scrub \/ SetSpeed \/ DrainFires \/ AnimationFrame

PlaybackSpec == PlaybackInit /\ [][PlaybackNext]_playbackVars

-----------------------------------------------------------------------------
(* Where the playhead may be: on the samples the page has, at the frame it *)
(* says, stopped at the last sample; and as long as the map follows the    *)
(* run it keeps the buffer that later samples are smoothed over with,      *)
(* whatever order the answers come in.                                     *)
PlayheadExact ==
  LET pb == controls.pb
      n  == screen.n
  IN  Mounted(screen) =>
        /\ FirstTick(n) <= pb.tick /\ pb.tick <= FinalTick(n)
        /\ pb.frame = FrameAt(n, pb.tick)
        /\ pb.playing => ~pb.ended /\ n > 1
        /\ controls.timer => FollowingRun(controls, screen)
        /\ FollowingRun(controls, screen) /\ ~controls.drain
             => /\ pb.tick = FirstTick(n) \/ pb.tick + Delay <= FinalTick(n)
                /\ pb.playing => FinalTick(n) >= FirstTick(n) + Delay
        /\ ~FollowingRun(controls, screen) => (pb.playing => pb.tick < FinalTick(n))

(* The map never runs backwards while it follows a run: only the end of a  *)
(* drain, a user or an answer that was overtaken take the playhead back.   *)
PlayheadForward ==
  [][/\ FollowingRun(controls, screen) /\ FollowingRun(controls', screen')
     /\ Mounted(screen) /\ Mounted(screen')
     /\ ~controls.drain /\ screen'.n >= screen.n
     => controls'.pb.tick >= controls.pb.tick]_playbackVars

(* A playhead comes to rest.                                               *)
PlayheadGoing ==
  Mounted(screen) /\ screen.n > 1 /\ (controls.pb.playing \/ FollowingRun(controls, screen))
PlayheadRests ==
  \/ ~Mounted(screen) \/ screen.n < 2
  \/ IF FollowingRun(controls, screen)
     THEN controls.pb.tick = FinalTick(screen.n) \/ controls.still \/ ~LiveReady(screen.n)
     ELSE ~controls.pb.playing
=============================================================================
