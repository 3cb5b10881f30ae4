--------------------------- MODULE CausalRecording ---------------------------
(***************************************************************************)
(* The causal recorder (src/runtime/causalRecording.ts) and the replay of  *)
(* what it recorded (causalReplay.ts).  A world calls out through declared *)
(* ports; an exchange is begun, is answered ticks later or never, and is   *)
(* recorded when it is answered.  Checkpoints of the world are put between *)
(* the exchanges.  A finalized recording is checked by recording it again, *)
(* and replayed from any checkpoint to any tick, or segment by segment.    *)
(*                                                                         *)
(* The recorder is a record rec that its operations take and return: the   *)
(* live one and the one a recording is checked with are the same.          *)
(* The world is outside the code: its state is the sequence of what was    *)
(* injected into it and of the ticks it made.  Bytes and digests are what  *)
(* they stand for; sizes and forms of identifiers are left out.            *)
(***************************************************************************)
EXTENDS Integers, SequencesExt, FiniteSetsExt

CONSTANTS
  Ports, Minimum,        \* the declared ports; exchanges each must have had
  Correlations,
  MaxTick, MaxExchanges, \* bounds of the run
  NoRecording

VARIABLES
  rec,         \* the live recorder
  pending,     \* exchanges begun and not answered
  now, world,  \* the world's tick and state
  recording    \* what finalize returned

recVars == <<rec, pending, now, world, recording>>

NewRecorder ==
  [events |-> <<>>, checkpoints |-> <<>>, open |-> 0, closed |-> {},
   timeline |-> 0]

-----------------------------------------------------------------------------
(* The recorder's operations and when each of them is refused. *)

MayBegin(r, port) == port \in Ports \ r.closed

BeginOf(r) == [r EXCEPT !.open = @ + 1]

MayAppend(r, e) ==
  /\ e.tick >= r.timeline
  /\ e.port \notin r.closed
  /\ e.issued <= e.tick
  /\ \A i \in DOMAIN r.events :
       <<r.events[i].port, r.events[i].id>> # <<e.port, e.id>>

AppendOf(r, e) ==
  [r EXCEPT !.events = Append(@, e), !.open = @ - 1, !.timeline = e.tick]

MayCheckpoint(r, t) ==
  /\ r.open = 0
  /\ t >= r.timeline
  /\ r.checkpoints # <<>> => Last(r.checkpoints).tick < t

CheckpointOf(r, t, s) ==
  [r EXCEPT !.timeline = t,
            !.checkpoints = Append(@, [tick |-> t, frontier |-> Len(r.events),
                                       state |-> s])]

MayClose(r, port) == port \in Ports \ r.closed /\ r.open = 0

CloseOf(r, port) == [r EXCEPT !.closed = @ \union {port}]

Exchanges(r, port) == Len(SelectSeq(r.events, LAMBDA e : e.port = port))

MayFinalize(r, t) ==
  /\ r.open = 0
  /\ r.closed = Ports
  /\ \A p \in Ports : Exchanges(r, p) >= Minimum[p]
  /\ t >= r.timeline

FinalOf(r, t, s) ==
  [events |-> r.events, checkpoints |-> r.checkpoints,
   initial |-> [tick |-> 0, frontier |-> 0, state |-> <<>>],
   terminal |-> [tick |-> t, frontier |-> Len(r.events), state |-> s]]

-----------------------------------------------------------------------------
(* A recording is accepted when recording it again gives the same one. *)

Again(v, may, r) == IF v.ok /\ may THEN [ok |-> TRUE, r |-> r] ELSE [v EXCEPT !.ok = FALSE]

ReplayEvent(v, e) ==
  Again(v, MayBegin(v.r, e.port) /\ MayAppend(v.r, e), AppendOf(BeginOf(v.r), e))

ReplayUpTo(v, events, frontier) ==
  FoldLeft(ReplayEvent, v, SubSeq(events, Len(v.r.events) + 1, frontier))

ReplayCheckpoint(v, events, c) ==
  LET u == ReplayUpTo(v, events, c.frontier)
  IN  Again(u, c.frontier >= Len(v.r.events) /\ MayCheckpoint(u.r, c.tick),
            CheckpointOf(u.r, c.tick, c.state))

ReplayClose(v, port) == Again(v, MayClose(v.r, port), CloseOf(v.r, port))

Accepted(x) ==
  LET start  == [ok |-> TRUE, r |-> NewRecorder]
      marked == FoldLeft(LAMBDA v, c : ReplayCheckpoint(v, x.events, c),
                         start, x.checkpoints)
      whole  == ReplayUpTo(marked, x.events, Len(x.events))
      closed == FoldSet(LAMBDA p, v : ReplayClose(v, p), whole, Ports)
  IN  /\ closed.ok
      /\ MayFinalize(closed.r, x.terminal.tick)
      /\ FinalOf(closed.r, x.terminal.tick, x.terminal.state) = x

-----------------------------------------------------------------------------
(* Replay.  p is the adapter and how far the recording was injected. *)

Inject(p, e) ==
  [p EXCEPT !.state = Append(@, e.id), !.at = @ + 1, !.injected = @ + 1]

\* Every exchange up to a checkpoint's frontier is injected before the state is
\* compared with it; one of another tick is a drift.
InjectTo(x, p, t, frontier) ==
  FoldLeft(LAMBDA q, e : [Inject(q, e) EXCEPT !.ok = @ /\ e.tick = t],
           p, SubSeq(x.events, p.at + 1, frontier))

Meets(p, c) == [p EXCEPT !.ok = @ /\ p.state = c.state]

Reach(x, p, t, start) ==
  LET here == SelectSeq(x.checkpoints, LAMBDA c : c.tick = t /\ c # start)
  IN  IF here = <<>> THEN p
      ELSE Meets(InjectTo(x, p, t, here[1].frontier), here[1])

\* A fault: the exchanges a checkpoint already holds are injected again.
FaultyInjectTick(x, p, t) ==
  FoldLeft(Inject, p, SelectSeq(x.events, LAMBDA e : e.tick = t))

InjectTick(x, p, t) ==
  FoldLeft(Inject, p,
           SelectSeq(SubSeq(x.events, p.at + 1, Len(x.events)),
                     LAMBDA e : e.tick = t))

ReplayTick(x, p, t, start) ==
  [InjectTick(x, Reach(x, p, t, start), t) EXCEPT !.state = Append(@, t)]

Replay(x, start, target) ==
  LET begun   == [state |-> start.state, at |-> start.frontier, injected |-> 0,
                  ok |-> TRUE]
      stepped == FoldLeft(LAMBDA p, t : ReplayTick(x, p, t, start), begun,
                          [i \in 1..(target - start.tick) |-> start.tick + i - 1])
      there   == Reach(x, stepped, target, start)
  IN  IF target = x.terminal.tick
      THEN Meets(InjectTick(x, there, target), x.terminal)
      ELSE there

Starts(x) == <<x.initial>> \o x.checkpoints

\* The checkpoint a replay starts from: the first of the tick it is given.
StartAt(x, t) == SelectSeq(Starts(x), LAMBDA c : c.tick = t)[1]

\* Segment by segment: from each checkpoint's tick to the next, to the end.
Segments(x) ==
  LET ticks == {x.checkpoints[i].tick : i \in DOMAIN x.checkpoints}
                 \union {x.terminal.tick}
      AddTick(v, t) ==
        LET p == Replay(x, StartAt(x, v.from), t)
        IN  [from |-> t, ok |-> v.ok /\ p.ok, injected |-> v.injected + p.injected]
  IN  FoldLeft(AddTick, [from |-> 0, ok |-> TRUE, injected |-> 0],
               SetToSortSeq(ticks, <))

-----------------------------------------------------------------------------
RecInit ==
  /\ rec = NewRecorder
  /\ pending = {}
  /\ now = 0
  /\ world = <<>>
  /\ recording = NoRecording

Recording == recording = NoRecording

Begin(port, id) ==
  /\ Recording /\ MayBegin(rec, port)
  /\ Len(rec.events) + rec.open < MaxExchanges
  /\ rec' = BeginOf(rec)
  /\ pending' = pending \union {[port |-> port, id |-> id, issued |-> now]}
  /\ [port |-> port, id |-> id, issued |-> now] \notin pending
  /\ UNCHANGED <<now, world, recording>>

\* The answer, an error, a timeout or a cancellation: it is recorded and the
\* world takes it in.
Finish(x) ==
  LET e == [port |-> x.port, id |-> x.id, issued |-> x.issued, tick |-> now]
  IN  /\ Recording
      /\ MayAppend(rec, e)
      /\ rec' = AppendOf(rec, e)
      /\ world' = Append(world, x.id)
      /\ pending' = pending \ {x}
      /\ UNCHANGED <<now, recording>>

\* A refused answer leaves its reservation open for good: no checkpoint, no
\* close and no end of the recording after it.
FinishRefused(x) ==
  /\ Recording
  /\ ~MayAppend(rec, [port |-> x.port, id |-> x.id, issued |-> x.issued, tick |-> now])
  /\ pending' = pending \ {x}
  /\ UNCHANGED <<rec, now, world, recording>>

Checkpoint ==
  /\ Recording /\ MayCheckpoint(rec, now)
  /\ rec' = CheckpointOf(rec, now, world)
  /\ UNCHANGED <<pending, now, world, recording>>

ClosePort(port) ==
  /\ Recording /\ MayClose(rec, port)
  /\ rec' = CloseOf(rec, port)
  /\ UNCHANGED <<pending, now, world, recording>>

Finalize ==
  /\ Recording /\ MayFinalize(rec, now)
  /\ recording' = FinalOf(rec, now, world)
  /\ UNCHANGED <<rec, pending, now, world>>

\* The world makes a tick.
StepWorld ==
  /\ Recording /\ now < MaxTick
  /\ now' = now + 1
  /\ world' = Append(world, now)
  /\ UNCHANGED <<rec, pending, recording>>

RecNext ==
  \/ \E p \in Ports, c \in Correlations : Begin(p, c)
  \/ \E x \in pending : Finish(x) \/ FinishRefused(x)
  \/ Checkpoint
  \/ \E p \in Ports : ClosePort(p)
  \/ Finalize
  \/ StepWorld

RecSpec == RecInit /\ [][RecNext]_recVars

-----------------------------------------------------------------------------
\* A replay must come to what the world was: the state before the tick was made,
\* with what was injected up to the last checkpoint of that tick.
WasAt(x, s, t) ==
  /\ IsPrefix(s, x.terminal.state)
  /\ Len(SelectSeq(s, LAMBDA i : i \notin Correlations)) = t

\* Whatever was recorded can be used (causalRecording.ts:244, causalReplay.ts:34):
\* a finalized recording is accepted, and replaying it from any checkpoint to any
\* later tick meets every checkpoint on the way and ends in a state the world was
\* in at that tick; to the last tick, in its last state.  Segment by segment it
\* does the same and injects every exchange once, when no exchange precedes a
\* checkpoint of tick 0.
ReplayReproduces ==
  recording # NoRecording =>
    /\ Accepted(recording)
    /\ \A i \in DOMAIN Starts(recording) :
         \A t \in Starts(recording)[i].tick..recording.terminal.tick :
           LET p == Replay(recording, StartAt(recording, Starts(recording)[i].tick), t)
           IN  p.ok /\ WasAt(recording, p.state, t)
    /\ (\A i \in DOMAIN recording.checkpoints :
          recording.checkpoints[i].tick = 0 => recording.checkpoints[i].frontier = 0)
         => /\ Segments(recording).ok
            /\ Segments(recording).injected = Len(recording.events)

\* causalReplay.ts:112 says that the segmented replay "replays every authenticated
\* checkpoint interval exactly once".
SegmentsOnce ==
  recording # NoRecording => Segments(recording).injected = Len(recording.events)

\* A value for Minimum: one of the ports must have had an exchange.
AtLeastOne == [p \in Ports |-> IF p = CHOOSE q \in Ports : TRUE THEN 1 ELSE 0]
=============================================================================
