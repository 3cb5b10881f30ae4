----------------------------- MODULE ReplayShell -----------------------------
(***************************************************************************)
(* The page that shows one run (web/src/viewer/RunReplayShell.tsx): it     *)
(* loads a recorded run, or follows a live one and loads its record once   *)
(* it is sealed, into the one store every pane reads (store/timeline.ts).  *)
(* The store is mirrored into the page's address, a quarter of a second    *)
(* late, and restored from it when the page is loaded (store/deepLink.ts). *)
(* The scrub bar (chrome/ScrubBar.tsx) plays the cursor through the events *)
(* at the pace their recorded times allow (chrome/playbackCadence.ts) and  *)
(* tells the map the tick it is to show.                                   *)
(*                                                                         *)
(* A frame of the browser takes one of FrameTimes, in units of which a     *)
(* second has Second.  React's effects run with the update that causes     *)
(* them; the world's nodes and the map's extension are left out, and so    *)
(* are frames the server skips for a slow client (LiveFollow.tla).         *)
(***************************************************************************)
EXTENDS Naturals, Sequences, FiniteSets

CONSTANTS
  Runs,        \* records: [times, ticks, samples, unit, chat], see EventsOf
  Links,       \* addresses a page may be opened with
  Refs,        \* elements that can be selected and have portals
  Second,      \* units in a second
  FrameTimes,  \* bound: what a frame of the browser takes
  PlaySpeeds,  \* bound: speeds chosen
  MaxTroubles, \* bound: fetches and streams that fail
  MaxTouches,  \* bound: what the user does
  MaxReloads   \* bound: reloads of the page

\* A record has one sample of a tick, in the order of the ticks: captured frames are
\* sorted (view/runFrames.ts:340), and who writes samples otherwise does so tick by
\* tick (view/runViewerProjection.ts:26 checks that no tick has two, not their order).
ASSUME ShellAssumption ==
  /\ Second \in Nat \ {0} /\ FrameTimes \subseteq Nat /\ PlaySpeeds \subseteq Nat \ {0}
  /\ \A r \in Runs :
       /\ r.times \in Seq(Nat) /\ r.ticks \in Seq(Nat) /\ Len(r.ticks) = Len(r.times)
       /\ r.samples \in Seq(Nat) /\ r.unit \in Nat
       /\ \A i, j \in 1..Len(r.samples) : i < j => r.samples[i] < r.samples[j]
  /\ Refs \subseteq STRING
  /\ \A link \in Links :
       link.portals \in Seq(STRING) /\ link.panel \in {"none", "map", "conversation"}

VARIABLES
  recording,  \* the run served: its record, frames so far, and whether it is sealed
  page,       \* the load effect: stage, error, deepLinkApplied
  store,      \* the timeline store
  address,    \* the page's address: [at, sel, portals, panel]
  mirror,     \* startDeepLinkSync: whether a write of the address is pending
  pacer,      \* the scrub bar's anchor and last written cursor
  mapTick,    \* presentationTick
  story       \* what the page showed when it was reloaded, and what the bounds leave

shellVars == <<recording, page, store, address, mirror, pacer, mapTick, story>>

-----------------------------------------------------------------------------
(* Timelines.  An event has an identity, a recorded time and perhaps a     *)
(* tick of its own (zero: none); the time axis has a sample for each of    *)
(* `samples`, a tick lasting `unit` (zero: not declared).                  *)

NoId == <<"none", 0>>
NoTimeline == [kind |-> "none", size |-> 0]
Loaded == store.timeline.kind # "none"

\* liveTimeline, stamped with the time it is made.
LiveTimeline(count) == [kind |-> "live", size |-> count]

\* A mutant of SealedTimeline: a record without events is left without an axis.
FaultySealedTimeline(r) == [kind |-> "event", size |-> Len(r.times)]

\* sealedReplayTimeline: a record without events is shown along its samples.
SealedTimeline(r) ==
  IF r.times = <<>> /\ r.samples # <<>>
  THEN [kind |-> "sample", size |-> Len(r.samples)]
  ELSE [kind |-> "event", size |-> Len(r.times)]

IdAt(tl, t) == IF t < tl.size THEN <<tl.kind, t + 1>> ELSE NoId
MaxCursor(tl) == IF tl.size = 0 THEN 0 ELSE tl.size - 1

TicksOf(tl, r) == IF tl.kind = "event" THEN r.ticks ELSE r.samples

\* The samples the page's world has, and the events' recorded times.
Span(tl, r) == IF tl.kind = "live" THEN SubSeq(r.samples, 1, tl.size) ELSE r.samples
TimesOf(tl, r) == IF tl.kind = "event" THEN r.times ELSE [i \in 1..tl.size |-> 0]

-----------------------------------------------------------------------------
(* playbackCadence.ts: rates are fractions <<num, den>> of cursors per     *)
(* unit, and a cursor's place on the simulated clock is counted in units.  *)

Larger(a, b) == IF a >= b THEN a ELSE b
Smaller(a, b) == IF a <= b THEN a ELSE b
Distance(a, b) == IF a >= b THEN a - b ELSE b - a

DeclaredTiming(tl, r) ==
  LET span == Span(tl, r)
  IN  r.unit > 0 /\ span # <<>> /\ span[Len(span)] >= span[1] + 1

Duration(tl, r) == LET span == Span(tl, r) IN (span[Len(span)] - span[1]) * r.unit

RealTime(tl, r) ==
  DeclaredTiming(tl, r) /\ tl.size >= 2 /\ (tl.size - 1) * Second >= Duration(tl, r)

\* cursorsPerSecond, with its floor of one cursor a second.
Rate(tl, r, speed) ==
  IF RealTime(tl, r) THEN <<(tl.size - 1) * speed, Duration(tl, r)>> ELSE <<speed, Second>>

\* deriveSimulatedTimeIndex, in units: the samples' own ticks, or the events'
\* recorded times if they are in order and end within a tick of the last sample.
IndexTimes(tl, r) ==
  LET span  == Span(tl, r)
      times == TimesOf(tl, r)
  IN  IF tl.kind = "sample" THEN [i \in 1..tl.size |-> r.samples[i] * r.unit]
      ELSE [i \in 1..tl.size |-> span[1] * r.unit + times[i] - times[1]]

Indexed(tl, r) ==
  LET times == TimesOf(tl, r)
      span  == Span(tl, r)
  IN  /\ DeclaredTiming(tl, r) /\ tl.size > 0
      /\ \/ tl.kind = "sample"
         \/ /\ RealTime(tl, r)
            /\ \A i \in 1..(tl.size - 1) : times[i] <= times[i + 1]
            /\ Distance(IndexTimes(tl, r)[tl.size], span[Len(span)] * r.unit) <= r.unit

\* A mutant of IndexSpeed: sparse samples are played at their own pace.
FaultyIndexSpeed(tl, r, speed) == <<speed, 1>>

\* indexSpeed: the clock is hurried as much as the cursor is.
IndexSpeed(tl, r, speed) ==
  IF tl.kind = "sample" /\ ~RealTime(tl, r)
  THEN <<speed * Duration(tl, r), Second * (tl.size - 1)>> ELSE <<speed, 1>>

\* Where the simulated clock stands, as a fraction of units.
Clock(tl, r, speed, anchor, elapsed) ==
  LET index == IndexTimes(tl, r)
      pace  == IndexSpeed(tl, r, speed)
  IN  <<index[anchor + 1] * pace[2] + elapsed * pace[1], pace[2]>>

\* A mutant of CursorAtElapsed: it stops before an event whose time has just come.
FaultyCursorAtElapsed(tl, r, speed, anchor, elapsed) ==
  LET index == IndexTimes(tl, r)
      now   == Clock(tl, r, speed, anchor, elapsed)
      rate  == Rate(tl, r, speed)
      to    == IF Indexed(tl, r)
               THEN Cardinality({i \in 1..tl.size : index[i] * now[2] < now[1]}) - 1
               ELSE anchor + (elapsed * rate[1]) \div rate[2]
  IN  IF elapsed = 0 THEN anchor ELSE Larger(anchor, Smaller(MaxCursor(tl), to))

\* cursorAtElapsed
CursorAtElapsed(tl, r, speed, anchor, elapsed) ==
  LET index == IndexTimes(tl, r)
      now   == Clock(tl, r, speed, anchor, elapsed)
      rate  == Rate(tl, r, speed)
      to    == IF Indexed(tl, r)
               THEN Cardinality({i \in 1..tl.size : index[i] * now[2] <= now[1]}) - 1
               ELSE anchor + (elapsed * rate[1]) \div rate[2]
  IN  IF elapsed = 0 THEN anchor ELSE Larger(anchor, Smaller(MaxCursor(tl), to))

NoTick == <<0, 0>>

\* recordedTickAtCursor: the last tick recorded at or before the cursor.
RecordedTick(tl, r, cursor) ==
  LET ticks == TicksOf(tl, r)
      own   == {i \in 1..tl.size : i <= cursor + 1 /\ ticks[i] > 0}
  IN  IF own = {} THEN NoTick
      ELSE <<ticks[CHOOSE i \in own : \A j \in own : j <= i] * r.unit, 1>>

\* playbackTickAtElapsed
TickAtElapsed(tl, r, speed, anchor, elapsed) ==
  LET index == IndexTimes(tl, r)
      now   == Clock(tl, r, speed, anchor, elapsed)
      from  == RecordedTick(tl, r, anchor)
      span  == Span(tl, r)
  IN  IF Indexed(tl, r) THEN <<Smaller(now[1], index[tl.size] * now[2]), now[2]>>
      ELSE IF from = NoTick \/ ~DeclaredTiming(tl, r) THEN NoTick
      ELSE IF elapsed = 0 THEN from
      ELSE <<Smaller(from[1] + elapsed * speed, span[Len(span)] * r.unit), 1>>

\* tickAtCursor, on the whole tick when the clock is trusted.
TickAtCursor(tl, r, cursor) ==
  IF ~Indexed(tl, r) THEN RecordedTick(tl, r, cursor)
  ELSE <<((2 * IndexTimes(tl, r)[cursor + 1] + r.unit) \div (2 * r.unit)) * r.unit, 1>>

-----------------------------------------------------------------------------
(* The store, and who hears of it.                                         *)

EmptyStore ==
  [timeline |-> NoTimeline, cursor |-> 0, playing |-> FALSE, speed |-> 1,
   selection |-> "none", panel |-> "none", portals |-> <<>>]

NotPacing == [on |-> FALSE, anchor |-> 0, total |-> 0, written |-> 0]

ScrubBarShown == Loaded /\ ~page.error

\* A store that is set to s: listeners are told, the scrub bar starts its clock
\* anew when what it depends on is new, and shows a resting cursor's tick.
Put(s, error) ==
  LET bar  == s.timeline.kind # "none" /\ ~error
      same == /\ bar /\ ScrubBarShown /\ s.playing = store.playing /\ s.speed = store.speed
              /\ s.timeline = store.timeline /\ s.selection = store.selection
  IN  /\ store' = s
      /\ mirror' = TRUE
      /\ pacer' = IF same THEN pacer ELSE NotPacing
      /\ mapTick' = IF bar /\ ~s.playing
                    THEN TickAtCursor(s.timeline, recording.record, s.cursor) ELSE mapTick

\* loadTimeline
WithTimeline(s, tl) == [s EXCEPT !.timeline = tl, !.cursor = 0]

\* setCursor
WithCursor(s, t) == [s EXCEPT !.cursor = Smaller(t, MaxCursor(s.timeline))]

-----------------------------------------------------------------------------
(* Deep links.                                                             *)

NoLink == [at |-> NoId, sel |-> "none", portals |-> <<>>, panel |-> "none"]

\* A mutant of CurrentDeepLink: the panel is not part of the view.
FaultyCurrentDeepLink(s) ==
  [at |-> IdAt(s.timeline, s.cursor), sel |-> s.selection, portals |-> s.portals,
   panel |-> "none"]

\* currentDeepLink
CurrentDeepLink(s) ==
  [at |-> IdAt(s.timeline, s.cursor), sel |-> s.selection, portals |-> s.portals,
   panel |-> s.panel]

\* defaultReplayPanel: whether the whole run has something participants said.
DefaultPanel(tl, r) == IF tl.kind = "event" /\ r.chat THEN "conversation" ELSE "map"

\* What a list has at some of its places, in their order.
AtPlaces(s, places) ==
  [k \in 1..Cardinality(places) |->
    s[CHOOSE i \in places : Cardinality({j \in places : j < i}) = k - 1]]

\* setOpenPortals keeps the first of each.
Once(refs) ==
  AtPlaces(refs, {i \in DOMAIN refs : \A j \in 1..(i - 1) : refs[j] # refs[i]})

\* applyDeepLink with initialReplayPanel, on a store whose timeline was just loaded.
Restored(s, link, r) ==
  LET hits == {t \in 0..MaxCursor(s.timeline) : IdAt(s.timeline, t) = link.at}
  IN  [s EXCEPT
        !.cursor = IF link.at = NoId \/ hits = {} THEN @ ELSE CHOOSE t \in hits : TRUE,
        !.selection = IF link.sel = "none" THEN @ ELSE link.sel,
        !.portals = IF link.portals = <<>> THEN @ ELSE Once(link.portals),
        !.panel = IF link.panel # "none" THEN link.panel
                  ELSE IF @ # "none" THEN @ ELSE DefaultPanel(s.timeline, r)]

\* A timeline reaches the store, the first of a page with the page's link.
Load(tl, stage) ==
  LET s == WithTimeline(store, tl)
  IN  /\ Put(IF page.applied THEN s ELSE Restored(s, address, recording.record), FALSE)
      /\ page' = [stage |-> stage, error |-> FALSE, applied |-> TRUE]

\* A mutant of WriteAddress: the address is written before the timer is set.
FaultyWriteAddress == /\ mirror /\ mirror' = FALSE /\ UNCHANGED address
  /\ UNCHANGED <<recording, page, store, pacer, mapTick, story>>

\* flush, whatever the page has come to.
WriteAddress ==
  /\ mirror
  /\ mirror' = FALSE
  /\ address' = CurrentDeepLink(store)
  /\ UNCHANGED <<recording, page, store, pacer, mapTick, story>>

-----------------------------------------------------------------------------
(* The run, and the effect that loads it.                                  *)

RecordFrame ==
  /\ ~recording.sealed
  /\ \/ /\ recording.frames < Len(recording.record.samples)
        /\ recording' = [recording EXCEPT !.frames = @ + 1]
     \/ /\ recording.frames = Len(recording.record.samples)
        /\ recording' = [recording EXCEPT !.sealed = TRUE]
  /\ UNCHANGED <<page, store, address, mirror, pacer, mapTick, story>>

\* /api/state: what the run is when the page asks.
FetchState ==
  /\ page.stage = "start"
  /\ IF recording.sealed
     THEN /\ page' = [page EXCEPT !.stage = "fetching"]
          /\ UNCHANGED <<store, mirror, pacer, mapTick>>
     ELSE Load(LiveTimeline(0), "opening")
  /\ UNCHANGED <<recording, address, story>>

\* /api/run-frames, which is gone when the run was sealed in the meantime.
OpenStream ==
  /\ page.stage = "opening"
  /\ IF recording.sealed
     THEN /\ page' = [page EXCEPT !.stage = "failed", !.error = TRUE]
          /\ Put(store, TRUE)
     ELSE /\ page' = [page EXCEPT !.stage = "streaming"]
          /\ UNCHANGED <<store, mirror, pacer, mapTick>>
  /\ UNCHANGED <<recording, address, story>>

\* A mutant of FrameArrives: the cursor stays where loading put it.
FaultyFrameArrives ==
  /\ page.stage = "streaming" /\ store.timeline.size < recording.frames
  /\ Put(WithTimeline(store, LiveTimeline(store.timeline.size + 1)), FALSE)
  /\ UNCHANGED <<recording, page, address, story>>

\* A frame event: the timeline grows and every pane is taken to its end.
FrameArrives ==
  /\ page.stage = "streaming" /\ store.timeline.size < recording.frames
  /\ LET tl == LiveTimeline(store.timeline.size + 1)
     IN  Put(WithCursor(WithTimeline(store, tl), tl.size - 1), FALSE)
  /\ UNCHANGED <<recording, page, address, story>>

\* The last event: sealed.
StreamEnds ==
  /\ page.stage = "streaming" /\ recording.sealed
  /\ store.timeline.size = recording.frames
  /\ page' = [page EXCEPT !.stage = "refreshing"]
  /\ UNCHANGED <<recording, store, address, mirror, pacer, mapTick, story>>

\* /api/timeline and the others, or /api/run-lifecycle.
LoadRecord ==
  /\ page.stage \in {"fetching", "refreshing"}
  /\ Load(SealedTimeline(recording.record), "loaded")
  /\ UNCHANGED <<recording, address, story>>

\* setLoadError: a fetch that fails, a stream that breaks off or ends with an
\* extension that does not match.
FetchFails ==
  /\ page.stage \in {"start", "opening", "streaming", "fetching", "refreshing"}
  /\ story.troubles > 0
  /\ page' = [page EXCEPT !.stage = "failed", !.error = TRUE]
  /\ Put(store, TRUE)
  /\ story' = [story EXCEPT !.troubles = @ - 1]
  /\ UNCHANGED <<recording, address>>

\* What is to be seen of a store: a moment, a focus, the portals and the panel.
View(s) == <<IdAt(s.timeline, s.cursor), s.selection, s.portals, s.panel>>

\* A page that is opened again keeps its address and nothing else.
Reload ==
  /\ story.reloads > 0
  /\ story' = [story EXCEPT !.reloads = @ - 1, !.touched = FALSE,
                 !.kept = IF page.stage = "loaded" /\ ~mirror
                          THEN {View(store)} ELSE {}]
  /\ page' = [stage |-> "start", error |-> FALSE, applied |-> FALSE]
  /\ store' = EmptyStore /\ mirror' = FALSE /\ pacer' = NotPacing /\ mapTick' = NoTick
  /\ UNCHANGED <<recording, address>>

-----------------------------------------------------------------------------
(* The user.                                                               *)

Touch(s) ==
  /\ ScrubBarShown /\ story.touches > 0
  /\ Put(s, FALSE)
  /\ story' = [story EXCEPT !.touches = @ - 1, !.touched = TRUE]
  /\ UNCHANGED <<recording, page, address>>

\* The slider, the single steps and the jumps.
MoveCursor ==
  \E t \in 0..MaxCursor(store.timeline) :
    t # store.cursor /\ Touch([store EXCEPT !.cursor = t])

TogglePlay == Touch([store EXCEPT !.playing = ~@])

ChooseSpeed == \E speed \in PlaySpeeds \ {store.speed} : Touch([store EXCEPT !.speed = speed])

\* focusAndOpenPortal; a portal that is open stays where it is.
Focus ==
  \E ref \in Refs :
    Touch([store EXCEPT !.selection = ref,
             !.portals = IF \E i \in DOMAIN @ : @[i] = ref THEN @ ELSE Append(@, ref)])

ClosePortal ==
  \E i \in DOMAIN store.portals :
    LET others == {j \in DOMAIN store.portals : store.portals[j] # store.portals[i]}
    IN  Touch([store EXCEPT !.portals = AtPlaces(@, others)])

ChoosePanel ==
  \E panel \in {"map", "conversation"} \ {store.panel} : Touch([store EXCEPT !.panel = panel])

-----------------------------------------------------------------------------
(* A frame of the browser while the cursor is played: it is computed from  *)
(* the anchor, which is set anew when somebody else moved the cursor.      *)
PlayFrame ==
  /\ ScrubBarShown /\ store.playing
  /\ \E elapsed \in FrameTimes :
       LET tl     == store.timeline
           kept   == pacer.on /\ pacer.written = store.cursor
           anchor == IF kept THEN pacer.anchor ELSE store.cursor
           total  == IF kept THEN pacer.total + elapsed ELSE 0
           next   == CursorAtElapsed(tl, recording.record, store.speed, anchor, total)
           over   == next >= MaxCursor(tl)
       IN  /\ store' = [store EXCEPT !.cursor = next, !.playing = ~over]
           /\ mirror' = (mirror \/ over \/ ~pacer.on \/ next # pacer.written)
           /\ pacer' = IF over THEN NotPacing
                       ELSE [on |-> TRUE, anchor |-> anchor, total |-> total, written |-> next]
           /\ mapTick' = IF over THEN TickAtCursor(tl, recording.record, next)
                         ELSE TickAtElapsed(tl, recording.record, store.speed, anchor, total)
  /\ UNCHANGED <<recording, page, address, story>>

-----------------------------------------------------------------------------
ShellInit ==
  /\ recording \in [record : Runs, frames : {0}, sealed : BOOLEAN]
  /\ page = [stage |-> "start", error |-> FALSE, applied |-> FALSE]
  /\ store = EmptyStore
  /\ address \in Links
  /\ mirror = FALSE
  /\ pacer = NotPacing
  /\ mapTick = NoTick
  /\ story = [kept |-> {}, touched |-> FALSE, troubles |-> MaxTroubles,
              touches |-> MaxTouches, reloads |-> MaxReloads]

ShellNext ==
  \/ RecordFrame \/ FetchState \/ OpenStream \/ FrameArrives \/ StreamEnds
  \/ LoadRecord \/ FetchFails \/ Reload \/ WriteAddress
  \/ MoveCursor \/ TogglePlay \/ ChooseSpeed \/ Focus \/ ClosePortal \/ ChoosePanel
  \/ PlayFrame

ShellSpec == ShellInit /\ [][ShellNext]_shellVars

-----------------------------------------------------------------------------
(* A view is a value (deepLink.ts): once nothing is waiting to be written  *)
(* the address names the view, and a record that is loaded from such an    *)
(* address shows what the page showed before, until the user moves on.     *)
ViewIsValue ==
  /\ Loaded /\ ~mirror
       => <<address.at, address.sel, address.portals, address.panel>> = View(store)
  /\ page.stage = "loaded" /\ ~story.touched
       => \A view \in story.kept : View(store) = view
  /\ store.cursor <= MaxCursor(store.timeline)
  /\ \A i, j \in DOMAIN store.portals : store.portals[i] = store.portals[j] => i = j

(* Every pane is at the run's end while the page follows a run nobody      *)
(* touched, and a record that has samples has a time to move through.      *)
FollowsTheEnd ==
  /\ page.stage = "streaming" /\ ~story.touched => store.cursor = MaxCursor(store.timeline)
  /\ page.stage = "loaded" /\ recording.record.samples # <<>> => store.timeline.size > 0

(* One clock (timeline.ts): the map never shows a tick the cursor has not  *)
(* come to, and never one the cursor has left; a cursor at rest shows its  *)
(* own tick, to half a tick.  And a pass from the first event takes no     *)
(* longer than the scrub bar says, realDurationMs.                         *)
OneClock ==
  LET tl    == store.timeline
      r     == recording.record
      index == IndexTimes(tl, r)
      c     == store.cursor
      Half  == mapTick[2] * r.unit
      rate  == Rate(tl, r, store.speed)
  IN  /\ ScrubBarShown /\ Indexed(tl, r) =>
        /\ ~store.playing => Distance(2 * mapTick[1], 2 * index[c + 1] * mapTick[2]) <= Half
        /\ store.playing /\ pacer.on /\ pacer.written = c =>
             /\ index[c + 1] * mapTick[2] <= mapTick[1]
             /\ c < MaxCursor(tl) /\ pacer.total > 0
                  => mapTick[1] < index[c + 2] * mapTick[2]
      /\ ScrubBarShown /\ pacer.on /\ pacer.anchor = 0 /\ pacer.written = c
           /\ (Indexed(tl, r) => tl.kind = "sample")
         => pacer.total * rate[1] < MaxCursor(tl) * rate[2]

(* The page of one run: its view, its following and its clock.             *)
ShellExact == ViewIsValue /\ FollowsTheEnd /\ OneClock

(* A cursor that is played comes to rest; frames keep coming as long as    *)
(* one may, which is just while ShellGoing.                                *)
ShellGoing == ScrubBarShown /\ store.playing
ShellRests == ~ScrubBarShown \/ ~store.playing
=============================================================================
