------------------------------ MODULE TraceView ------------------------------
(***************************************************************************)
(* What is told of a run of the engine once it is over: the sightings of   *)
(* markers appended to its trace (src/runtime/trace-run.ts), the scene the *)
(* viewer shows (viewer-spatial.ts, viewer-trace.ts) and the probes that   *)
(* judge the run (src/report/probes.ts, probeArtifact.ts).                 *)
(*                                                                         *)
(* All of it is computed from the events and the samples, never from the   *)
(* engine's own state.  Coordinates, labels and wording are left out.      *)
(***************************************************************************)
EXTENDS TickEngine

RunOver == tick = sim.ticks

SampleOf(t) == samples[t + 1]

-----------------------------------------------------------------------------
(* Markers.  A message mentions a marker or it does not; the sightings are *)
(* appended behind everything else, marker by marker.                      *)

Hits(marker) ==
  SelectSeq([i \in DOMAIN log |-> log[i]],
            LAMBDA e : <<e.kind, e.target>> \in marker.mentioned)

Sightings ==
  FlattenSeq([m \in DOMAIN sim.markers |->
    LET hits == Hits(sim.markers[m])
    IN  [i \in DOMAIN hits |->
          [kind |-> "marker.seen", actor |-> sim.markers[m].id,
           target |-> hits[i].target, tick |-> hits[i].tick]]])

Trace == log \o Sightings

-----------------------------------------------------------------------------
(* Probes.  A condition without an event in it is asked of every sample,   *)
(* one with an event of every event, with the sample of the tick whose     *)
(* clock.sync stands before it.  Hold timers run along the occurrences.    *)

RECURSIVE HasEvent(_)
HasEvent(node) ==
  CASE node.kind = "event" -> TRUE
    [] node.kind \in {"all", "any"} ->
         \E i \in DOMAIN node.nodes : HasEvent(node.nodes[i])
    [] node.kind = "not" -> HasEvent(node.node)
    [] OTHER -> FALSE

Occurrence(id, s, events) ==
  [id |-> id, time |-> s.time, phase |-> s.phase, vars |-> s.vars, events |-> events]

SampleOccurrences ==
  LET clocks == SelectSeq(Trace, LAMBDA e : e.kind = "clock.sync")
  IN  [i \in DOMAIN clocks |-> Occurrence(<<"sample", i>>, SampleOf(clocks[i].tick), <<>>)]

EventOccurrences ==
  LET trace    == Trace
      Clock(i) == Max({j \in 1..i : trace[j].kind = "clock.sync"})
  IN  [i \in DOMAIN trace |->
        Occurrence(<<"event", i>>, SampleOf(trace[Clock(i)].tick), <<trace[i]>>)]

SelectOccurrences(node) ==
  IF HasEvent(node) THEN EventOccurrences ELSE SampleOccurrences

MatchingOccurrences(node) ==
  FoldLeft(LAMBDA m, o :
             LET e == Eval(node, o, m.timers)
             IN  [timers |-> e.timers,
                  matched |-> IF e.is THEN Append(m.matched, o) ELSE m.matched],
           [timers |-> <<>>, matched |-> <<>>], SelectOccurrences(node)).matched

\* A fault: what happens in the same tick counts as after.
FaultyMatched(probe) ==
  LET matches == MatchingOccurrences(probe.when)
      after   == IF probe.after = None THEN <<>> ELSE MatchingOccurrences(probe.after)
  IN  SelectSeq(matches, LAMBDA o :
        \/ probe.after = None
        \/ \E i \in DOMAIN after : /\ after[i].time <= o.time
                                   /\ o.time - after[i].time <= probe.within)

Matched(probe) ==
  LET matches == MatchingOccurrences(probe.when)
      after   == IF probe.after = None THEN <<>> ELSE MatchingOccurrences(probe.after)
  IN  SelectSeq(matches, LAMBDA o :
        \/ probe.after = None
        \/ \E i \in DOMAIN after : /\ after[i].time < o.time
                                   /\ o.time - after[i].time <= probe.within)

EvaluateProbe(probe) ==
  LET base    == SelectOccurrences(probe.when)
      matched == Matched(probe)
  IN  CASE probe.expect = "at_least" -> Len(matched) >= probe.count
        [] probe.expect = "at_most" -> Len(matched) <= probe.count
        [] probe.expect = "always" -> base # <<>> /\ Len(matched) = Len(base)
        [] probe.expect = "at_end" ->
             matched # <<>> /\ matched[Len(matched)].id = base[Len(base)].id

-----------------------------------------------------------------------------
(* The scene.  A journey is read from the sample of the tick in which the  *)
(* agent left, its path from the routes in the order of their names.       *)

Fits(r, from, to) ==
  \/ r.from = from /\ r.to = to
  \/ r.both /\ r.from = to /\ r.to = from

RouteIdFor(from, to) ==
  LET fits == {sim.routes[i].id : i \in {j \in DOMAIN sim.routes : Fits(sim.routes[j], from, to)}}
  IN  IF fits = {} THEN None ELSE Min(fits)

\* A fault: the journey is read from the sample before the agent left.
FaultyTransitAtDeparture(who, from, t) ==
  LET journey == SampleOf(IF t = 0 THEN 0 ELSE t - 1).transit[who]
  IN  IF journey # None /\ journey.from = from THEN journey ELSE None

TransitAtDeparture(who, from, t) ==
  LET journey == SampleOf(t).transit[who]
  IN  IF journey # None /\ journey.from = from THEN journey ELSE None

Shown(type, who, from, to, t, until, path) ==
  [type |-> type, actor |-> who, from |-> from, to |-> to, tick |-> t,
   until |-> until, path |-> path]

PresenceOf(e) ==
  LET journey == TransitAtDeparture(e.actor, e.target, e.tick)
      path    == IF journey = None THEN None ELSE RouteIdFor(journey.from, journey.to)
      Leg(type) == Shown(type, e.actor, journey.from, journey.to, e.tick, journey.at, path)
  IN  CASE e.kind = "presence.arrived" ->
             <<Shown(e.kind, e.actor, None, e.target, e.tick, None, None)>>
        [] e.kind = "presence.left" /\ path # None ->
             <<Leg("presence.departed"), Leg("presence.in_transit")>>
        [] OTHER -> <<>>

ViewerPresence == FlattenSeq([i \in DOMAIN Trace |-> PresenceOf(Trace[i])])

ViewerRooms ==
  sim.places \union {Trace[i].target : i \in {j \in DOMAIN Trace : Trace[j].kind = "world.message"}}

ViewerCorridors ==
  {[id |-> sim.routes[i].id, from |-> sim.routes[i].from, to |-> sim.routes[i].to] :
     i \in {j \in DOMAIN sim.routes : {sim.routes[j].from, sim.routes[j].to} \subseteq ViewerRooms}}

PlacedAgents ==
  {a \in DOMAIN sim.presence :
     \/ sim.presence[a] # Nowhere
     \/ \E i \in DOMAIN samples : samples[i].presence[a] # Nowhere \/ samples[i].transit[a] # None}

ViewerAgents ==
  PlacedAgents \union {Trace[i].target : i \in {j \in DOMAIN Trace : Trace[j].kind = "world.dm"}}
               \union {Trace[i].actor : i \in {j \in DOMAIN Trace : Trace[j].kind = "world.act"}}

\* A fact is dated by the first sample that has its time.
TickForEvent(e) ==
  Min({i \in DOMAIN samples : samples[i].time = SimTime(e.tick)}) - 1

-----------------------------------------------------------------------------
(* What a probe means, said of the whole run: a moment is a tick, or an    *)
(* event of a tick (0 where no event is asked for).                        *)

\* A sighting belongs to the tick of the message it was found in, but is told
\* of at the end, with the sample of the last tick (probeArtifact.ts:169).
MadeAt(i) == Trace[i].tick
ToldAt(i) == IF i <= Len(log) THEN MadeAt(i) ELSE sim.ticks - 1

Moments(node, Date(_)) ==
  IF HasEvent(node) THEN {<<Date(i), i>> : i \in DOMAIN Trace}
                    ELSE {<<t, 0>> : t \in 0..(tick - 1)}

Within(node, t) ==
  node.above < SampleOf(t).vars[node.variable] /\ SampleOf(t).vars[node.variable] < node.below

RECURSIVE True(_, _)
True(node, m) ==
  CASE node.kind = "variable" ->
         IF node.for = None THEN Within(node, m[1])
         ELSE \E s \in 0..m[1] : /\ \A u \in s..m[1] : Within(node, u)
                                 /\ SimTime(m[1]) - SimTime(s) >= node.for
    [] node.kind = "phase" -> PhaseAt(SimTime(m[1])) = node.phase
    [] node.kind = "event" -> m[2] # 0 /\ MatchesEvent(node, Trace[m[2]])
    [] node.kind = "all" -> \A i \in DOMAIN node.nodes : True(node.nodes[i], m)
    [] node.kind = "any" -> \E i \in DOMAIN node.nodes : True(node.nodes[i], m)
    [] node.kind = "not" -> ~True(node.node, m)

Meant(probe, Date(_)) ==
  LET asked == Moments(probe.when, Date)
      first == IF probe.after = None THEN {}
               ELSE {a \in Moments(probe.after, Date) : True(probe.after, a)}
      hit   == {m \in asked :
                  /\ True(probe.when, m)
                  /\ probe.after # None =>
                       \E a \in first : /\ a[1] < m[1]
                                        /\ SimTime(m[1] - a[1]) <= probe.within}
      Later(m, n) == m[1] > n[1] \/ (m[1] = n[1] /\ m[2] > n[2])
  IN  CASE probe.expect = "at_least" -> Cardinality(hit) >= probe.count
        [] probe.expect = "at_most" -> Cardinality(hit) <= probe.count
        [] probe.expect = "always" -> asked # {} /\ hit = asked
        [] probe.expect = "at_end" ->
             \E m \in hit : \A n \in asked \ {m} : Later(m, n)

\* A probe passes exactly when what it asks is true of the run, although its
\* timers and its windows are computed along a list of events and samples put
\* together from two sources (probeArtifact.ts:158).  Two exceptions, both
\* against docs/DESIGN.md: a hold that stands behind another condition (589),
\* and a verdict that turns on when a marker was seen (710-714: "a marker landed
\* within 3 ticks of the crossing"), which the code takes from the last tick.
ProbesExact ==
  \A i \in DOMAIN sim.probes :
    LET p == sim.probes[i]
    IN  /\ ~Guarded(p.when) /\ (p.after # None => ~Guarded(p.after))
        /\ Meant(p, MadeAt) = Meant(p, ToldAt)
          => EvaluateProbe(p) = Meant(p, MadeAt)

\* Following the presence entries up to any tick shows every agent where the
\* sample of that tick has it, under way from where to where and until when
\* (viewer-spatial.ts:210 reads the journey from another record than the event).
WhereaboutsShown ==
  LET shown == ViewerPresence IN
  \A t \in 0..(tick - 1), a \in DOMAIN sim.presence :
    LET mine == SelectSeq(shown, LAMBDA p : p.actor = a /\ p.tick <= t)
        last == mine[Len(mine)]
        here == SampleOf(t).presence[a]
        way  == SampleOf(t).transit[a]
    IN  IF mine = <<>> THEN here = Nowhere /\ way = None
        ELSE IF last.type = "presence.arrived" THEN here = last.to /\ way = None
        ELSE /\ here = Nowhere
             /\ way = [from |-> last.from, to |-> last.to, at |-> last.until]

\* The scene is closed: every agent, room and path that is shown is declared in
\* it, and a path joins the two rooms of its journey.
SceneClosed ==
  LET shown == ViewerPresence  rooms == ViewerRooms
      agents == ViewerAgents  corridors == ViewerCorridors
  IN
  \A i \in DOMAIN shown :
    LET p == shown[i]
    IN  /\ p.actor \in agents
        /\ p.to \in rooms
        /\ p.path # None =>
             \E c \in corridors : c.id = p.path /\ {c.from, c.to} = {p.from, p.to}

\* What is told of a finished run is what happened in it: its scene, the dates
\* of its facts and the verdicts of its probes.
TraceShown ==
  RunOver =>
    /\ ProbesExact
    /\ WhereaboutsShown
    /\ SceneClosed
    /\ \A e \in {Trace[i] : i \in DOMAIN Trace} : TickForEvent(e) = e.tick

\* The engine computes what the simfile means, and what is told of a finished
\* run is what the engine did.
TraceExact == EngineExact /\ TraceShown
=============================================================================
