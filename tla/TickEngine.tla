----------------------------- MODULE TickEngine -----------------------------
(***************************************************************************)
(* The clock driven engine (src/runtime/step-tick.ts and what it calls):   *)
(* a simfile declares variables, generators, rules, places and routes, and *)
(* every tick is one pass over them in a fixed order.                      *)
(*                                                                         *)
(* A tick is one synchronous call, so it is one action.  It is written as  *)
(* the code is, as a chain of stages; a stage takes and returns a record   *)
(* w, what the function has computed so far.                               *)
(*                                                                         *)
(* Numbers are integers, an expression is the sum of the variables it      *)
(* names, a random draw is fixed by the seed (draws) as in the kernel.     *)
(* The files a run writes are left out; see TraceView for what is told of  *)
(* it when it is over.                                                     *)
(***************************************************************************)
EXTENDS Integers, SequencesExt, FiniteSetsExt

CONSTANTS
  Simfiles,     \* the compiled declarations a run may be started with
  ActQueues,    \* the sequences of queued world acts it may be given
  Draws,        \* what the seeded generator may answer: [tick -> number]
  Agents,       \* a sequence, in the order of their identifiers
  Nowhere, None

VARIABLES
  sim, acts, draws,        \* fixed when the run starts
  tick, state,             \* the next tick and the variables before it
  presence, transit,       \* where the agents are, or their journeys
  memory, holds,           \* what each rule and each condition remembers
  results, resultOf,       \* the outcome of each act; and by identifier
  log,                     \* every event minted, in order
  samples,                 \* how each tick ended
  seen                     \* history: what the rules were shown in each tick

vars == <<sim, acts, draws, tick, state, presence, transit, memory, holds,
          results, resultOf, log, samples, seen>>

Variables == DOMAIN sim.variables
Ids(seq) == {seq[i].id : i \in DOMAIN seq}

-----------------------------------------------------------------------------
(* The clock and the arithmetic. *)

SimTime(t) == t * sim.perTick

\* The phases are sorted by their start; before the first one of the day the
\* last one of the day before goes on.
PhaseAt(time) ==
  LET now  == time % sim.day
      past == {i \in DOMAIN sim.phases : sim.phases[i].start <= now}
  IN  IF sim.phases = <<>> THEN None
      ELSE sim.phases[IF past = {} THEN Len(sim.phases) ELSE Max(past)].id

Clamp(x, v) ==
  LET r == sim.variables[v]
  IN  IF x < r.min THEN r.min ELSE IF x > r.max THEN r.max ELSE x

Sum(names, values) == FoldLeft(LAMBDA s, v : s + values[v], 0, names)

\* The order in which derived variables are computed: depth first from each
\* declared one, dependencies first.
RECURSIVE Visit(_, _)
Visit(order, v) ==
  IF Contains(order, v) THEN order
  ELSE Append(FoldLeft(LAMBDA o, d : IF sim.variables[d].derive = None
                                     THEN o ELSE Visit(o, d),
                       order, sim.variables[v].derive), v)

\* A fault: derived variables in the order in which they are declared.
FaultyDerivedOrder ==
  SelectSeq(sim.declared, LAMBDA v : sim.variables[v].derive # None)

DerivedOrder ==
  FoldLeft(Visit, <<>>,
           SelectSeq(sim.declared, LAMBDA v : sim.variables[v].derive # None))

\* The first route declared in a direction is the one that counts.
Travel(from, to) ==
  LET fits == {i \in DOMAIN sim.routes :
                 LET r == sim.routes[i]
                 IN  \/ r.from = from /\ r.to = to
                     \/ r.both /\ r.from = to /\ r.to = from}
  IN  IF fits = {} THEN None ELSE sim.routes[Min(fits)].ticks

-----------------------------------------------------------------------------
(* Conditions.  An evaluation returns whether the condition holds and the  *)
(* hold timers after it: "all" and "any" stop at the child that decides    *)
(* them, and the timers of the children behind it are not touched.         *)

\* A fault: the timer of a broken hold goes on.
FaultyEvalVariable(node, c, timers) ==
  LET inside == node.above < c.vars[node.variable]
                  /\ c.vars[node.variable] < node.below
  IN  IF node.for = None THEN [is |-> inside, timers |-> timers]
      ELSE IF inside /\ node \notin DOMAIN timers
      THEN [is |-> node.for <= 0, timers |-> (node :> c.time) @@ timers]
      ELSE [is |-> inside /\ c.time - timers[node] >= node.for, timers |-> timers]

EvalVariable(node, c, timers) ==
  LET inside  == node.above < c.vars[node.variable]
                   /\ c.vars[node.variable] < node.below
      running == node \in DOMAIN timers
  IN  IF node.for = None THEN [is |-> inside, timers |-> timers]
      ELSE IF ~inside
      THEN [is |-> FALSE,
            timers |-> [k \in DOMAIN timers \ {node} |-> timers[k]]]
      ELSE IF running
      THEN [is |-> c.time - timers[node] >= node.for, timers |-> timers]
      ELSE [is |-> node.for <= 0, timers |-> (node :> c.time) @@ timers]

MatchesEvent(node, event) ==
  /\ event.kind = node.event
  /\ node.actor \in {None, event.actor}
  /\ node.target \in {None, event.target}

RECURSIVE Eval(_, _, _)
Eval(node, c, timers) ==
  CASE node.kind = "variable" -> EvalVariable(node, c, timers)
    [] node.kind = "phase" -> [is |-> c.phase = node.phase, timers |-> timers]
    [] node.kind = "event" ->
         [is |-> \E i \in DOMAIN c.events : MatchesEvent(node, c.events[i]),
          timers |-> timers]
    [] node.kind = "all" ->
         FoldLeft(LAMBDA e, n : IF e.is THEN Eval(n, c, e.timers) ELSE e,
                  [is |-> TRUE, timers |-> timers], node.nodes)
    [] node.kind = "any" ->
         FoldLeft(LAMBDA e, n : IF e.is THEN e ELSE Eval(n, c, e.timers),
                  [is |-> FALSE, timers |-> timers], node.nodes)
    [] node.kind = "not" ->
         LET e == Eval(node.node, c, timers) IN [e EXCEPT !.is = ~@]

-----------------------------------------------------------------------------
(* The queued acts are all judged before the first tick.  An identifier is *)
(* used up by the first act that carries it, whatever becomes of that act; *)
(* resultsByActId keeps the last result stored under it.                   *)

Verdict(act, used) ==
  IF act.id \in used THEN "duplicate"
  ELSE IF act.at >= sim.ticks THEN "run_closed"
  ELSE IF act.variable \notin Variables THEN "unknown_variable"
  ELSE IF sim.variables[act.variable].fedBy # act.actor THEN "not_authorized"
  ELSE IF act.value < sim.variables[act.variable].min
            \/ act.value > sim.variables[act.variable].max THEN "out_of_range"
  ELSE "accepted"

IngestAct(in, act) ==
  [used    |-> in.used \union {act.id},
   results |-> Append(in.results,
                      [code |-> Verdict(act, in.used), event |-> None]),
   of      |-> (act.id :> Len(in.results) + 1) @@ in.of]

Ingest ==
  FoldLeft(IngestAct, [used |-> {}, results |-> <<>>, of |-> <<>>], acts)

\* The accepted acts of a tick, in the order they came in.
Queue(t) ==
  SelectSeq([i \in DOMAIN acts |-> i],
            LAMBDA i : results[i].code = "accepted" /\ acts[i].at = t)

-----------------------------------------------------------------------------
(* The stages of a tick. *)

Event(w, kind, actor, target) ==
  [kind |-> kind, actor |-> actor, target |-> target, tick |-> w.tick]

Emit(w, kind, actor, target) ==
  [w EXCEPT !.events = Append(@, Event(w, kind, actor, target))]

Context(w, values) ==
  [vars |-> values, time |-> w.time, phase |-> w.phase, events |-> w.events]

BeginTick ==
  Emit([tick |-> tick, time |-> SimTime(tick), phase |-> PhaseAt(SimTime(tick)),
        vars |-> state, next |-> state, events |-> <<>>,
        presence |-> presence, transit |-> transit, memory |-> memory,
        holds |-> holds, results |-> results,
        upto |-> [r \in Ids(sim.rules) |-> 0]],
       "clock.sync", "world", "global")

\* Travellers whose time has come, and on the first tick everyone present.
Arrive(w) ==
  FoldLeft(LAMBDA u, a :
             IF u.transit[a] # None /\ u.transit[a].at = u.tick
             THEN Emit([u EXCEPT !.presence[a] = u.transit[a].to,
                                 !.transit[a] = None],
                       "presence.arrived", a, u.transit[a].to)
             ELSE u,
           w, Agents)

Appear(w) ==
  IF w.tick # 0 THEN w
  ELSE FoldLeft(LAMBDA u, a :
                  IF u.presence[a] = Nowhere THEN u
                  ELSE Emit(u, "presence.arrived", a, u.presence[a]),
                w, Agents)

\* The result an act's event is noted in is looked up by its identifier.
ApplyAct(w, i) ==
  LET act == acts[i]
      e   == Emit([w EXCEPT !.vars[act.variable] = Clamp(act.value, act.variable)],
                  "world.act", act.actor, act.variable)
  IN  [e EXCEPT !.results[resultOf[act.id]].event = Len(log) + Len(e.events)]

ApplyActs(w) == FoldLeft(ApplyAct, w, Queue(w.tick))

RunGenerator(w, g) ==
  LET e      == IF g.when = None THEN [is |-> TRUE, timers |-> w.holds[g.id]]
                ELSE Eval(g.when, Context(w, w.vars), w.holds[g.id])
      amount == IF g.mode = "stochastic" THEN draws[w.tick]
                ELSE g.amount + Sum(g.of, w.vars)
      value  == IF g.mode = "set" THEN amount ELSE w.vars[g.target] + amount
      v      == [w EXCEPT !.holds[g.id] = e.timers]
  IN  IF e.is THEN [v EXCEPT !.vars[g.target] = Clamp(value, g.target)]
      ELSE v

Generate(w) == FoldLeft(RunGenerator, w, sim.generators)

Derive(w) ==
  FoldLeft(LAMBDA u, v :
             [u EXCEPT !.vars[v] = Clamp(Sum(sim.variables[v].derive, u.vars), v)],
           w, DerivedOrder)

\* A fault: the agent stays where it is until it arrives.
FaultyMoveAgent(w, act) ==
  LET from   == w.presence[act.agent]
      travel == IF from = Nowhere THEN None ELSE Travel(from, act.to)
  IN  IF w.transit[act.agent] # None \/ travel = None THEN w
      ELSE Emit([w EXCEPT !.transit[act.agent] =
                             [from |-> from, to |-> act.to,
                              at |-> w.tick + travel]],
                "presence.left", act.agent, from)

\* Rules see the variables as they were before any rule ran (w.vars) and
\* change the next ones (w.next); whereabouts and events they see as they are.
MoveAgent(w, act) ==
  LET from   == w.presence[act.agent]
      travel == IF from = Nowhere THEN None ELSE Travel(from, act.to)
  IN  IF w.transit[act.agent] # None \/ travel = None THEN w
      ELSE Emit([w EXCEPT !.presence[act.agent] = Nowhere,
                          !.transit[act.agent] =
                             [from |-> from, to |-> act.to,
                              at |-> w.tick + travel]],
                "presence.left", act.agent, from)

InTransit(w, who) == Contains(Agents, who) /\ w.transit[who] # None

RunAction(w, act) ==
  CASE act.action = "variable:set" ->
         [w EXCEPT !.next[act.variable] = Clamp(act.value, act.variable)]
    [] act.action = "variable:delta" ->
         [w EXCEPT !.next[act.variable] = Clamp(@ + act.value, act.variable)]
    [] act.action = "move" -> MoveAgent(w, act)
    [] act.action = "moltnet:message" -> Emit(w, "world.message", "world", act.to)
    [] act.action = "moltnet:dm" ->
         IF InTransit(w, act.to) THEN w ELSE Emit(w, "world.dm", "world", act.to)

\* What a rule is about: the first place or agent one of its actions names.
TargetOf(do) ==
  LET named == {i \in DOMAIN do : "to" \in DOMAIN do[i]}
  IN  IF named = {} THEN "global" ELSE do[Min(named)].to

ShouldFire(rule, matches, remembered) ==
  IF rule.fire = "once" THEN matches /\ ~remembered.fired
  ELSE matches /\ ~remembered.matched

RunRule(w, r) ==
  LET e     == Eval(r.when, Context(w, w.vars), w.holds[r.id])
      fires == ShouldFire(r, e.is, w.memory[r.id])
      v     == [w EXCEPT !.holds[r.id] = e.timers,
                         !.memory[r.id] = [matched |-> e.is,
                                           fired |-> @.fired \/ fires],
                         !.upto[r.id] = Len(log) + Len(w.events)]
  IN  IF fires THEN FoldLeft(RunAction, Emit(v, "rule.fired", r.id, TargetOf(r.do)), r.do)
      ELSE v

RunRules(w) == FoldLeft(RunRule, [w EXCEPT !.next = w.vars], sim.rules)

-----------------------------------------------------------------------------
Init ==
  /\ sim \in Simfiles
  /\ acts \in ActQueues
  /\ draws \in Draws
  /\ tick = 0
  /\ state = [v \in Variables |-> Clamp(sim.variables[v].initial, v)]
  /\ presence = sim.presence
  /\ transit = [a \in DOMAIN sim.presence |-> None]
  /\ memory = [r \in Ids(sim.rules) |-> [matched |-> FALSE, fired |-> FALSE]]
  /\ holds = [c \in Ids(sim.rules) \union Ids(sim.generators) |-> <<>>]
  /\ results = Ingest.results
  /\ resultOf = Ingest.of
  /\ log = <<>>
  /\ samples = <<>>
  /\ seen = <<>>

StepTick ==
  /\ tick < sim.ticks
  /\ LET w == RunRules(Derive(Generate(ApplyActs(Appear(Arrive(BeginTick))))))
         ended == [v \in Variables |-> Clamp(w.next[v], v)]
     IN  /\ state' = ended
         /\ samples' = Append(samples,
              [tick |-> tick, time |-> w.time, phase |-> w.phase, vars |-> ended,
               presence |-> w.presence, transit |-> w.transit])
         /\ presence' = w.presence
         /\ transit' = w.transit
         /\ memory' = w.memory
         /\ holds' = w.holds
         /\ results' = w.results
         /\ log' = log \o w.events
         /\ seen' = Append(seen, [vars |-> w.vars, upto |-> w.upto])
  /\ tick' = tick + 1
  /\ UNCHANGED <<sim, acts, draws, resultOf>>

Spec == Init /\ [][StepTick]_vars
-----------------------------------------------------------------------------
(* What the conditions mean, said of the whole run rather than computed    *)
(* tick by tick: a hold is true in a tick when the variable was inside its *)
(* bounds in every tick since one that is long enough ago.                 *)

Inside(node, t) ==
  /\ node.above < seen[t + 1].vars[node.variable]
  /\ seen[t + 1].vars[node.variable] < node.below

Sustained(node, t) ==
  IF node.for = None THEN Inside(node, t)
  ELSE \E s \in 0..t : /\ \A u \in s..t : Inside(node, u)
                       /\ SimTime(t) - SimTime(s) >= node.for

RECURSIVE Means(_, _, _)
Means(node, r, t) ==
  CASE node.kind = "variable" -> Sustained(node, t)
    [] node.kind = "phase" -> PhaseAt(SimTime(t)) = node.phase
    [] node.kind = "event" ->
         \E i \in 1..seen[t + 1].upto[r.id] : log[i].tick = t
                                              /\ MatchesEvent(node, log[i])
    [] node.kind = "all" -> \A i \in DOMAIN node.nodes : Means(node.nodes[i], r, t)
    [] node.kind = "any" -> \E i \in DOMAIN node.nodes : Means(node.nodes[i], r, t)
    [] node.kind = "not" -> ~Means(node.node, r, t)

RECURSIVE HasHold(_)
HasHold(node) ==
  CASE node.kind = "variable" -> node.for # None
    [] node.kind \in {"all", "any"} ->
         \E i \in DOMAIN node.nodes : HasHold(node.nodes[i])
    [] node.kind = "not" -> HasHold(node.node)
    [] OTHER -> FALSE

\* A hold behind another child of "all" or "any" may be passed over.
RECURSIVE Guarded(_)
Guarded(node) ==
  CASE node.kind \in {"all", "any"} ->
         \E i \in DOMAIN node.nodes : IF i = 1 THEN Guarded(node.nodes[i])
                                               ELSE HasHold(node.nodes[i])
    [] node.kind = "not" -> Guarded(node.node)
    [] OTHER -> FALSE

Happened(kind, actor, t) ==
  \E i \in DOMAIN log : log[i].kind = kind /\ log[i].actor = actor /\ log[i].tick = t

FiresAsItMeans(r) ==
  \A t \in 0..(tick - 1) :
    Happened("rule.fired", r.id, t) <=>
      /\ Means(r.when, r, t)
      /\ IF r.fire = "once" THEN \A u \in 0..(t - 1) : ~Means(r.when, r, u)
         ELSE t = 0 \/ ~Means(r.when, r, t - 1)

\* A rule fires in exactly the ticks in which its condition becomes true, or
\* the first one if it fires once (step-tick.ts:123-131): the timers, the
\* remembered match and the events of the tick together say what the condition
\* says of the run.  For the rules whose holds are never passed over.
CrossingsExact ==
  \A i \in DOMAIN sim.rules :
    ~Guarded(sim.rules[i].when) => FiresAsItMeans(sim.rules[i])

\* docs/DESIGN.md:589 says of a hold that "the condition must hold continuously
\* for the duration, and any false tick resets the timer": so a rule never fires
\* when the hold it asks for was broken within that duration.  A tick in which
\* the children before it decide the condition does not reset its timer
\* (condition.ts:190).
HoldIsContinuous ==
  \A i \in DOMAIN sim.rules, t \in 0..(tick - 1) :
    Happened("rule.fired", sim.rules[i].id, t)
      => Means(sim.rules[i].when, sim.rules[i], t)

Visits(a) ==
  SelectSeq(log, LAMBDA e : e.actor = a /\ e.kind \in {"presence.arrived", "presence.left"})

\* Every journey is whole: the log of an agent alternates between arriving and
\* leaving where it arrived, arrives only along a route and exactly its travel
\* time after it left, is undisturbed on the way, and ends where the agent is.
JourneysExact ==
  \A k \in DOMAIN Agents :
    LET a == Agents[k]
        v == Visits(a)
        Left(i) == v[i].kind = "presence.left"
    IN  /\ \A i \in 1..(Len(v) - 1) :
             IF Left(i)
             THEN /\ ~Left(i + 1)
                  /\ Travel(v[i].target, v[i + 1].target) = v[i + 1].tick - v[i].tick
             ELSE Left(i + 1) /\ v[i + 1].target = v[i].target
        /\ v # <<>> =>
             IF Left(Len(v))
             THEN /\ presence[a] = Nowhere
                  /\ transit[a].from = v[Len(v)].target
                  /\ transit[a].at >= tick
                  /\ transit[a].at = v[Len(v)].tick
                                     + Travel(transit[a].from, transit[a].to)
             ELSE presence[a] = v[Len(v)].target /\ transit[a] = None
        /\ \A i \in DOMAIN log :
             LET before == {j \in 1..i : log[j].actor = a
                                        /\ log[j].kind \in {"presence.arrived", "presence.left"}}
             IN  log[i].kind = "world.dm" /\ log[i].target = a /\ before # {} =>
                   log[Max(before)].kind = "presence.arrived"

\* Every accepted act is applied exactly once, in its own tick and in the order
\* the acts came in, and no other act leaves a trace (world-act.ts:163): the act
\* events of a tick are the first uses of an identifier that were allowed.
ActsApplied ==
  \A t \in 0..(tick - 1) :
    LET mine == SelectSeq(log, LAMBDA e : e.tick = t /\ e.kind = "world.act")
        ok   == {i \in DOMAIN acts :
                   /\ \A j \in 1..(i - 1) : acts[j].id # acts[i].id
                   /\ acts[i].at = t
                   /\ acts[i].variable \in Variables
                   /\ sim.variables[acts[i].variable].fedBy = acts[i].actor
                   /\ acts[i].value = Clamp(acts[i].value, acts[i].variable)}
    IN  /\ Len(mine) = Cardinality(ok)
        /\ \A i \in ok :
             mine[Cardinality({j \in ok : j <= i})].target = acts[i].variable

\* The rules of a tick see every derived variable agree with what it is derived
\* from, however the declarations are ordered (trace-compile.ts:151).
DerivedConsistent ==
  \A t \in 0..(tick - 1), v \in Variables :
    sim.variables[v].derive # None =>
      seen[t + 1].vars[v] = Clamp(Sum(sim.variables[v].derive, seen[t + 1].vars), v)

\* The engine computes what the declaration means: rules, journeys, acts and
\* derived variables.
EngineExact ==
  /\ CrossingsExact
  /\ JourneysExact
  /\ ActsApplied
  /\ DerivedConsistent

\* world-act.ts:97 says of the results that they "get their `event_id` filled in
\* as accepted acts are applied": an accepted act whose tick is over names its
\* event, and a rejected one names none.
ResultsNameTheirEvents ==
  \A i \in DOMAIN results :
    (results[i].event # None) <=> (results[i].code = "accepted" /\ acts[i].at < tick)
=============================================================================
