---------------------------- MODULE MCTickEngine ----------------------------
(***************************************************************************)
(* Four small simfiles: one of holds and events, one of journeys, one of   *)
(* derived variables, and one whose hold stands behind another condition.  *)
(***************************************************************************)
EXTENDS TickEngine

Far == 1000

Var(min, max, initial, fedBy, derive) ==
  [min |-> min, max |-> max, initial |-> initial, fedBy |-> fedBy, derive |-> derive]
When(v, above, below, for) ==
  [kind |-> "variable", variable |-> v, above |-> above, below |-> below, for |-> for]
Phase(p) == [kind |-> "phase", phase |-> p]
On(e, a, t) == [kind |-> "event", event |-> e, actor |-> a, target |-> t]
All(nodes) == [kind |-> "all", nodes |-> nodes]
Either(nodes) == [kind |-> "any", nodes |-> nodes]
Not(node) == [kind |-> "not", node |-> node]
Rule(id, fire, when, do) == [id |-> id, fire |-> fire, when |-> when, do |-> do]
SetVar(v, x) == [action |-> "variable:set", variable |-> v, value |-> x]
Delta(v, x) == [action |-> "variable:delta", variable |-> v, value |-> x]
Move(a, to) == [action |-> "move", agent |-> a, to |-> to]
Message(to) == [action |-> "moltnet:message", to |-> to]
Dm(to) == [action |-> "moltnet:dm", to |-> to]
Gen(id, v, mode, amount, of, when) ==
  [id |-> id, target |-> v, mode |-> mode, amount |-> amount, of |-> of, when |-> when]

AllAgents == <<"ann", "bob">>
NoOne == [a \in {"ann", "bob"} |-> Nowhere]
DayAndNight == <<[id |-> "day", start |-> 2], [id |-> "night", start |-> 5]>>

Declared(ticks, variables, order, where, routes, generators, rules) ==
  [ticks |-> ticks, perTick |-> 2, day |-> 6, phases |-> DayAndNight,
   variables |-> variables, declared |-> order, presence |-> where,
   routes |-> routes, generators |-> generators, rules |-> rules,
   places |-> {}, probes |-> <<>>, markers |-> <<>>]
Judged(declared, probes) == [declared EXCEPT !.probes = probes]
Probe(when, expect, count, after, within) ==
  [when |-> when, expect |-> expect, count |-> count, after |-> after, within |-> within]

Heat == [heat |-> Var(0, 3, 1, "ann", None)]

Holds ==
  Declared(4, Heat, <<"heat">>, NoOne, <<>>,
    <<Gen("drift", "heat", "stochastic", 0, <<>>, Not(Phase("night")))>>,
    <<Rule("cool", "per_crossing", When("heat", 1, Far, 2),
           <<Message("room"), Delta("heat", -1)>>),
      Rule("note", "once", On("world.message", None, "room"), <<SetVar("heat", 2)>>),
      Rule("warm", "per_crossing",
           All(<<When("heat", -Far, 2, None),
                 Either(<<Phase("day"), On("world.act", "ann", None)>>)>>),
           <<Delta("heat", 2)>>)>>)

Journeys ==
  Declared(5, [push |-> Var(0, 2, 0, "ann", None)], <<"push">>,
    [a \in {"ann", "bob"} |-> IF a = "ann" THEN "inn" ELSE Nowhere],
    <<[id |-> 2, from |-> "inn", to |-> "mill", ticks |-> 2, both |-> TRUE],
      [id |-> 1, from |-> "mill", to |-> "inn", ticks |-> 1, both |-> FALSE],
      [id |-> 3, from |-> "mill", to |-> "well", ticks |-> 1, both |-> FALSE]>>,
    <<Gen("drift", "push", "stochastic", 0, <<>>, None)>>,
    <<Rule("back", "per_crossing", On("presence.arrived", None, "mill"),
           <<Dm("ann"), Move("ann", "well")>>),
      Rule("go", "per_crossing", When("push", 0, Far, None),
           <<Move("ann", "mill"), Dm("ann"), Move("ann", "inn"), Move("bob", "inn")>>)>>)

Sums ==
  Declared(3,
    [x |-> Var(0, 3, 1, "bob", None), y |-> Var(0, 9, 0, None, <<"x", "z">>),
     z |-> Var(0, 4, 0, None, <<"x", "x">>)],
    <<"y", "x", "z">>, NoOne, <<>>,
    <<Gen("copy", "x", "set", 1, <<"y">>, When("z", 2, Far, None)),
      Gen("drift", "x", "stochastic", 0, <<>>, None)>>,
    <<Rule("drop", "per_crossing", When("y", 4, Far, None), <<SetVar("x", 0)>>)>>)

Passed ==
  Declared(5, Heat, <<"heat">>, NoOne, <<>>,
    <<Gen("drift", "heat", "stochastic", 0, <<>>, None)>>,
    <<Rule("alarm", "per_crossing", All(<<Phase("day"), When("heat", 1, Far, 2)>>),
           <<Message("room")>>)>>)

\* Probes of each kind: of samples and of events, held, after something else.
JudgedHolds ==
  [Judged(Holds,
     <<Probe(On("world.message", None, "room"), "at_least", 1,
             When("heat", 1, Far, None), 4),
       Probe(When("heat", 1, Far, None), "always", 0, None, 0),
       Probe(All(<<When("heat", 1, Far, 2), On("rule.fired", None, None)>>),
             "at_most", 1, None, 0),
       Probe(On("rule.fired", "note", None), "at_least", 1,
             On("rule.fired", "cool", None), 2),
       Probe(On("marker.seen", "rumour", None), "at_end", 0, None, 0),
       Probe(On("marker.seen", "rumour", None), "at_least", 1,
             On("rule.fired", "cool", None), 2),
       Probe(All(<<On("marker.seen", None, None), When("heat", 1, Far, None)>>),
             "at_most", 0, None, 0),
       Probe(When("heat", -Far, 2, 2), "at_end", 0, None, 0)>>)
   EXCEPT !.markers = <<[id |-> "rumour", mentioned |-> {<<"world.message", "room">>}]>>]

JudgedJourneys ==
  [Judged(Journeys,
     <<Probe(On("presence.arrived", "ann", None), "at_least", 1,
             On("presence.left", "ann", None), 2),
       Probe(Either(<<On("presence.left", None, "mill"), When("push", 0, Far, None)>>),
             "at_least", 3, When("push", -Far, 1, None), 4)>>)
   EXCEPT !.places = {"inn", "mill", "well"}]

AllSimfiles == {JudgedHolds, JudgedJourneys, Sums}
PassedOver == {Passed}

AllDraws == [0..4 -> {-1, 0, 1}]
NoDraws == [t \in 0..4 |-> 0]
SomeDraws ==
  {d \in AllDraws : d[4] = 0 /\ \A t \in 1..3 : d[t] # 0} \union {NoDraws}

Act(id, at, v, x, who) ==
  [id |-> id, at |-> at, variable |-> v, value |-> x, actor |-> who]
Offered ==
  {Act("one", 1, "heat", 3, "ann"), Act("one", 2, "heat", 2, "ann"),
   Act("two", 1, "heat", 0, "ann"), Act("two", 9, "heat", 0, "ann"),
   Act("two", 1, "heat", 5, "ann"),
   Act("one", 0, "x", 2, "bob"), Act("two", 0, "x", 3, "ann")}
AllQueues == UNION {[1..n -> Offered] : n \in 0..2}
NoActs == {<<>>}
=============================================================================
