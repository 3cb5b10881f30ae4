----------------------------- MODULE WorldSurface -----------------------------
(***************************************************************************)
(* What a world's author declares (src/world-surface): entities, senses,   *)
(* affordances and effects, each tied to a name of the mechanics, and the  *)
(* callbacks that project, offer and lower.  parseWorldSurfaceDefinition   *)
(* checks a definition once; the registry it issues checks every call of   *)
(* a callback and every value that comes back.                             *)
(*                                                                         *)
(* A reference is a pair <<kind, id>>; a name of the mechanics as well.    *)
(* What a callback answers is data of the caller (Odd below): it may       *)
(* throw, answer later, answer something else, or touch the session.       *)
(***************************************************************************)
EXTENDS Sequences, FiniteSets, SequencesExt

ResourceKinds == {"entity", "sense", "affordance", "effect"}

IsReferenceOf(ref, kind) == kind \in ResourceKinds /\ ref[1] = kind

\* world://<world>/<kind>/<id>: the address of a reference within its world.
Resolve(world, ref) == [world |-> world, ref |-> ref]

References(world, refs) == {Resolve(world, ref) : ref \in refs}

\* Field names only the host may set; an action's input may not say "entity"
\* either, which an observation or an effect may.
HostAuthority == {"principal", "target", "token", "tick", "holder"}
ActionAuthority == HostAuthority \cup {"entity"}

-------------------------------------------------------------------------------
(* The definition. *)

EntitiesParse(entities) ==
  /\ \A alias \in DOMAIN entities :
       /\ entities[alias].address = <<"entity", alias>>
       /\ entities[alias].dynamics[1] = "object"
  /\ \A a, b \in DOMAIN entities :
       entities[a].dynamics = entities[b].dynamics => a = b

Declared(entities) == {entities[alias].address : alias \in DOMAIN entities}

SensesParse(senses) ==
  \A ref \in DOMAIN senses :
    /\ IsReferenceOf(ref, "sense")
    /\ senses[ref].dynamics # {}
    /\ \A mech \in senses[ref].dynamics : mech[1] = "sense"
    /\ senses[ref].project = "synchronous"

\* Fault: a fixed selector may name an entity nobody declared.
FaultySelectorParses(selector, entities) ==
  selector.kind = "holder" \/ selector.targets # << >>

SelectorParses(selector, entities) ==
  \/ selector.kind = "holder" /\ selector.targets = << >>
  \/ /\ selector.kind = "fixed"
     /\ selector.targets # << >>
     /\ IsInjective(selector.targets)
     /\ ToSet(selector.targets) \subseteq Declared(entities)

AffordancesParse(affordances, entities) ==
  \A ref \in DOMAIN affordances :
    /\ IsReferenceOf(ref, "affordance")
    /\ affordances[ref].callbacks = "synchronous"
    /\ affordances[ref].fields \cap ActionAuthority = {}
    /\ SelectorParses(affordances[ref].selector, entities)

EffectsParse(effects) ==
  /\ \A ref \in DOMAIN effects :
       /\ IsReferenceOf(ref, "effect")
       /\ effects[ref].fields \cap HostAuthority = {}
  /\ \A r, s \in DOMAIN effects : effects[r].event = effects[s].event => r = s

\* parseWorldSurfaceDefinition: the definition gets a registry.
DefinitionParses(d) ==
  /\ d.api_version = "simfile.world-surface.v1"
  /\ EntitiesParse(d.entities)
  /\ AffordancesParse(d.affordances, d.entities)
  /\ EffectsParse(d.effects)
  /\ SensesParse(d.senses)

\* The name the mechanics have for an entity.
DynamicsOf(d, entity) ==
  (CHOOSE e \in {d.entities[alias] : alias \in DOMAIN d.entities} :
     e.address = entity).dynamics

\* The targets an affordance may be aimed at by one holder.
Targets(selector, holder) ==
  IF selector.kind = "holder" THEN {holder} ELSE ToSet(selector.targets)

-------------------------------------------------------------------------------
(* The calls of the registry.  odd = [at, how]: the callback that misbehaves *)
(* now and how; every other callback answers as it should.                   *)

Misbehaves(odd, call, ways) == odd.at = call /\ odd.how \in ways

\* projectSense: only channels of that sense, about declared entities, and
\* none with a name of the host's.
Projects(d, odd, sense) ==
  /\ sense \in DOMAIN d.senses
  /\ ~Misbehaves(odd, <<"project", sense>>,
        {"throws", "later", "another", "stranger", "reserved"})

\* The checks every call about an affordance goes through.
Invocable(d, affordance, holder, target) ==
  /\ affordance \in DOMAIN d.affordances
  /\ {holder, target} \subseteq Declared(d.entities)
  /\ target \in Targets(d.affordances[affordance].selector, holder)

\* isAffordanceAvailable answers a boolean, at once.
Answers(d, odd, affordance, holder, target) ==
  /\ Invocable(d, affordance, holder, target)
  /\ ~Misbehaves(odd, <<"available", affordance>>, {"throws", "later", "another"})

\* lowerAffordance: the input against the schema, the lowered input without a
\* field of the host's.
Lowers(d, odd, affordance, holder, target) ==
  /\ Invocable(d, affordance, holder, target)
  /\ ~Misbehaves(odd, <<"lower", affordance>>,
        {"throws", "later", "another", "reserved"})

\* A callback that reached into the session it was shown.
Touches(odd, call) == Misbehaves(odd, call, {"touches"})
===============================================================================
