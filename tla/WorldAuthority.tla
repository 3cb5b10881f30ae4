---------------------------- MODULE WorldAuthority ----------------------------
(***************************************************************************)
(* Who may do what in a world: the path from the grants an author wrote    *)
(* (grants.ts) over the principals an organization gives the participants, *)
(* the manifests compiled for them (capabilityManifest.ts) and the check   *)
(* of the runtime that opens with them (runtime.ts compose), to the answers *)
(* a principal gets: an observation of a sense, the affordances that are   *)
(* open to it now, and an act, refused with the first reason that applies  *)
(* (act.ts).                                                               *)
(*                                                                         *)
(* An author's callbacks may misbehave in every way WorldSurface names,    *)
(* one at a time.  They are functions of what they are shown, so what they *)
(* answer changes only with a tick.  The ledgers of requests, actions and  *)
(* decisions are modelled in WorldRuntime; here a decision is a token that *)
(* one act uses up.                                                        *)
(***************************************************************************)
EXTENDS WorldSurface, Integers, Functions

CONSTANTS
  Surfaces,     \* the surfaces an author may declare, by their digest
  Authorings,   \* the grants an author may write, by name: participant -> grant
  Bindings,     \* the resolvers an organization may supply
  Worlds,       \* the runs a host composes in one process, by their number
  DecisionRun,  \* the run the registry of decisions was created for
  Moods,        \* what the callbacks do during a tick: [odd, shut]
  LastVersion   \* bound: ticks of a run

VARIABLES
  made,       \* the compositions of this process that a runtime may open with
  open,       \* the composition the runtime opened with, or NoRuntime
  session,    \* [version, touched, queue] of the dynamics session
  odd,        \* the callback that misbehaves until the next tick
  shut,       \* the pairs the surface's author holds closed until then
  token,      \* principal -> "none" | "active" | "used"
  listing,    \* principal -> the last affordances answered: [version, pairs]
  last        \* the last answer: to an act, or to an observation

authorityVars == <<made, open, session, odd, shut, token, listing, last>>

NoRuntime == [run |-> 0]
NoOddity == [at |-> <<"none", <<"none", "none">>>>, how |-> "none"]
NoListing == [version |-> -1, pairs |-> {}]
NothingAsked == [principal |-> "none", about |-> <<"none", "none">>,
                 target |-> <<"none", "none">>, reason |-> "none"]

-------------------------------------------------------------------------------
(* From grants to manifests. *)

\* uniqueReferences: of the kind asked for, declared, none named twice.
GrantedReferences(refs, kind, declared) ==
  /\ IsInjective(refs)
  /\ \A i \in DOMAIN refs : IsReferenceOf(refs[i], kind) /\ refs[i] \in declared

\* resolveWorldGrants: every participant's grant against the checked surface.
GrantsResolve(authored, d) ==
  \A participant \in DOMAIN authored :
    LET grant == authored[participant]
    IN /\ IsReferenceOf(grant.entity, "entity")
       /\ grant.entity \in Declared(d.entities)
       /\ GrantedReferences(grant.senses, "sense", DOMAIN d.senses)
       /\ GrantedReferences(grant.affordances, "affordance", DOMAIN d.affordances)

\* createLocalWorldGrantPrincipalResolver: a participant is its own principal.
LocalResolver(authored) ==
  LET same == [p \in DOMAIN authored |-> p]
  IN [principal |-> same, participant |-> same]

\* Fault: the way back from principal to participant is not tried.
FaultyBinds(authored, resolver) ==
  /\ DOMAIN authored \subseteq DOMAIN resolver.principal
  /\ \A p, q \in DOMAIN authored :
       resolver.principal[p] = resolver.principal[q] => p = q

\* bindWorldGrants: every participant has a principal, no two the same, and
\* the principal leads back to the participant.
Binds(authored, resolver) ==
  /\ DOMAIN authored \subseteq DOMAIN resolver.principal
  /\ \A p, q \in DOMAIN authored :
       resolver.principal[p] = resolver.principal[q] => p = q
  /\ \A p \in DOMAIN authored :
       /\ resolver.principal[p] \in DOMAIN resolver.participant
       /\ resolver.participant[resolver.principal[p]] = p

\* The grants of a composition, by principal.
BoundGrants(authored, resolver) ==
  [principal \in {resolver.principal[p] : p \in DOMAIN authored} |->
     authored[CHOOSE p \in DOMAIN authored : resolver.principal[p] = principal]]

\* compile: one manifest for each bound grant, whatever was granted looked up
\* in the surface again, and the surface named by its digest.
Compile(run, digest, bound) ==
  [principal \in DOMAIN bound |->
    LET grant == bound[principal]
    IN [run |-> run,
        surface |-> digest,
        holder |-> Resolve(run, grant.entity),
        senses |-> References(run, ToSet(grant.senses)),
        affordances |->
          {[address |-> Resolve(run, a),
            targets |-> References(run,
              Targets(Surfaces[digest].affordances[a].selector, grant.entity))]
             : a \in ToSet(grant.affordances)}]]

\* composeWorldGrants, and what the host keeps of it: the attested grants and
\* the manifests, which it hands to the runtime.
Compose(run, digest, name, resolver) ==
  /\ DefinitionParses(Surfaces[digest])
  /\ GrantsResolve(Authorings[name], Surfaces[digest])
  /\ Binds(Authorings[name], resolver)
  /\ LET bound == BoundGrants(Authorings[name], resolver)
     IN made' = made \cup
          {[run |-> run, surface |-> digest, authored |-> name,
            resolver |-> resolver, bound |-> bound,
            manifests |-> Compile(run, digest, bound)]}
  /\ UNCHANGED <<open, session, odd, shut, token, listing, last>>

ComposeRun ==
  \E run \in Worlds, digest \in DOMAIN Surfaces, name \in DOMAIN Authorings :
    /\ open = NoRuntime
    /\ \A c \in made : c.run # run
    /\ \E resolver \in Bindings \cup {LocalResolver(Authorings[name])} :
         Compose(run, digest, name, resolver)

\* Fault: the runtime opens with the manifests as they were handed to it.
FaultyOpens(digest, manifests, bound, decisions) ==
  \A principal \in DOMAIN manifests : manifests[principal].run = decisions

\* compose of the runtime: the manifests are those of these very grants and
\* this very surface, compiled again, and the registry of decisions is of
\* their run.
Opens(digest, manifests, bound, decisions) ==
  /\ DOMAIN manifests # {}
  /\ \E run \in {manifests[principal].run : principal \in DOMAIN manifests} :
       /\ DOMAIN bound = DOMAIN manifests
       /\ \A principal \in DOMAIN bound :
            LET grant == bound[principal]
            IN /\ grant.entity \in Declared(Surfaces[digest].entities)
               /\ ToSet(grant.senses) \subseteq DOMAIN Surfaces[digest].senses
               /\ ToSet(grant.affordances) \subseteq DOMAIN Surfaces[digest].affordances
       /\ manifests = Compile(run, digest, bound)
       /\ run = decisions

\* createWorldRuntime: the host names a surface, manifests, bound grants and a
\* registry of decisions, which it may have taken from different compositions.
OpenRuntime ==
  /\ open = NoRuntime
  /\ \E m, s, g \in made :
       /\ Opens(s.surface, m.manifests, g.bound, DecisionRun)
       /\ open' = [run |-> DecisionRun, surface |-> s.surface, authored |-> g.authored,
                   resolver |-> g.resolver, manifests |-> m.manifests]
       /\ token' = [principal \in DOMAIN m.manifests |-> "none"]
       /\ listing' = [principal \in DOMAIN m.manifests |-> NoListing]
  /\ made' = {} \* nothing reads them from here on
  /\ UNCHANGED <<session, odd, shut, last>>

-------------------------------------------------------------------------------
(* The answers of an open runtime. *)

Manifest(p) == open.manifests[p]

Surface == Surfaces[open.surface]

IsOpen == open # NoRuntime

\* The registry of decisions mints a token for a principal; the tokens of the
\* model are used once.
Claim(p) ==
  /\ IsOpen /\ token[p] = "none"
  /\ token' = [token EXCEPT ![p] = "active"]
  /\ last' = NothingAsked
  /\ UNCHANGED <<made, open, session, odd, shut, listing>>

\* Every sense the manifest grants is projected, and none of the projections
\* reached into the session.
Observed(p) ==
  \A sense \in Manifest(p).senses :
    /\ Projects(Surface, odd, sense.ref)
    /\ ~Touches(odd, <<"project", sense.ref>>)

\* Fault: what a callback did to the session stays.
FaultyRestored(before, touched) == [before EXCEPT !.touched = @ \/ touched]

\* Whatever a callback did to the session is taken back.
Restored(before, touched) == before

Asked(p, about, target, reason) ==
  [principal |-> p, about |-> about, target |-> target, reason |-> reason]

\* observeScopedWorldRuntime: a granted sense, projected for the holder.
Observe(p, sense) ==
  /\ IsOpen /\ token[p] = "active"
  /\ LET granted == sense \in Manifest(p).senses
         touched == Touches(odd, <<"project", sense.ref>>)
     IN /\ last' = Asked(p, sense.ref, Manifest(p).holder.ref,
             IF granted /\ Projects(Surface, odd, sense.ref) /\ ~touched
             THEN "observed" ELSE "denied")
        /\ session' = Restored(session, granted /\ touched)
  /\ UNCHANGED <<made, open, odd, shut, token, listing>>

\* localAffordances: every pair the manifest grants.
GrantedPairs(p) ==
  {<<g.address.ref, t.ref>> : <<g, t>> \in
     {<<g, t>> \in Manifest(p).affordances \X UNION {h.targets : h \in Manifest(p).affordances} :
        t \in g.targets}}

\* affordancesWorldRuntime: all the granted senses are projected, every granted
\* pair is asked about, and one callback that fails denies the whole answer.
CanList(p) ==
  /\ Observed(p)
  /\ \A pair \in GrantedPairs(p) :
       /\ Answers(Surface, odd, pair[1], Manifest(p).holder.ref, pair[2])
       /\ ~Touches(odd, <<"available", pair[1]>>)

\* Fault: a pair is listed because it is granted.
FaultyOffered(p) == GrantedPairs(p)

Offered(p) == GrantedPairs(p) \ shut

ListAffordances(p) ==
  /\ IsOpen /\ token[p] = "active" /\ CanList(p)
  /\ listing' = [listing EXCEPT ![p] =
       [version |-> session.version, pairs |-> Offered(p)]]
  /\ UNCHANGED <<made, open, session, odd, shut, token, last>>

ListingDenied(p) ==
  /\ IsOpen /\ token[p] = "active" /\ ~CanList(p)
  /\ session' = Restored(session, odd.how = "touches")
  /\ UNCHANGED <<made, open, odd, shut, token, listing, last>>

\* Fault: a target is not looked up in the granted selector.
FaultyTargetGranted(p, affordance, target) == TRUE

TargetGranted(p, affordance, target) ==
  \E g \in Manifest(p).affordances :
    g.address = affordance /\ target \in g.targets

\* The checks of an act, in their order, each with the reason it refuses with.
Checks(p, affordance, target, fits) ==
  LET d == Surface
      holder == Manifest(p).holder.ref
      available == <<"available", affordance.ref>>
      lower == <<"lower", affordance.ref>>
      refuse(reason, when) == [reason |-> reason, when |-> when]
  IN << refuse("decision_token_consumed", token[p] = "used"),
        refuse("decision_token_invalid", token[p] = "none"),
        refuse("affordance_not_granted",
          \A g \in Manifest(p).affordances : g.address # affordance),
        refuse("target_not_granted", ~TargetGranted(p, affordance, target)),
        refuse("resource_undeclared",
          \/ affordance.ref \notin DOMAIN d.affordances
          \/ ~({holder, target.ref} \subseteq Declared(d.entities))),
        refuse("world_surface_failed",
          ~Observed(p) \/ ~Answers(d, odd, affordance.ref, holder, target.ref)),
        refuse("affordance_unavailable", <<affordance.ref, target.ref>> \in shut),
        refuse("world_state_unstable", Touches(odd, available)),
        refuse("action_input_malformed", ~fits),
        refuse("world_surface_failed",
          ~Lowers(d, odd, affordance.ref, holder, target.ref)),
        refuse("world_state_unstable", Touches(odd, lower)) >>

Refusals(p, affordance, target, fits) ==
  SelectSeq(Checks(p, affordance, target, fits), LAMBDA c : c.when)

Act(p, affordance, target, fits) ==
  /\ IsOpen
  /\ LET refusals == Refusals(p, affordance, target, fits)
         ok == refusals = << >>
     IN /\ last' = Asked(p, affordance.ref, target.ref,
             IF ok THEN "queued" ELSE Head(refusals).reason)
        /\ IF ok
           THEN /\ token' = [token EXCEPT ![p] = "used"]
                /\ session' = [session EXCEPT !.queue = @ \cup
                     {[principal |-> p,
                       actor |-> DynamicsOf(Surface, Manifest(p).holder.ref),
                       affordance |-> affordance.ref,
                       target |-> target.ref]}]
           ELSE /\ session' = Restored(session, odd.how = "touches")
                /\ UNCHANGED token
  /\ UNCHANGED <<made, open, odd, shut, listing>>

\* The mechanics take a step: what the surface's callbacks see is new.  Bound:
\* until the first step they all answer as they should.
Tick ==
  /\ IsOpen /\ session.version < LastVersion
  /\ session' = [session EXCEPT !.version = @ + 1]
  /\ \E mood \in Moods : odd' = mood.odd /\ shut' = mood.shut
  /\ last' = NothingAsked
  /\ UNCHANGED <<made, open, token, listing>>

-------------------------------------------------------------------------------
AuthorityInit ==
  /\ made = {} /\ open = NoRuntime
  /\ session = [version |-> 0, touched |-> FALSE, queue |-> {}]
  /\ odd = NoOddity /\ shut = {}
  /\ token = << >> /\ listing = << >> /\ last = NothingAsked

\* What a principal may name: whatever some surface declares.
NamedSenses == UNION {DOMAIN d.senses : d \in Range(Surfaces)}
NamedAffordances == UNION {DOMAIN d.affordances : d \in Range(Surfaces)}
NamedEntities == UNION {Declared(d.entities) : d \in Range(Surfaces)}

AuthorityNext ==
  \/ ComposeRun \/ OpenRuntime \/ Tick
  \/ \E p \in DOMAIN token :
       \/ Claim(p) \/ ListAffordances(p) \/ ListingDenied(p)
       \/ \E sense \in NamedSenses : Observe(p, Resolve(open.run, sense))
       \/ \E affordance \in NamedAffordances, target \in NamedEntities, fits \in BOOLEAN :
            Act(p, Resolve(open.run, affordance), Resolve(open.run, target), fits)

AuthoritySpec == AuthorityInit /\ [][AuthorityNext]_authorityVars

-------------------------------------------------------------------------------
(* Properties. *)

\* What a principal does or sees is what the author granted the participant
\* that principal stands for, aimed where the surface lets it be aimed, and
\* done in the body of that participant's own entity.
GrantOf(principal) ==
  LET back == open.resolver.participant
  IN IF principal \in DOMAIN back /\ back[principal] \in DOMAIN Authorings[open.authored]
     THEN Authorings[open.authored][back[principal]]
     ELSE [entity |-> <<"none", "none">>, senses |-> << >>, affordances |-> << >>]

AuthorityKept ==
  /\ \A q \in session.queue :
       LET grant == GrantOf(q.principal)
       IN /\ q.affordance \in ToSet(grant.affordances)
          /\ q.actor = DynamicsOf(Surface, grant.entity)
          /\ q.target \in Targets(Surface.affordances[q.affordance].selector, grant.entity)
          /\ q.target \in Declared(Surface.entities)
  /\ last.reason = "observed" =>
       last.about \in ToSet(GrantOf(last.principal).senses)
  /\ ~session.touched

\* The affordances a principal is shown at a tick are the acts open to it at
\* that tick, all of them and no others: what is refused of a listed pair is
\* its token, its input or its lowering, and what is accepted was listed.
ListingExact ==
  LET shownNow == listing[last.principal]
      pair == <<last.about, last.target>>
  IN (last.principal # "none" /\ shownNow.version = session.version) =>
       /\ last.reason = "queued" => pair \in shownNow.pairs
       /\ last.reason \in {"affordance_not_granted", "target_not_granted",
            "resource_undeclared", "affordance_unavailable"} =>
            pair \notin shownNow.pairs
===============================================================================
