------------------------- MODULE WorldSidecarProofs -------------------------
(***************************************************************************)
(* Proofs about the way of a world from its sources to a running process.  *)
(* WorldSidecar: what the readiness evidence promises while the process    *)
(* serves, and what a failed start leaves behind, for any number of        *)
(* starts, worlds, ticks and claims.  PreparedBundle: what the cache of    *)
(* bundles promises, for any callers, inputs, edits and losses of power.   *)
(* DynamicsLoad: that what a build was made from lay on the disk together, *)
(* and what the evidence a load leaves is worth, for any loads, roots,     *)
(* sources, packages and edits.                                            *)
(***************************************************************************)
EXTENDS WorldSidecar, PreparedBundle, DynamicsLoad, FiniteSetTheorems,
        WellFoundedInduction, TLAPS

SiteFields ==
    {"at", "world", "proved", "ticks", "claims", "listens", "controller", "created",
     "activated", "watcher", "stopping", "ended", "trouble"}

EvidenceFiles ==
    [there : BOOLEAN, body : Worlds \union {Absent}, links : 0..2]

RootStates ==
    [evidence : EvidenceFiles, temporary : Worlds \union {Absent}, starts : Nat,
     marker : Worlds \union {Absent}, log : BOOLEAN, proves : BOOLEAN,
     controlled : BOOLEAN]

Typed ==
    /\ root \in RootStates
    /\ site = [x \in SiteFields |-> site[x]]
    /\ site.ticks \in Nat /\ site.claims \in Nat
    /\ site.activated \in BOOLEAN /\ site.created \in BOOLEAN
    /\ site.trouble \in BOOLEAN /\ site.world \in Worlds \union {Absent}

\* The evidence is the one this process would publish.
Own(links) == root.evidence = [there |-> TRUE, body |-> site.world, links |-> links]

\* The evidence root holds what the start found, or what it published where nothing
\* was.
EvidenceKnown ==
    /\ ~root.evidence.there => root.evidence = NoReadiness
    /\ site.at \in {"linked", "unlink"} =>
         before = NoReadiness /\ Own(2) /\ ~site.created
    /\ site.at \notin {"linked", "unlink", "log", "exiting", "down"} =>
         IF site.created THEN before = NoReadiness /\ Own(1) ELSE root.evidence = before
    /\ site.at = "log" => site.trouble \/ root.evidence = before
    /\ site.at \in {"undoEvidence", "log", "exiting", "closing", "down"} =>
         site.listens = "no"
    /\ site.at \in {"exiting", "down"} /\ site.ended = "failed" =>
         site.trouble \/ root.evidence = before
    /\ site.at \in {"listen", "self-test", "running"} => Own(1)
    /\ site.created => site.at \in {"listen", "self-test", "running", "closing", "down", "log",
                                    "exiting", "undoController", "undoServer", "undoEvidence"}

\* The port is open to others only over that evidence, and the world does not move
\* before it is activated.
PortKnown ==
    /\ site.listens = "publicly" =>
         /\ site.at \in {"self-test", "running", "undoController", "undoServer"}
         /\ Own(1)
         /\ site.activated \/ Pristine
    /\ site.at \in {"write", "link", "linked", "unlink", "listen", "self-test"} => Pristine
    /\ site.at = "running" /\ ~site.activated => Pristine

ActivationKnown ==
    /\ site.activated => site.at \in {"running", "closing", "down"}
    /\ root.controlled /\ site.activated => root.marker = site.world /\ root.marker # Absent
    /\ site.claims > 0 => site.activated

Inv == Typed /\ EvidenceKnown /\ PortKnown /\ ActivationKnown

------------------------------------------------------------------------------
\* A step of the process leaves all but these fields alone.
Kept(changed) ==
    /\ site' = [x \in SiteFields |-> site'[x]]
    /\ \A x \in SiteFields \ changed : site'[x] = site[x]

\* What a step of the process makes of its fields.
LEMMA BecomesIs ==
    ASSUME Typed, NEW ch, Becomes(ch)
    PROVE  /\ Kept(DOMAIN ch)
           /\ \A x \in SiteFields \cap DOMAIN ch : site'[x] = ch[x]
<1>1. DOMAIN site = SiteFields
  BY DEF Typed
<1>2. site' = [x \in SiteFields |-> IF x \in DOMAIN ch THEN ch[x] ELSE site[x]]
  BY <1>1 DEF Becomes
<1> QED
  BY <1>2 DEF Kept

\* A sidecar that was never started satisfies the invariant.
LEMMA InitInv == SidecarInit => Inv
<1> SUFFICES ASSUME SidecarInit PROVE Inv
  OBVIOUS
<1>1. site = Down /\ before = NoReadiness /\ root.evidence = NoReadiness /\ root \in RootStates
  BY DEF SidecarInit, RootStates, EvidenceFiles, NoReadiness
<1>2. DOMAIN Down = SiteFields
  BY DEF Down, SiteFields
<1>3. Typed
  BY <1>1, <1>2 DEF Down, Typed, SiteFields
<1> QED
  BY <1>1, <1>3 DEF Inv, EvidenceKnown, PortKnown, ActivationKnown, Down, NoReadiness

\* A step of the process leaves all of the root but the evidence, the temporary and
\* the log alone.
Leaves(evidence) ==
    /\ root' \in RootStates /\ root'.evidence = evidence
    /\ root'.controlled = root.controlled /\ root'.marker = root.marker

\* A step on to the next phase changes nothing else.
LEMMA OnwardIs ==
    ASSUME Typed, NEW phase, Onward(phase)
    PROVE  Kept({"at"}) /\ site'.at = phase
<1>1. Becomes([at |-> phase])
  BY DEF Onward
<1> QED
  BY <1>1, BecomesIs DEF SiteFields

\* A write to the evidence or to its temporary keeps the rest of the root.
LEMMA RootLeaves ==
    ASSUME Typed, NEW evidence \in EvidenceFiles, NEW temporary \in Worlds \union {Absent},
           \/ root' = [root EXCEPT !.evidence = evidence, !.temporary = temporary]
           \/ root' = [root EXCEPT !.evidence = evidence]
           \/ root' = [root EXCEPT !.temporary = temporary] /\ evidence = root.evidence
    PROVE  Leaves(evidence)
  BY DEF Typed, RootStates, Leaves

\* What a start reads and publishes is evidence; exact evidence is its own.
LEMMA EvidenceIs ==
    ASSUME Typed
    PROVE  /\ root.evidence \in EvidenceFiles
           /\ NoReadiness \in EvidenceFiles
           /\ [there |-> TRUE, body |-> site.world, links |-> 2] \in EvidenceFiles
           /\ [root.evidence EXCEPT !.links = 1] \in EvidenceFiles
           /\ Exact(root.evidence) => Own(1)
           /\ Absent \in Worlds \union {Absent}
           /\ site.world \in Worlds \union {Absent}
  BY DEF Typed, RootStates, EvidenceFiles, NoReadiness, Exact, Own

\* Complete evidence with one name is what its body says.
LEMMA EvidenceEqual ==
    ASSUME NEW evidence \in EvidenceFiles, NEW body, evidence.body = body,
           evidence.there = TRUE, evidence.links = 1
    PROVE  evidence = [there |-> TRUE, body |-> body, links |-> 1]
  BY DEF EvidenceFiles

\* Every step of a start, of the serving process and of its undoing keeps it.
LEMMA NextInv == Inv /\ [SidecarNext]_sidecarVars => Inv'
<1> SUFFICES ASSUME Inv, [SidecarNext]_sidecarVars PROVE Inv'
  OBVIOUS
<1>t. Typed
  BY DEF Inv
<1>f. Fails => Kept({"at"}) /\ site'.at = "undoController"
  BY <1>t, OnwardIs DEF Fails
<1>e. Absent \in Worlds \union {Absent}
  OBVIOUS
<1> USE DEF At
<1>1. CASE ProveKernel
  <2>1. ASSUME NEW w, Becomes([proved |-> w, at |-> "compose"])
        PROVE  Kept({"proved", "at"}) /\ site'.proved = w /\ site'.at = "compose"
    BY <1>t, <2>1, BecomesIs DEF SiteFields
  <2>2. /\ site.at = "prove" /\ UNCHANGED <<root, before>>
        /\ \/ Kept({"at"}) /\ site'.at = "undoController"
           \/ Kept({"proved", "at"}) /\ site'.at = "compose"
    BY <1>1, <1>f, <2>1 DEF ProveKernel
  <2> QED
    BY <2>2 DEF Inv, Typed, EvidenceKnown, PortKnown, ActivationKnown, Pristine, Own,
       Kept, Leaves, SiteFields
<1>2. CASE ComposeLive
  <2>1. ASSUME NEW w, Becomes([world |-> w, at |-> "secrets"])
        PROVE  Kept({"world", "at"}) /\ site'.world = w /\ site'.at = "secrets"
    BY <1>t, <2>1, BecomesIs DEF SiteFields
  <2>2. /\ site.at = "compose" /\ UNCHANGED <<root, before>>
        /\ \/ Kept({"at"}) /\ site'.at = "undoController"
           \/ Kept({"world", "at"}) /\ site'.at = "secrets" /\ site'.world \in Worlds
    BY <1>2, <1>f, <2>1 DEF ComposeLive
  <2> QED
    BY <2>2 DEF Inv, Typed, EvidenceKnown, PortKnown, ActivationKnown, Pristine, Own,
       Kept, Leaves, SiteFields
<1>3. CASE ReadSecrets
  <2>1. Onward("probe") => Kept({"at"}) /\ site'.at = "probe"
    BY <1>t, OnwardIs
  <2>2. /\ site.at = "secrets" /\ UNCHANGED <<root, before>>
        /\ \/ Kept({"at"}) /\ site'.at = "undoController"
           \/ Kept({"at"}) /\ site'.at = "probe"
    BY <1>3, <1>f, <2>1 DEF ReadSecrets
  <2> QED
    BY <2>2 DEF Inv, Typed, EvidenceKnown, PortKnown, ActivationKnown, Pristine, Own,
       Kept, Leaves, SiteFields
<1>4. CASE Probe
  <2>1. ASSUME Becomes([at |-> "probing", listens |-> "locally"])
        PROVE  Kept({"at", "listens"}) /\ site'.at = "probing" /\ site'.listens = "locally"
    BY <1>t, <2>1, BecomesIs DEF SiteFields
  <2>2. /\ site.at = "probe" /\ UNCHANGED <<root, before>>
        /\ \/ Kept({"at"}) /\ site'.at = "undoController"
           \/ Kept({"at", "listens"}) /\ site'.at = "probing" /\ site'.listens = "locally"
    BY <1>4, <1>f, <2>1 DEF Probe
  <2> QED
    BY <2>2 DEF Inv, Typed, EvidenceKnown, PortKnown, ActivationKnown, Pristine, Own,
       Kept, Leaves, SiteFields
<1>5. CASE StopProbe
  <2>1. ASSUME NEW phase, Becomes([at |-> phase, listens |-> "no"])
        PROVE  Kept({"at", "listens"}) /\ site'.at = phase /\ site'.listens = "no"
    BY <1>t, <2>1, BecomesIs DEF SiteFields
  <2>2. /\ site.at = "probing" /\ UNCHANGED <<root, before>>
        /\ Kept({"at", "listens"}) /\ site'.listens = "no"
        /\ site'.at \in {"controller", "check", "undoController"}
    BY <1>5, <2>1 DEF StopProbe
  <2> QED
    BY <2>2 DEF Inv, Typed, EvidenceKnown, PortKnown, ActivationKnown, Pristine, Own,
       Kept, Leaves, SiteFields
<1>6. CASE StartController
  <2>1. ASSUME NEW ticks, Becomes([controller |-> TRUE, ticks |-> ticks, at |-> "check"])
        PROVE  /\ Kept({"controller", "ticks", "at"})
               /\ site'.controller = TRUE
               /\ site'.ticks = ticks
               /\ site'.at = "check"
    BY <1>t, <2>1, BecomesIs DEF SiteFields
  <2>2. /\ site.at = "controller" /\ UNCHANGED <<root, before>>
        /\ \/ Kept({"at"}) /\ site'.at = "undoController"
           \/ /\ Kept({"controller", "ticks", "at"})
              /\ site'.at = "check"
              /\ site'.ticks \in {0, 1}
    BY <1>6, <1>f, <2>1 DEF StartController
  <2> QED
    BY <2>2 DEF Inv, Typed, EvidenceKnown, PortKnown, ActivationKnown, Pristine, Own,
       Kept, Leaves, SiteFields
<1>7. CASE CheckPaused
  <2>1. Onward("write") => Kept({"at"}) /\ site'.at = "write"
    BY <1>t, OnwardIs
  <2>2. /\ site.at = "check" /\ UNCHANGED <<root, before>>
        /\ \/ Kept({"at"}) /\ site'.at = "undoController"
           \/ Pristine /\ Kept({"at"}) /\ site'.at = "write"
    BY <1>7, <1>f, <2>1 DEF CheckPaused
  <2> QED
    BY <2>2 DEF Inv, Typed, EvidenceKnown, PortKnown, ActivationKnown, Pristine, Own,
       Kept, Leaves, SiteFields
<1>8. CASE Listen
  <2>1. ASSUME Becomes([at |-> "self-test", listens |-> "publicly"])
        PROVE  /\ Kept({"at", "listens"})
               /\ site'.at = "self-test"
               /\ site'.listens = "publicly"
    BY <1>t, <2>1, BecomesIs DEF SiteFields
  <2>2. /\ site.at = "listen" /\ UNCHANGED <<root, before>>
        /\ \/ Kept({"at"}) /\ site'.at = "undoController"
           \/ Kept({"at", "listens"}) /\ site'.at = "self-test"
    BY <1>8, <1>f, <2>1 DEF Listen
  <2> QED
    BY <2>2 DEF Inv, Typed, EvidenceKnown, PortKnown, ActivationKnown, Pristine, Own,
       Kept, Leaves, SiteFields
<1>9. CASE SelfTest
  <2>1. ASSUME NEW watcher,
               Becomes([at |-> "running", watcher |-> watcher, activated |-> ~root.controlled])
        PROVE  /\ Kept({"at", "watcher", "activated"})
               /\ site'.at = "running"
               /\ site'.watcher = watcher
               /\ site'.activated = ~root.controlled
    BY <1>t, <2>1, BecomesIs DEF SiteFields
  <2>2. /\ site.at = "self-test" /\ UNCHANGED <<root, before>>
        /\ \/ Kept({"at"}) /\ site'.at = "undoController"
           \/ /\ Kept({"at", "watcher", "activated"})
              /\ site'.at = "running"
              /\ site'.activated = ~root.controlled
    BY <1>9, <1>f, <2>1 DEF SelfTest
  <2> QED
    BY <2>2 DEF Inv, Typed, EvidenceKnown, PortKnown, ActivationKnown, Pristine, Own,
       Kept, Leaves, SiteFields
<1>10. CASE UndoController
  <2>1. ASSUME Becomes([at |-> "undoServer", controller |-> FALSE, watcher |-> "none"])
        PROVE  /\ Kept({"at", "controller", "watcher"})
               /\ site'.at = "undoServer"
               /\ site'.controller = FALSE
               /\ site'.watcher = "none"
    BY <1>t, <2>1, BecomesIs DEF SiteFields
  <2>2. /\ site.at = "undoController" /\ UNCHANGED <<root, before>>
        /\ Kept({"at", "controller", "watcher"}) /\ site'.at = "undoServer"
    BY <1>10, <2>1 DEF UndoController
  <2> QED
    BY <2>2 DEF Inv, Typed, EvidenceKnown, PortKnown, ActivationKnown, Pristine, Own,
       Kept, Leaves, SiteFields
<1>11. CASE UndoServer
  <2>1. ASSUME Becomes([at |-> "undoEvidence", listens |-> "no"])
        PROVE  Kept({"at", "listens"}) /\ site'.at = "undoEvidence" /\ site'.listens = "no"
    BY <1>t, <2>1, BecomesIs DEF SiteFields
  <2>2. /\ site.at = "undoServer" /\ UNCHANGED <<root, before>>
        /\ Kept({"at", "listens"}) /\ site'.at = "undoEvidence" /\ site'.listens = "no"
    BY <1>11, <2>1 DEF UndoServer
  <2> QED
    BY <2>2 DEF Inv, Typed, EvidenceKnown, PortKnown, ActivationKnown, Pristine, Own,
       Kept, Leaves, SiteFields
<1>12. CASE LogFailure
  <2>1. ASSUME Becomes([at |-> "exiting", ended |-> "failed"])
        PROVE  Kept({"at", "ended"}) /\ site'.at = "exiting" /\ site'.ended = "failed"
    BY <1>t, <2>1, BecomesIs DEF SiteFields
  <2>2. /\ site.at = "log" /\ UNCHANGED before /\ Leaves(root.evidence)
        /\ Kept({"at", "ended"}) /\ site'.at = "exiting"
    BY <1>12, <1>t, <2>1 DEF LogFailure, Leaves, Typed, RootStates
  <2> QED
    BY <2>2 DEF Inv, Typed, EvidenceKnown, PortKnown, ActivationKnown, Pristine, Own,
       Kept, Leaves, SiteFields
<1>13. CASE PollMarker
  <2>1. ASSUME Becomes([watcher |-> "done", activated |-> TRUE])
        PROVE  /\ Kept({"watcher", "activated"})
               /\ site'.watcher = "done"
               /\ site'.activated = TRUE
    BY <1>t, <2>1, BecomesIs DEF SiteFields
  <2>2. ASSUME Becomes([watcher |-> "rejected"])
        PROVE  Kept({"watcher"}) /\ site'.watcher = "rejected"
    BY <1>t, <2>2, BecomesIs DEF SiteFields
  <2>3. /\ site.at = "running" /\ UNCHANGED <<root, before>>
        /\ \/ Kept({"watcher"})
           \/ /\ root.marker = site.world
              /\ root.marker # Absent
              /\ Kept({"watcher", "activated"})
              /\ site'.activated = TRUE
    BY <1>13, <2>1, <2>2 DEF PollMarker
  <2> QED
    BY <2>3 DEF Inv, Typed, EvidenceKnown, PortKnown, ActivationKnown, Pristine, Own,
       Kept, Leaves, SiteFields
<1>14. CASE WriteMarker
  <2>1. /\ UNCHANGED << site, before >> /\ root' \in RootStates
        /\ root'.evidence = root.evidence /\ root'.controlled = root.controlled
        /\ root.marker = Absent
    BY <1>14, <1>t DEF WriteMarker, Typed, RootStates
  <2>2. Typed'
    BY <2>1, <1>t DEF Typed, Kept, Leaves, SiteFields
  <2>3. EvidenceKnown'
    BY <2>1 DEF Inv, Typed, EvidenceKnown, Own, Kept, Leaves, SiteFields
  <2>4. PortKnown'
    BY <2>1 DEF Inv, Typed, EvidenceKnown, PortKnown, ActivationKnown, Pristine, Own,
       Kept, Leaves, SiteFields
  <2>5. ActivationKnown'
    BY <2>1 DEF Inv, Typed, ActivationKnown, Kept, Leaves, SiteFields
  <2> QED
    BY <2>2, <2>3, <2>4, <2>5 DEF Inv
<1>15. CASE TickWorld
  <2>1. ASSUME Becomes([ticks |-> site.ticks + 1])
        PROVE  Kept({"ticks"}) /\ site'.ticks = site.ticks + 1
    BY <1>t, <2>1, BecomesIs DEF SiteFields
  <2>2. /\ site.activated /\ UNCHANGED <<root, before>>
        /\ Kept({"ticks"}) /\ site'.ticks \in Nat
    BY <1>15, <1>t, <2>1 DEF TickWorld, Typed
  <2> QED
    BY <2>2, ZenonT(60) DEF Inv, Typed, EvidenceKnown, PortKnown, ActivationKnown, Pristine, Own,
       Kept, Leaves, SiteFields
<1>16. CASE Claim
  <2>1. ASSUME Becomes([claims |-> site.claims + 1])
        PROVE  Kept({"claims"}) /\ site'.claims = site.claims + 1
    BY <1>t, <2>1, BecomesIs DEF SiteFields
  <2>2. /\ site.activated /\ UNCHANGED <<root, before>>
        /\ Kept({"claims"}) /\ site'.claims \in Nat
    BY <1>16, <1>t, <2>1 DEF Claim, Typed
  <2> QED
    BY <2>2, ZenonT(60) DEF Inv, Typed, EvidenceKnown, PortKnown, ActivationKnown, Pristine, Own,
       Kept, Leaves, SiteFields
<1>17. CASE Signal
  <2>1. ASSUME Becomes([stopping |-> TRUE])
        PROVE  Kept({"stopping"}) /\ site'.stopping = TRUE
    BY <1>t, <2>1, BecomesIs DEF SiteFields
  <2>2. /\ UNCHANGED <<root, before>>
        /\ Kept({"stopping"})
    BY <1>17, <2>1 DEF Signal
  <2>3. Typed'
    BY <2>2, <1>t DEF Typed, Kept, Leaves, SiteFields
  <2>4. EvidenceKnown'
    BY <2>2 DEF Inv, Typed, EvidenceKnown, Own, Kept, Leaves, SiteFields
  <2>5. PortKnown'
    BY <2>2 DEF Inv, Typed, EvidenceKnown, PortKnown, ActivationKnown, Pristine, Own,
       Kept, Leaves, SiteFields
  <2>6. ActivationKnown'
    BY <2>2 DEF Inv, Typed, ActivationKnown, Kept, Leaves, SiteFields
  <2> QED
    BY <2>3, <2>4, <2>5, <2>6 DEF Inv
<1>18. CASE BeginClose
  <2>1. ASSUME Becomes([at |-> "closing", listens |-> "no", watcher |-> "none"])
        PROVE  /\ Kept({"at", "listens", "watcher"})
               /\ site'.at = "closing"
               /\ site'.listens = "no"
               /\ site'.watcher = "none"
    BY <1>t, <2>1, BecomesIs DEF SiteFields
  <2>2. /\ site.at = "running" /\ UNCHANGED <<root, before>>
        /\ Kept({"at", "listens", "watcher"})
        /\ site'.at = "closing"
        /\ site'.listens = "no"
    BY <1>18, <2>1 DEF BeginClose
  <2> QED
    BY <2>2 DEF Inv, Typed, EvidenceKnown, PortKnown, ActivationKnown, Pristine, Own,
       Kept, Leaves, SiteFields
<1>19. CASE CloseAnswers
  <2>1. ASSUME NEW how, Becomes([at |-> "down", ended |-> how, controller |-> FALSE])
        PROVE  /\ Kept({"at", "ended", "controller"})
               /\ site'.at = "down"
               /\ site'.ended = how
               /\ site'.controller = FALSE
    BY <1>t, <2>1, BecomesIs DEF SiteFields
  <2>2. /\ site.at = "closing" /\ UNCHANGED <<root, before>>
        /\ Kept({"at", "ended", "controller"})
        /\ site'.at = "down"
        /\ site'.ended \in {"closed", "closeFailed"}
    BY <1>19, <2>1 DEF CloseAnswers, Ends
  <2> QED
    BY <2>2 DEF Inv, Typed, EvidenceKnown, PortKnown, ActivationKnown, Pristine, Own,
       Kept, Leaves, SiteFields
<1>20. CASE CloseTimesOut
  <2>1. ASSUME NEW how, Becomes([at |-> "down", ended |-> how, controller |-> FALSE])
        PROVE  /\ Kept({"at", "ended", "controller"})
               /\ site'.at = "down"
               /\ site'.ended = how
               /\ site'.controller = FALSE
    BY <1>t, <2>1, BecomesIs DEF SiteFields
  <2>2. /\ site.at = "closing" /\ UNCHANGED <<root, before>>
        /\ Kept({"at", "ended", "controller"})
        /\ site'.at = "down"
        /\ site'.ended \in {"closed", "closeFailed"}
    BY <1>20, <2>1 DEF CloseTimesOut, Ends
  <2> QED
    BY <2>2 DEF Inv, Typed, EvidenceKnown, PortKnown, ActivationKnown, Pristine, Own,
       Kept, Leaves, SiteFields
<1>21. CASE WriteEvidence
  <2>1. site.at = "write" /\ UNCHANGED before
    BY <1>21 DEF WriteEvidence
  <2>2. CASE Fails /\ UNCHANGED root
    BY <1>f, <2>2, <2>1 DEF Inv, Typed, EvidenceKnown, PortKnown,
       ActivationKnown, Pristine, Own, Kept, Leaves, SiteFields
  <2>3. CASE root' = [root EXCEPT !.temporary = site.world] /\ Onward("link")
    <3>1. Kept({"at"}) /\ site'.at = "link"
      BY <1>t, <2>3, OnwardIs
    <3>2. root' = [root EXCEPT !.temporary = site.world]
      BY <2>3
    <3>3. Leaves(root.evidence)
      BY <1>t, <3>2, EvidenceIs, RootLeaves
    <3> QED
      BY <2>1, <3>1, <3>3 DEF Inv, Typed, EvidenceKnown, PortKnown, ActivationKnown,
         Pristine, Own, Kept, Leaves, SiteFields
  <2> QED
    BY <1>21, <2>2, <2>3 DEF WriteEvidence
<1>22. CASE LinkEvidence
  <2>1. site.at = "link" /\ UNCHANGED before
    BY <1>22 DEF LinkEvidence
  <2>2. CASE root' = [root EXCEPT !.temporary = Absent] /\ Fails
    BY <1>f, <2>2, <1>t, EvidenceIs, RootLeaves, <2>1 DEF Inv, Typed,
       EvidenceKnown, PortKnown, ActivationKnown, Pristine, Own, Kept, Leaves,
       SiteFields
  <2>3. CASE root' = [root EXCEPT !.temporary = Absent] /\ Exact(root.evidence) /\ Onward("listen")
    <3>1. Kept({"at"}) /\ site'.at = "listen" /\ root' = [root EXCEPT !.temporary = Absent]
      BY <1>t, <2>3, OnwardIs
    <3>2. Leaves(root.evidence)
      BY <1>t, <3>1, EvidenceIs, RootLeaves
    <3>3. Own(1)
      BY <1>t, <2>3, EvidenceIs
    <3> QED
      BY <2>1, <3>1, <3>2, <3>3 DEF Inv, Typed, EvidenceKnown, PortKnown,
         ActivationKnown, Pristine, Own, Kept, Leaves, SiteFields
  <2>4. CASE /\ ~root.evidence.there /\ Onward("linked")
             /\ root' = [root EXCEPT !.evidence =
                           [there |-> TRUE, body |-> site.world, links |-> 2]]
    <3> DEFINE linked == [there |-> TRUE, body |-> site.world, links |-> 2]
    <3>1. Kept({"at"}) /\ site'.at = "linked" /\ ~root.evidence.there
      BY <1>t, <2>4, OnwardIs
    <3>2. root' = [root EXCEPT !.evidence = linked] /\ linked \in EvidenceFiles
      BY <1>t, <2>4, EvidenceIs
    <3>3. site'.world = site.world
      BY <3>1 DEF Kept, SiteFields
    <3>4. linked = [there |-> TRUE, body |-> site'.world, links |-> 2] /\ linked.there
      BY <3>3
    <3> HIDE DEF linked
    <3>5. Leaves(linked)
      BY <1>t, <3>2, EvidenceIs, RootLeaves
    <3> QED
      BY <2>1, <3>1, <3>4, <3>5 DEF Inv, Typed, EvidenceKnown, PortKnown,
         ActivationKnown, Pristine, Own, Kept, Leaves, SiteFields
  <2> QED
    BY <1>22, <2>2, <2>3, <2>4 DEF LinkEvidence
<1>23. CASE VerifyEvidence
  <2>1. site.at = "linked" /\ UNCHANGED before
    BY <1>23 DEF VerifyEvidence
  <2>2. CASE Onward("unlink") /\ UNCHANGED root
    <3>1. Kept({"at"}) /\ site'.at = "unlink" /\ UNCHANGED root
      BY <1>t, <2>2, OnwardIs
    <3> QED
      BY <2>1, <3>1 DEF Inv, Typed, EvidenceKnown, PortKnown, ActivationKnown, Pristine,
         Own, Kept, Leaves, SiteFields
  <2>3. CASE Fails /\ root' = [root EXCEPT !.evidence = NoReadiness, !.temporary = Absent]
    BY <1>f, <2>3, <1>t, EvidenceIs, RootLeaves, <2>1 DEF Inv, Typed,
       EvidenceKnown, PortKnown, ActivationKnown, Pristine, Own, Kept, Leaves,
       SiteFields
  <2> QED
    BY <1>23, <2>2, <2>3 DEF VerifyEvidence
<1>24. CASE UnlinkTemporary
  <2> DEFINE unlinked == [root.evidence EXCEPT !.links = 1]
  <2>1. site.at = "unlink" /\ UNCHANGED before
    BY <1>24 DEF UnlinkTemporary
  <2>2. Becomes([at |-> "listen", created |-> TRUE])
    BY <1>24 DEF UnlinkTemporary
  <2>3. Kept({"at", "created"}) /\ site'.at = "listen" /\ site'.created = TRUE
    BY <1>t, <2>2, BecomesIs DEF SiteFields
  <2>4. root' = [root EXCEPT !.evidence = unlinked, !.temporary = Absent]
    BY <1>24, <1>t DEF UnlinkTemporary, Typed, RootStates
  <2>5. Own(2) /\ before = NoReadiness
    BY <2>1 DEF Inv, EvidenceKnown
  <2>6. unlinked \in EvidenceFiles
    BY <1>t, EvidenceIs
  <2>7. unlinked.there = TRUE /\ unlinked.body = site.world /\ unlinked.links = 1
    BY <1>t, <2>5, EvidenceIs DEF Own, EvidenceFiles
  <2> HIDE DEF unlinked
  <2>8. Leaves(unlinked)
    BY <1>t, <2>4, <2>6, EvidenceIs, RootLeaves
  <2>9. site'.world = site.world /\ root'.evidence = unlinked
    BY <2>3, <2>8 DEF Leaves, Kept, SiteFields
  <2>10. Own(1)' /\ root'.evidence.there
    BY <2>6, <2>7, <2>9, EvidenceEqual DEF Own
  <2> QED
    BY <2>1, <2>3, <2>5, <2>8, <2>10 DEF Inv, Typed, EvidenceKnown, PortKnown,
       ActivationKnown,
       Pristine, Kept, Leaves, SiteFields
<1>25. CASE UndoEvidence
  <2>1. site.at = "undoEvidence" /\ UNCHANGED before
    BY <1>25 DEF UndoEvidence
  <2>2. CASE Becomes([at |-> "log", trouble |-> TRUE]) /\ UNCHANGED root
    <3>1. Kept({"at", "trouble"}) /\ site'.at = "log" /\ site'.trouble = TRUE /\ UNCHANGED root
      BY <1>t, <2>2, BecomesIs DEF SiteFields
    <3> QED
      BY <2>1, <3>1 DEF Inv, Typed, EvidenceKnown, PortKnown, ActivationKnown, Pristine,
         Own, Kept, Leaves, SiteFields
  <2>3. CASE /\ Onward("log")
             /\ root' = [root EXCEPT !.evidence =
                           IF site.created /\ Exact(@) THEN NoReadiness ELSE @]
    <3> DEFINE left == IF site.created /\ Exact(root.evidence) THEN NoReadiness
                       ELSE root.evidence
    <3>1. Kept({"at"}) /\ site'.at = "log"
      BY <1>t, <2>3, OnwardIs
    <3>2. root' = [root EXCEPT !.evidence = left]
      BY <2>3
    <3>3. left \in EvidenceFiles /\ (~left.there => left = NoReadiness)
      BY <1>t, EvidenceIs DEF Inv, EvidenceKnown
    <3>4. left = before
      BY <2>1 DEF Inv, EvidenceKnown, Own, Exact
    <3> HIDE DEF left
    <3>5. Leaves(left)
      BY <1>t, <3>2, <3>3, EvidenceIs, RootLeaves
    <3> QED
      BY <2>1, <3>1, <3>3, <3>4, <3>5 DEF Inv, Typed, EvidenceKnown, PortKnown,
         ActivationKnown, Pristine, Own, Kept, Leaves, SiteFields
  <2> QED
    BY <1>25, <2>2, <2>3 DEF UndoEvidence
<1>26. CASE Boot
  <2>0. before' = root.evidence /\ Leaves(root.evidence)
    BY <1>26, <1>t DEF Boot, Leaves, Typed, RootStates
  <2>1. site' = [Down EXCEPT !.at = IF root.proves THEN "prove" ELSE "compose"]
    BY <1>26, <1>t DEF Boot, Leaves, Typed, RootStates
  <2>2. /\ site' = [x \in SiteFields |-> site'[x]]
        /\ site'.at \in {"prove", "compose"} /\ site'.ticks = 0 /\ site'.claims = 0
        /\ site'.activated \in BOOLEAN
        /\ site'.created \in BOOLEAN
        /\ site'.trouble \in BOOLEAN
        /\ ~site'.activated /\ ~site'.created
        /\ site'.world = Absent /\ site'.listens = "no"
    BY <2>1 DEF Down, SiteFields
  <2>3. Typed'
    BY <1>e, <1>t, <2>0, <2>2 DEF Typed, Leaves
  <2>4. EvidenceKnown'
    BY <2>0, <2>2 DEF Inv, EvidenceKnown, Leaves
  <2>5. PortKnown'
    BY <2>2 DEF PortKnown
  <2>6. ActivationKnown'
    BY <2>2 DEF ActivationKnown
  <2> QED
    BY <2>3, <2>4, <2>5, <2>6 DEF Inv
<1>27. CASE SidecarDies
  <2>0. UNCHANGED << root, before >>
    BY <1>27 DEF SidecarDies
  <2>1. site' = [Down EXCEPT !.ended = "died"]
    BY <1>27 DEF SidecarDies
  <2>2. /\ site' = [x \in SiteFields |-> site'[x]]
        /\ site'.at = "down" /\ site'.ended = "died" /\ site'.ticks = 0
        /\ site'.activated \in BOOLEAN
        /\ site'.created \in BOOLEAN
        /\ site'.trouble \in BOOLEAN
        /\ site'.claims = 0
        /\ ~site'.activated
        /\ ~site'.created
        /\ site'.world = Absent
        /\ site'.listens = "no"
    BY <2>1 DEF Down, SiteFields
  <2>3. Typed'
    BY <1>e, <1>t, <2>0, <2>2 DEF Typed
  <2>4. EvidenceKnown'
    BY <2>0, <2>2 DEF Inv, EvidenceKnown
  <2>5. PortKnown'
    BY <2>2 DEF PortKnown
  <2>6. ActivationKnown'
    BY <2>2 DEF ActivationKnown
  <2> QED
    BY <2>3, <2>4, <2>5, <2>6 DEF Inv
<1>28. CASE UNCHANGED sidecarVars
  BY <1>28 DEF sidecarVars, Inv, Typed, EvidenceKnown, PortKnown, ActivationKnown,
     Pristine, Own
<1>29. CASE Exit
  <2>1. /\ site.at = "exiting" /\ UNCHANGED << root, before >>
        /\ Kept({"at"}) /\ site'.at = "down"
    BY <1>29, <1>t, OnwardIs DEF Exit
  <2> QED
    BY <2>1 DEF Inv, Typed, EvidenceKnown, PortKnown, ActivationKnown, Pristine, Own,
       Kept, Leaves, SiteFields
<1> QED
  BY <1>1, <1>2, <1>3, <1>4, <1>5, <1>6, <1>7, <1>8, <1>9, <1>10, <1>11, <1>12, <1>13,
     <1>14, <1>15, <1>16, <1>17, <1>18, <1>19, <1>20, <1>21, <1>22, <1>23, <1>24, <1>25,
     <1>26, <1>27, <1>28, <1>29 DEF SidecarNext, Proceeds

\* Whoever reaches the port finds complete evidence of this very world and a world
\* nobody moved before its marker was there; and a start that failed leaves no open
\* port and the evidence as it found it: for any number of starts, worlds and ticks
\* (sidecarEntrypoint.ts, sidecarFilesystem.ts).
THEOREM SidecarExactAlways == SidecarSpec => []SidecarExact
<1>1. Inv => SidecarExact
  BY DEF Inv, Typed, EvidenceKnown, PortKnown, ActivationKnown, Own, SidecarExact,
     ReadinessHonest,
     FailedStartUndone
<1> QED
  BY <1>1, InitInv, NextInv, PTL DEF SidecarSpec

-------------------------------------------------------------------------------
\* The cache of bundles, for any callers, inputs, edits and losses of power.

Versioned == [InputFiles -> Nat]
Built == [provider : Versioned, service : Versioned, composer : Versioned]
Calls ==
    [phase : Phases, at : Nat \ {0}, digest : Versioned, bundle : Built,
     built : BOOLEAN, undisturbed : BOOLEAN, together : BOOLEAN]

\* A call with a part of a bundle read anew.
Reading(k, part, versions) == [k EXCEPT !.bundle[part] = versions]

ToPublish == {"write", "link", "unlink", "confirm"}
AfterComposer == {"composerBuilt"} \cup ToPublish
AfterService == {"serviceBuilt", "composer"} \cup AfterComposer
AfterSnapshot == {"verify"} \cup AfterService
AfterProvider == {"authority", "service"} \cup AfterSnapshot

\* The call is in one of these phases, or came through them all.
In(k, phases) == k.phase \in phases \/ (k.phase = "returned" /\ k.built)

\* What a call that nobody disturbed has read is what lies on the disk, as far as
\* it has come.
ReadSoFar(k) ==
    k.undisturbed =>
      /\ k.phase = "hash" =>
           \A i \in DOMAIN Declared : i < k.at => k.digest[Declared[i]] = content[Declared[i]]
      /\ k.phase \notin {"idle", "hash", "rejected", "gone"} => k.digest = content
      /\ In(k, AfterProvider) => \A f \in Provider : k.bundle.provider[f] = content[f]
      /\ k.phase = "authority" =>
           \A i \in DOMAIN Authority :
             i < k.at => k.bundle.service[Authority[i]] = content[Authority[i]]
      /\ k.phase = "service" =>
           /\ \A f \in Elements(Authority) : k.bundle.service[f] = content[f]
           /\ \A i \in DOMAIN Service :
                i < k.at => k.bundle.service[Service[i]] = content[Service[i]]
      /\ In(k, AfterSnapshot) =>
           \A f \in Elements(Snapshot) : k.bundle.service[f] = content[f]
      /\ k.phase = "composer" =>
           \A i \in DOMAIN Composer :
             i < k.at => k.bundle.composer[Composer[i]] = content[Composer[i]]
      /\ In(k, AfterComposer) =>
           \A f \in Elements(Composer) : k.bundle.composer[f] = content[f]

\* A snapshot that was not of one moment has a file, still to be verified, that is
\* no more what was read: a file never returns to earlier contents.
OneMoment(k) ==
    /\ k.phase \in {"provider", "authority", "service", "verify"} =>
         \A f \in InputFiles : k.bundle.service[f] <= content[f]
    /\ k.phase = "verify" /\ ~k.together =>
         \E i \in DOMAIN Snapshot :
           k.at <= i /\ k.bundle.service[Snapshot[i]] < content[Snapshot[i]]
    /\ In(k, AfterService) => k.together

\* What a caller holds is what the cache holds under its digest.
HoldsEntry(k) ==
    /\ k.phase \in {"unlink", "confirm", "returned"} => k.digest \in DOMAIN cache
    /\ k.phase = "returned" => cache[k.digest].bundle = k.bundle

Sound(k) ==
    /\ k \in Calls
    /\ k.phase \in {"idle", "hash", "lookUp", "provider"} => k.bundle = NoBundle
    /\ k.phase \in {"idle", "provider"} => k.at = 1
    /\ k.built => k.phase \in ToPublish \cup {"returned", "rejected", "gone"}
    /\ ReadSoFar(k)
    /\ OneMoment(k)
    /\ HoldsEntry(k)

CacheInv ==
    /\ content \in Versioned
    /\ \A d \in DOMAIN cache : cache[d] \in [whole : BOOLEAN, lasting : BOOLEAN, bundle : Built]
    /\ call = [c \in Callers |-> call[c]]
    /\ \A c \in Callers : Sound(call[c])


\* Nothing of the call but where it stands.
Stands(k, phase, i) == [k EXCEPT !.phase = phase, !.at = i]

\* What a call is after it has moved: the same, at another place.
LEMMA StandsIs ==
  ASSUME NEW k \in Calls, NEW phase \in Phases, NEW i \in Nat \ {0}
  PROVE  LET n == Stands(k, phase, i) IN
         /\ n \in Calls /\ n.phase = phase /\ n.at = i
         /\ n.digest = k.digest /\ n.bundle = k.bundle /\ n.built = k.built
         /\ n.undisturbed = k.undisturbed /\ n.together = k.together
BY DEF Stands, Calls

\* A step of one caller that touches neither the inputs nor the cache.
LEMMA CallMoves ==
  ASSUME CacheInv, NEW c \in Callers, NEW n, Sound(n), call' = [call EXCEPT ![c] = n],
         content' = content, cache' = cache
  PROVE  CacheInv'
<1>1. \A k : Sound(k)' <=> Sound(k)
  BY DEF Sound, ReadSoFar, OneMoment, HoldsEntry
<1>2. call' = [d \in Callers |-> IF d = c THEN n ELSE call[d]]
  BY DEF CacheInv
<1>3. \A d \in Callers : Sound(call'[d])
  BY <1>2 DEF CacheInv
<1>4. \A d \in Callers : Sound(call[d])'
  BY <1>1, <1>3
<1> QED
  BY <1>2, <1>4 DEF CacheInv

\* A caller that leaves holds nothing any more.
LEMMA CallerLeaves ==
  ASSUME CacheInv, NEW c \in Callers, NEW phase \in {"rejected", "gone"}, Goes(c, phase),
         content' = content, cache' = cache
  PROVE  CacheInv'
<1> PICK k : k = call[c]
  OBVIOUS
<1> PICK n : n = Stands(k, phase, 1)
  OBVIOUS
<1>1. Sound(k)
  BY DEF CacheInv
<1>2. /\ n \in Calls /\ n.phase = phase /\ n.at = 1 /\ n.digest = k.digest
      /\ n.bundle = k.bundle /\ n.built = k.built
<2>1. phase \in Phases
  BY DEF Phases
<2> QED
  BY <1>1, <2>1, StandsIs DEF Sound
<1>3. ReadSoFar(n) /\ OneMoment(n) /\ HoldsEntry(n)
  BY <1>2 DEF ReadSoFar, OneMoment, HoldsEntry, In, AfterProvider, AfterSnapshot,
              AfterService, AfterComposer, ToPublish
<1>4. Sound(n)
  BY <1>1, <1>2, <1>3 DEF Sound, ToPublish
<1>5. call' = [call EXCEPT ![c] = n]
  BY DEF Goes, Stands, CacheInv
<1> QED
  BY <1>4, <1>5, CallMoves

\* A position behind a sequence is behind each of its places.
LEMMA BehindAll ==
  ASSUME NEW s \in Seq(InputFiles), NEW i \in Nat \ {0}, i \notin DOMAIN s
  PROVE  \A j \in DOMAIN s : j < i
OBVIOUS

\* The snapshot is a sequence of declared inputs.
LEMMA SnapshotIs == Snapshot \in Seq(InputFiles)
BY BuildReadsDeclared DEF Snapshot

\* What the snapshot holds are the files of its two parts.
LEMMA SnapshotFiles == Elements(Snapshot) = Elements(Authority) \cup Elements(Service)
<1>1. Authority \in Seq(InputFiles) /\ Service \in Seq(InputFiles)
  BY BuildReadsDeclared
<1> DEFINE a == Len(Authority)  b == Len(Service)
<1>2. /\ a \in Nat /\ b \in Nat /\ DOMAIN Authority = 1 .. a /\ DOMAIN Service = 1 .. b
      /\ DOMAIN Snapshot = 1 .. (a + b)
      /\ \A i \in 1 .. a : Snapshot[i] = Authority[i]
      /\ \A i \in (a + 1) .. (a + b) : Snapshot[i] = Service[i - a]
  BY <1>1 DEF Snapshot
<1> HIDE DEF a, b
<1>3. ASSUME NEW i \in DOMAIN Snapshot
      PROVE  Snapshot[i] \in Elements(Authority) \cup Elements(Service)
  <2>1. CASE i <= a
    BY <1>2, <2>1 DEF Elements
  <2>2. CASE i > a
    BY <1>2, <2>2 DEF Elements
  <2> QED
    BY <1>2, <2>1, <2>2
<1>4. ASSUME NEW i \in DOMAIN Authority PROVE Authority[i] \in Elements(Snapshot)
  BY <1>2 DEF Elements
<1>5. ASSUME NEW i \in DOMAIN Service PROVE Service[i] \in Elements(Snapshot)
  <2>1. i + a \in (a + 1) .. (a + b) /\ i + a \in DOMAIN Snapshot /\ (i + a) - a = i
    BY <1>2
  <2> QED
    BY <1>2, <2>1 DEF Elements
<1> QED
  BY <1>3, <1>4, <1>5 DEF Elements

\* A step from one stage to the next.
LEMMA Moves ==
  ASSUME CacheInv, NEW c \in Callers, NEW phase \in Phases, Goes(c, phase),
         content' = content, cache' = cache,
         <<call[c].phase, phase>> \in
           {<<"hash", "lookUp">>, <<"lookUp", "provider">>, <<"authority", "service">>,
            <<"verify", "serviceBuilt">>, <<"serviceBuilt", "composer">>,
            <<"composer", "composerBuilt">>, <<"write", "link">>, <<"unlink", "confirm">>},
         phase = "lookUp" => call[c].at \notin DOMAIN Declared,
         phase = "service" => call[c].at \notin DOMAIN Authority,
         phase = "serviceBuilt" => call[c].at \notin DOMAIN Snapshot,
         phase = "composerBuilt" => call[c].at \notin DOMAIN Composer
  PROVE  CacheInv'
<1> PICK k : k = call[c]
  OBVIOUS
<1> PICK n : n = Stands(k, phase, 1)
  OBVIOUS
<1>1. Sound(k) /\ k \in Calls
  BY DEF CacheInv, Sound
<1>2. /\ n \in Calls /\ n.phase = phase /\ n.at = 1 /\ n.digest = k.digest
      /\ n.bundle = k.bundle /\ n.built = k.built
      /\ n.undisturbed = k.undisturbed /\ n.together = k.together
  BY <1>1, StandsIs
<1>3. ReadSoFar(n)
  <2>1. SUFFICES ASSUME k.undisturbed PROVE ReadSoFar(n)
    BY <1>2 DEF ReadSoFar
  <2>2. k.phase = "hash" => k.digest = content
    <3>1. SUFFICES ASSUME k.phase = "hash" PROVE \A f \in InputFiles : k.digest[f] = content[f]
      BY <1>1 DEF Calls, Versioned, CacheInv
    <3>2. phase = "lookUp"
      BY <3>1
    <3>3. \A i \in DOMAIN Declared : i < k.at
      BY <1>1, <3>2, BehindAll, BuildReadsDeclared DEF Calls
    <3> QED
      BY <1>1, <2>1, <3>1, <3>3, BuildReadsDeclared DEF Sound, ReadSoFar, Elements
  <2>3. n.digest = content
    BY <1>1, <1>2, <2>1, <2>2 DEF Sound, ReadSoFar
  <2>4. phase \in AfterProvider => k.phase \in AfterProvider
    BY DEF AfterProvider, AfterSnapshot, AfterService, AfterComposer, ToPublish
  <2>5. phase = "service" => \A f \in Elements(Authority) : k.bundle.service[f] = content[f]
    <3>1. SUFFICES ASSUME phase = "service"
                   PROVE  \A f \in Elements(Authority) : k.bundle.service[f] = content[f]
      OBVIOUS
    <3>2. k.phase = "authority" /\ \A i \in DOMAIN Authority : i < k.at
      BY <1>1, <3>1, BehindAll, BuildReadsDeclared DEF Calls
    <3> QED
      BY <1>1, <2>1, <3>2 DEF Sound, ReadSoFar, Elements
  <2>6. phase \in AfterSnapshot => k.phase \in AfterSnapshot
    BY DEF AfterSnapshot, AfterService, AfterComposer, ToPublish
  <2>7. phase = "composerBuilt" => \A f \in Elements(Composer) : k.bundle.composer[f] = content[f]
    <3>1. SUFFICES ASSUME phase = "composerBuilt"
                   PROVE  \A f \in Elements(Composer) : k.bundle.composer[f] = content[f]
      OBVIOUS
    <3>2. k.phase = "composer" /\ \A i \in DOMAIN Composer : i < k.at
      BY <1>1, <3>1, BehindAll, BuildReadsDeclared DEF Calls
    <3> QED
      BY <1>1, <2>1, <3>2 DEF Sound, ReadSoFar, Elements
  <2>8. phase \in AfterComposer /\ phase # "composerBuilt" => k.phase \in AfterComposer
    BY DEF AfterComposer, ToPublish
  <2>9. /\ \A i \in DOMAIN Declared \cup DOMAIN Authority \cup DOMAIN Service \cup DOMAIN Composer :
             ~(i < 1)
        /\ phase \notin {"hash", "authority", "returned"}
    BY BuildReadsDeclared
  <2>10. /\ In(n, AfterProvider) => \A f \in Provider : n.bundle.provider[f] = content[f]
         /\ In(n, AfterSnapshot) => \A f \in Elements(Snapshot) : n.bundle.service[f] = content[f]
         /\ In(n, AfterComposer) => \A f \in Elements(Composer) : n.bundle.composer[f] = content[f]
    BY <1>1, <1>2, <2>1, <2>4, <2>6, <2>7, <2>8, <2>9 DEF Sound, ReadSoFar, In
  <2> QED
    BY <1>2, <2>3, <2>5, <2>9, <2>10 DEF ReadSoFar
<1>4. OneMoment(n)
  <2>1. phase = "serviceBuilt" => k.together
    <3>1. SUFFICES ASSUME phase = "serviceBuilt", ~k.together PROVE FALSE
      BY <1>1 DEF Calls
    <3>2. k.phase = "verify" /\ \A i \in DOMAIN Snapshot : i < k.at
      BY <1>1, <3>1, BehindAll, SnapshotIs DEF Calls
    <3>3. PICK i \in DOMAIN Snapshot : k.at <= i
      BY <1>1, <3>1, <3>2 DEF Sound, OneMoment
    <3> QED
      BY <1>1, <3>2, <3>3, SnapshotIs DEF Calls
  <2>2. phase \in AfterService /\ phase # "serviceBuilt" => k.phase \in AfterService
    BY DEF AfterService, AfterComposer, ToPublish
  <2>3. phase \notin {"verify", "returned"}
    OBVIOUS
  <2>4. phase \in {"provider", "authority", "service"} =>
          \A f \in InputFiles : k.bundle.service[f] <= content[f]
    BY <1>1 DEF Sound, OneMoment, NoBundle, Nowhere, Unread, CacheInv,
       Versioned
  <2> QED
    BY <1>1, <1>2, <2>1, <2>2, <2>3, <2>4 DEF Sound, OneMoment, In
<1>5. HoldsEntry(n)
  BY <1>1, <1>2 DEF Sound, HoldsEntry
<1>6. Sound(n)
  BY <1>1, <1>2, <1>3, <1>4, <1>5 DEF Sound, ToPublish
<1>7. call' = [call EXCEPT ![c] = n]
  BY DEF Goes, Stands, CacheInv
<1> QED
  BY <1>6, <1>7, CallMoves

-------------------------------------------------------------------------------
\* The steps that read a file or take up a place, one by one.

\* A caller that asks starts to hash, and nobody has disturbed it yet.
LEMMA AskStep ==
  ASSUME CacheInv, NEW c \in Callers, Ask(c)
  PROVE  CacheInv'
<1> PICK k : k = call[c]
  OBVIOUS
<1> PICK n : n = [k EXCEPT !.phase = "hash", !.undisturbed = TRUE]
  OBVIOUS
<1>1. Sound(k) /\ k \in Calls /\ k.phase = "idle"
  BY DEF CacheInv, Sound, Ask
<1>2. /\ n \in Calls /\ n.phase = "hash" /\ n.at = k.at /\ n.digest = k.digest
      /\ n.bundle = k.bundle /\ n.built = k.built /\ n.together = k.together
      /\ n.undisturbed
  BY <1>1 DEF Calls, Phases
<1>3. n.at = 1 /\ \A i \in DOMAIN Declared : ~(i < 1)
  BY <1>1, <1>2, BuildReadsDeclared DEF Sound
<1>4. ReadSoFar(n) /\ OneMoment(n) /\ HoldsEntry(n)
  BY <1>2, <1>3 DEF ReadSoFar, OneMoment, HoldsEntry, In, AfterProvider, AfterSnapshot,
                    AfterService, AfterComposer, ToPublish
<1>5. Sound(n)
  BY <1>1, <1>2, <1>4 DEF Sound, ToPublish
<1>6. call' = [call EXCEPT ![c] = n] /\ content' = content /\ cache' = cache
  BY DEF Ask, CacheInv
<1> QED
  BY <1>5, <1>6, CallMoves

\* One more declared input is hashed.
LEMMA HashStep ==
  ASSUME CacheInv, NEW c \in Callers, HashInput(c)
  PROVE  CacheInv'
<1> PICK k : k = call[c]
  OBVIOUS
<1>1. Sound(k) /\ k \in Calls /\ k.phase = "hash" /\ k.at \in DOMAIN Declared
  BY DEF CacheInv, Sound, HashInput
<1> PICK f : f = Declared[k.at]
  OBVIOUS
<1> PICK digest : digest = [k.digest EXCEPT ![f] = content[f]]
  OBVIOUS
<1> PICK n : n = [k EXCEPT !.digest = digest, !.at = k.at + 1]
  OBVIOUS
<1>2. f \in InputFiles /\ content[f] \in Nat
  BY <1>1, BuildReadsDeclared DEF CacheInv, Versioned
<1>3. digest \in Versioned /\ k.at + 1 \in Nat \ {0}
  BY <1>1, <1>2 DEF Calls, Versioned
<1>4. /\ n \in Calls /\ n.phase = "hash" /\ n.at = k.at + 1 /\ n.digest = digest
      /\ n.bundle = k.bundle /\ n.built = k.built /\ n.together = k.together
      /\ n.undisturbed = k.undisturbed
  BY <1>1, <1>3 DEF Calls
<1>5. ASSUME n.undisturbed, NEW i \in DOMAIN Declared, i < n.at
      PROVE  n.digest[Declared[i]] = content[Declared[i]]
  <2>1. i < k.at \/ i = k.at
    BY <1>1, <1>4, <1>5, BuildReadsDeclared DEF Calls
  <2>2. Declared[i] \in InputFiles /\ k.digest \in [InputFiles -> Nat]
    BY <1>1, BuildReadsDeclared DEF Calls, Versioned
  <2> QED
    BY <1>1, <1>2, <1>4, <1>5, <2>1, <2>2 DEF Sound, ReadSoFar
<1>6. ReadSoFar(n)
  BY <1>4, <1>5 DEF ReadSoFar, In, AfterProvider, AfterSnapshot, AfterService, AfterComposer, ToPublish
<1>7. OneMoment(n) /\ HoldsEntry(n)
  BY <1>4 DEF OneMoment, HoldsEntry, In, AfterService, AfterComposer, ToPublish
<1>8. Sound(n)
  BY <1>1, <1>4, <1>6, <1>7 DEF Sound, ToPublish
<1>9. call' = [call EXCEPT ![c] = n] /\ content' = content /\ cache' = cache
  BY DEF HashInput, CacheInv
<1> QED
  BY <1>8, <1>9, CallMoves

\* An entry is found and taken as it is.
LEMMA FoundStep ==
  ASSUME CacheInv, NEW c \in Callers, LookUp(c), call[c].digest \in DOMAIN cache,
         Valid(cache[call[c].digest])
  PROVE  CacheInv'
<1> PICK k : k = call[c]
  OBVIOUS
<1> PICK held : held = cache[k.digest].bundle
  OBVIOUS
<1> PICK n : n = [k EXCEPT !.phase = "returned", !.bundle = held]
  OBVIOUS
<1>1. Sound(k) /\ k \in Calls /\ k.phase = "lookUp" /\ ~k.built
  BY DEF CacheInv, Sound, LookUp, ToPublish, Calls
<1>2. held \in Built
  BY DEF CacheInv
<1>3. /\ n \in Calls /\ n.phase = "returned" /\ n.at = k.at /\ n.digest = k.digest
      /\ n.bundle = held /\ n.built = k.built /\ n.together = k.together
      /\ n.undisturbed = k.undisturbed
  BY <1>1, <1>2 DEF Calls, Phases
<1>4. ReadSoFar(n)
  BY <1>1, <1>3 DEF Sound, ReadSoFar, In, AfterProvider, AfterSnapshot,
     AfterService, AfterComposer, ToPublish
<1>5. OneMoment(n) /\ HoldsEntry(n)
  BY <1>1, <1>3 DEF OneMoment, HoldsEntry, In, AfterService, AfterComposer, ToPublish
<1>6. Sound(n)
  BY <1>1, <1>3, <1>4, <1>5 DEF Sound
<1>7. call' = [call EXCEPT ![c] = n] /\ content' = content /\ cache' = cache
  BY <1>1 DEF LookUp, CacheInv
<1> QED
  BY <1>6, <1>7, CallMoves

\* The provider is built of what lies there.
LEMMA ProviderStep ==
  ASSUME CacheInv, NEW c \in Callers, BuildProvider(c), ~Goes(c, "rejected")
  PROVE  CacheInv'
<1> PICK k : k = call[c]
  OBVIOUS
<1> PICK part : part = [f \in InputFiles |-> IF f \in Provider THEN content[f] ELSE Unread]
  OBVIOUS
<1> PICK bundle : bundle = [k.bundle EXCEPT !.provider = part]
  OBVIOUS
<1> PICK n : n = [k EXCEPT !.phase = "authority", !.bundle = bundle]
  OBVIOUS
<1>1. Sound(k) /\ k \in Calls /\ k.phase = "provider" /\ ~k.built
  BY DEF CacheInv, Sound, BuildProvider, ToPublish, Calls
<1>2. part \in Versioned
  BY DEF CacheInv, Versioned, Unread
<1>3. bundle \in Built /\ bundle.provider = part /\ bundle.service = k.bundle.service
  BY <1>1, <1>2 DEF Calls, Built
<1>4. /\ n \in Calls /\ n.phase = "authority" /\ n.at = 1 /\ n.digest = k.digest
      /\ n.bundle = bundle /\ ~n.built /\ n.together = k.together
      /\ n.undisturbed = k.undisturbed
  BY <1>1, <1>3 DEF Calls, Phases, Sound
<1>5. /\ k.undisturbed => k.digest = content
      /\ \A f \in Provider : bundle.provider[f] = content[f]
      /\ \A i \in DOMAIN Authority : ~(i < 1)
  BY <1>1, <1>3, BuildReadsDeclared DEF Sound, ReadSoFar
<1>6. ReadSoFar(n)
  BY <1>4, <1>5 DEF ReadSoFar, In, AfterSnapshot, AfterService, AfterComposer, ToPublish
<1>7. OneMoment(n) /\ HoldsEntry(n)
  BY <1>1, <1>3, <1>4 DEF Sound, OneMoment, HoldsEntry, In, AfterService, AfterComposer, ToPublish
<1>8. Sound(n)
  BY <1>4, <1>6, <1>7 DEF Sound
<1>9. call' = [call EXCEPT ![c] = n] /\ content' = content /\ cache' = cache
  <2>1. call' = [call EXCEPT ![c].phase = "authority", ![c].bundle.provider = part]
    BY DEF BuildProvider
  <2>2. call' = [call EXCEPT ![c] = [@ EXCEPT !.phase = "authority", !.bundle = bundle]]
    BY <2>1
  <2> QED
    BY <2>2 DEF BuildProvider
<1> QED
  BY <1>8, <1>9, CallMoves

\* A call that retained one file more of its locks, tools or sources.
AfterReading(k, n, s) ==
    /\ k.phase \in {"authority", "service"} /\ s \in Seq(InputFiles) /\ k.at \in DOMAIN s
    /\ k.phase = "authority" => s = Authority
    /\ k.phase = "service" => s = Service
    /\ n \in Calls /\ n.phase = k.phase /\ n.at = k.at + 1 /\ n.digest = k.digest
    /\ n.bundle.provider = k.bundle.provider
    /\ \A g \in InputFiles :
         n.bundle.service[g] = IF g = s[k.at] THEN content[s[k.at]] ELSE k.bundle.service[g]
    /\ n.built = k.built /\ n.together = k.together /\ n.undisturbed = k.undisturbed

\* Such a call stays sound: the file it read is the one on disk, now.
LEMMA RetainSound ==
  ASSUME content \in Versioned, NEW k, Sound(k), NEW s, NEW n, AfterReading(k, n, s)
  PROVE  Sound(n)
<1> USE DEF AfterReading
<1>1. ~k.built /\ k \in Calls
  BY DEF Sound, ToPublish, Calls
<1>2. ReadSoFar(n)
  <2>1. SUFFICES ASSUME k.undisturbed PROVE ReadSoFar(n)
    BY DEF ReadSoFar
  <2>2. k.digest = content /\ \A g \in Provider : k.bundle.provider[g] = content[g]
    BY <2>1 DEF Sound, ReadSoFar, In, AfterProvider
  <2>3. \A g \in InputFiles : k.bundle.service[g] = content[g] => n.bundle.service[g] = content[g]
    OBVIOUS
  <2>4. ASSUME NEW i \in DOMAIN s, i < n.at PROVE n.bundle.service[s[i]] = content[s[i]]
    BY <1>1, <2>4, <2>1, <2>3 DEF Calls, Sound, ReadSoFar
  <2>5. k.phase = "service" => \A g \in Elements(Authority) : n.bundle.service[g] = content[g]
    <3>1. Elements(Authority) \subseteq InputFiles
      BY BuildReadsDeclared DEF Elements
    <3>2. k.phase = "service" => \A g \in Elements(Authority) : k.bundle.service[g] = content[g]
      BY <2>1 DEF Sound, ReadSoFar
    <3> QED
      BY <2>3, <3>1, <3>2
  <2> QED
    BY <1>1, <2>2, <2>4, <2>5
       DEF ReadSoFar, In, AfterSnapshot, AfterService, AfterComposer, ToPublish
<1>3. \A g \in InputFiles : n.bundle.service[g] <= content[g]
  BY DEF Sound, OneMoment, Versioned
<1>4. OneMoment(n) /\ HoldsEntry(n)
  BY <1>1, <1>3 DEF OneMoment, HoldsEntry, In, AfterService, AfterComposer, ToPublish
<1> QED
  BY <1>1, <1>2, <1>4 DEF Sound

\* What a vector of versions is after one of them is set.
LEMMA ReadOne ==
  ASSUME NEW v \in Versioned, NEW f \in InputFiles, NEW x \in Nat
  PROVE  /\ [v EXCEPT ![f] = x] \in Versioned
         /\ \A g \in InputFiles : [v EXCEPT ![f] = x][g] = IF g = f THEN x ELSE v[g]
BY DEF Versioned

\* A file of the generic entrypoint is retained as it is read.
LEMMA RetainStep ==
  ASSUME CacheInv, NEW c \in Callers,
         NEW s \in {Authority, Service}, call[c].at \in DOMAIN s,
         call[c].phase \in {"authority", "service"},
         call[c].phase = "authority" => s = Authority,
         call[c].phase = "service" => s = Service,
         call' = Retain(c, s[call[c].at]), content' = content, cache' = cache
  PROVE  CacheInv'
<1> PICK k : k = call[c]
  OBVIOUS
<1> PICK f : f = s[k.at]
  OBVIOUS
<1> PICK part : part = [k.bundle.service EXCEPT ![f] = content[f]]
  OBVIOUS
<1> PICK bundle : bundle = [k.bundle EXCEPT !.service = part]
  OBVIOUS
<1> PICK n : n = [k EXCEPT !.bundle = bundle, !.at = k.at + 1]
  OBVIOUS
<1>1. Sound(k) /\ k \in Calls
  BY DEF CacheInv, Sound
<1>2. s \in Seq(InputFiles) /\ f \in InputFiles /\ content[f] \in Nat
  BY BuildReadsDeclared DEF CacheInv, Versioned
<1>3. /\ part \in Versioned
      /\ \A g \in InputFiles : part[g] = IF g = f THEN content[f] ELSE k.bundle.service[g]
  BY <1>1, <1>2, ReadOne DEF Calls, Built
<1>4. /\ bundle \in Built /\ bundle.provider = k.bundle.provider /\ bundle.service = part
      /\ k.at + 1 \in Nat \ {0}
  BY <1>1, <1>3 DEF Calls, Built
<1>5. /\ n \in Calls /\ n.phase = k.phase /\ n.at = k.at + 1 /\ n.digest = k.digest
      /\ n.bundle = bundle /\ n.built = k.built /\ n.together = k.together
      /\ n.undisturbed = k.undisturbed
  BY <1>1, <1>4 DEF Calls
<1>6. Sound(n)
  <2>1. \A g \in InputFiles :
          n.bundle.service[g] = IF g = s[k.at] THEN content[s[k.at]] ELSE k.bundle.service[g]
    <3>1. n.bundle.service = part /\ f = s[k.at]
      BY <1>4, <1>5
    <3> QED
      BY <1>3, <3>1, Zenon
  <2>2. content \in Versioned /\ k.at \in DOMAIN s
    BY DEF CacheInv
  <2>3. /\ k.phase \in {"authority", "service"}
        /\ k.phase = "authority" => s = Authority
        /\ k.phase = "service" => s = Service
    OBVIOUS
  <2>4. n.bundle.provider = k.bundle.provider
    BY <1>4, <1>5
  <2>5. AfterReading(k, n, s)
    BY <1>2, <1>5, <2>1, <2>2, <2>3, <2>4 DEF AfterReading
  <2> QED
    BY <1>1, <2>2, <2>5, RetainSound
<1>7. call' = [call EXCEPT ![c] = n]
  <2> PICK m : m = [k EXCEPT !.bundle = bundle]
    OBVIOUS
  <2> PICK mid : mid = [call EXCEPT ![c] = m]
    OBVIOUS
  <2>1. mid[c] = m /\ c \in DOMAIN call
    BY DEF CacheInv
  <2>2. call' = [mid EXCEPT ![c].at = @ + 1]
    BY DEF Retain
  <2>3. call' = [mid EXCEPT ![c] = n]
    BY <2>1, <2>2, <1>1 DEF Calls
  <2> QED
    BY <2>1, <2>3
<1> QED
  BY <1>6, <1>7, CallMoves

\* What a call is that turns to verifying its snapshot.
LEMMA VerifyBegins ==
  ASSUME NEW k \in Calls, NEW one \in BOOLEAN
  PROVE  LET n == [Stands(k, "verify", 1) EXCEPT !.together = one]
         IN  /\ n \in Calls /\ n.phase = "verify" /\ n.at = 1 /\ n.digest = k.digest
             /\ n.bundle = k.bundle /\ n.built = k.built /\ n.together = one
             /\ n.undisturbed = k.undisturbed
<1> DEFINE m == Stands(k, "verify", 1)
           n == [m EXCEPT !.together = one]
<1>1. /\ m \in Calls /\ m.phase = "verify" /\ m.at = 1 /\ m.digest = k.digest
      /\ m.bundle = k.bundle /\ m.built = k.built /\ m.undisturbed = k.undisturbed
  BY StandsIs DEF Phases
<1> HIDE DEF m
<1>2. /\ n \in Calls /\ n.phase = m.phase /\ n.at = m.at /\ n.digest = m.digest
      /\ n.bundle = m.bundle /\ n.built = m.built /\ n.undisturbed = m.undisturbed
      /\ n.together = one
  BY <1>1 DEF Calls
<1> QED
  BY <1>1, <1>2 DEF m

\* The walk has ended: the snapshot is of one moment, or some file of it is stale.
LEMMA BundleStep ==
  ASSUME CacheInv, NEW c \in Callers, BundleService(c)
  PROVE  CacheInv'
<1> PICK k : k = call[c]
  OBVIOUS
<1> PICK one : one = (\A f \in Elements(Snapshot) : k.bundle.service[f] = content[f])
  OBVIOUS
<1> PICK n : n = [Stands(k, "verify", 1) EXCEPT !.together = one]
  OBVIOUS
<1>1. Sound(k) /\ k \in Calls /\ k.phase = "service" /\ ~k.built
      /\ \A i \in DOMAIN Service : i < k.at
  BY BehindAll, BuildReadsDeclared DEF CacheInv, Sound, BundleService, Calls,
     ToPublish
<1>2. one \in BOOLEAN
  OBVIOUS
<1>3. /\ n \in Calls /\ n.phase = "verify" /\ n.at = 1 /\ n.digest = k.digest
      /\ n.bundle = k.bundle /\ ~n.built /\ n.together = one
      /\ n.undisturbed = k.undisturbed
  <2>1. k \in Calls /\ ~k.built
    BY <1>1
  <2> QED
    BY <1>2, <2>1, VerifyBegins, ZenonT(60)
<1>4. k.undisturbed => \A f \in Elements(Snapshot) : k.bundle.service[f] = content[f]
  BY <1>1, SnapshotFiles DEF Sound, ReadSoFar, Elements
<1>5. ReadSoFar(n)
  BY <1>1, <1>3, <1>4 DEF Sound, ReadSoFar, In, AfterService, AfterProvider, AfterComposer,
                          ToPublish
<1>6. ~one => \E i \in DOMAIN Snapshot :
                1 <= i /\ k.bundle.service[Snapshot[i]] < content[Snapshot[i]]
  <2>1. SUFFICES ASSUME NEW f \in Elements(Snapshot), k.bundle.service[f] # content[f]
                 PROVE  \E i \in DOMAIN Snapshot :
                          1 <= i /\ k.bundle.service[Snapshot[i]] < content[Snapshot[i]]
    OBVIOUS
  <2>2. PICK i \in DOMAIN Snapshot : f = Snapshot[i]
    BY DEF Elements
  <2>3. 1 <= i /\ f \in InputFiles
    BY <2>2, SnapshotIs
  <2>4. k.bundle.service[f] <= content[f] /\ k.bundle.service[f] \in Nat /\ content[f] \in Nat
    BY <1>1, <2>3 DEF Sound, OneMoment, Calls, Built, Versioned, CacheInv
  <2> QED
    BY <2>1, <2>2, <2>3, <2>4
<1>7. OneMoment(n) /\ HoldsEntry(n)
  BY <1>1, <1>3, <1>6 DEF Sound, OneMoment, HoldsEntry, In, AfterService, AfterComposer, ToPublish
<1>8. Sound(n)
  BY <1>3, <1>5, <1>7 DEF Sound
<1>9. call' = [call EXCEPT ![c] = n] /\ content' = content /\ cache' = cache
  BY DEF BundleService, CacheInv, Stands
<1> QED
  BY <1>8, <1>9, CallMoves

\* One more retained file is as it was.
LEMMA VerifyStep ==
  ASSUME CacheInv, NEW c \in Callers, VerifyService(c), call[c].at \in DOMAIN Snapshot,
         content[Snapshot[call[c].at]] = call[c].bundle.service[Snapshot[call[c].at]]
  PROVE  CacheInv'
<1> PICK k : k = call[c]
  OBVIOUS
<1> PICK n : n = [k EXCEPT !.at = k.at + 1]
  OBVIOUS
<1>1. Sound(k) /\ k \in Calls /\ k.phase = "verify" /\ ~k.built
  BY DEF CacheInv, Sound, VerifyService, ToPublish, Calls
<1>2. /\ n \in Calls /\ n.phase = "verify" /\ n.at = k.at + 1 /\ n.digest = k.digest
      /\ n.bundle = k.bundle /\ ~n.built /\ n.together = k.together
      /\ n.undisturbed = k.undisturbed
  BY <1>1 DEF Calls
<1>3. ReadSoFar(n)
  BY <1>1, <1>2 DEF Sound, ReadSoFar, In
<1>4. ASSUME ~n.together
      PROVE  \E i \in DOMAIN Snapshot :
               n.at <= i /\ n.bundle.service[Snapshot[i]] < content[Snapshot[i]]
  <2>1. PICK i \in DOMAIN Snapshot :
               k.at <= i /\ k.bundle.service[Snapshot[i]] < content[Snapshot[i]]
    BY <1>1, <1>2, <1>4 DEF Sound, OneMoment
  <2>2. Snapshot[i] \in InputFiles /\ i \in Nat
    BY SnapshotIs
  <2>3. content[Snapshot[i]] \in Nat /\ k.bundle.service[Snapshot[i]] \in Nat
    BY <1>1, <2>2 DEF CacheInv, Calls, Built, Versioned
  <2>4. i # k.at
    BY <2>1, <2>3
  <2> QED
    BY <1>1, <1>2, <2>1, <2>2, <2>4 DEF Calls
<1>5. OneMoment(n) /\ HoldsEntry(n)
  BY <1>1, <1>2, <1>4 DEF Sound, OneMoment, HoldsEntry, In, AfterService, AfterComposer, ToPublish
<1>6. Sound(n)
  BY <1>2, <1>3, <1>5 DEF Sound
<1>7. call' = [call EXCEPT ![c] = n] /\ content' = content /\ cache' = cache
  BY DEF VerifyService, CacheInv
<1> QED
  BY <1>6, <1>7, CallMoves

\* A call that read one source of the composer more.
AfterSource(k, n) ==
    /\ k.phase = "composer" /\ k.at \in DOMAIN Composer
    /\ n \in Calls /\ n.phase = k.phase /\ n.at = k.at + 1 /\ n.digest = k.digest
    /\ n.bundle.provider = k.bundle.provider /\ n.bundle.service = k.bundle.service
    /\ \A g \in InputFiles :
         n.bundle.composer[g] =
           IF g = Composer[k.at] THEN content[Composer[k.at]] ELSE k.bundle.composer[g]
    /\ n.built = k.built /\ n.together = k.together /\ n.undisturbed = k.undisturbed

\* Such a call stays sound, as one that retained a file.
LEMMA ComposerSound ==
  ASSUME content \in Versioned, NEW k, Sound(k), NEW n, AfterSource(k, n)
  PROVE  Sound(n)
<1> USE DEF AfterSource
<1>1. ~k.built /\ k \in Calls /\ Composer \in Seq(InputFiles)
  BY BuildReadsDeclared DEF Sound, ToPublish, Calls
<1>2. ASSUME k.undisturbed, NEW i \in DOMAIN Composer, i < n.at
      PROVE  n.bundle.composer[Composer[i]] = content[Composer[i]]
  BY <1>1, <1>2 DEF Calls, Sound, ReadSoFar
<1>3. ReadSoFar(n)
  BY <1>1, <1>2 DEF Sound, ReadSoFar, In, AfterComposer, ToPublish
<1>4. OneMoment(n) /\ HoldsEntry(n)
  BY DEF Sound, OneMoment, HoldsEntry, In
<1> QED
  BY <1>1, <1>3, <1>4 DEF Sound

\* A source of the composer is read.
LEMMA ComposerStep ==
  ASSUME CacheInv, NEW c \in Callers, LoadComposer(c)
  PROVE  CacheInv'
<1> PICK k : k = call[c]
  OBVIOUS
<1> PICK f : f = Composer[k.at]
  OBVIOUS
<1> PICK part : part = [k.bundle.composer EXCEPT ![f] = content[f]]
  OBVIOUS
<1> PICK bundle : bundle = [k.bundle EXCEPT !.composer = part]
  OBVIOUS
<1> PICK n : n = [k EXCEPT !.bundle = bundle, !.at = k.at + 1]
  OBVIOUS
<1>1. Sound(k) /\ k \in Calls /\ k.phase = "composer" /\ k.at \in DOMAIN Composer
  BY DEF CacheInv, Sound, LoadComposer
<1>2. f \in InputFiles /\ content[f] \in Nat
  BY <1>1, BuildReadsDeclared DEF CacheInv, Versioned
<1>3. /\ part \in Versioned
      /\ \A g \in InputFiles : part[g] = IF g = f THEN content[f] ELSE k.bundle.composer[g]
  BY <1>1, <1>2, ReadOne DEF Calls, Built
<1>4. /\ bundle \in Built /\ bundle.provider = k.bundle.provider /\ bundle.composer = part
      /\ bundle.service = k.bundle.service /\ k.at + 1 \in Nat \ {0}
  BY <1>1, <1>3 DEF Calls, Built
<1>5. /\ n \in Calls /\ n.phase = k.phase /\ n.at = k.at + 1 /\ n.digest = k.digest
      /\ n.bundle = bundle /\ n.built = k.built /\ n.together = k.together
      /\ n.undisturbed = k.undisturbed
  BY <1>1, <1>4 DEF Calls
<1>6. Sound(n)
  <2>1. n.bundle.composer = part /\ f = Composer[k.at]
    BY <1>4, <1>5
  <2>2. \A g \in InputFiles :
          n.bundle.composer[g] =
            IF g = Composer[k.at] THEN content[Composer[k.at]] ELSE k.bundle.composer[g]
    BY <1>3, <2>1, Zenon
  <2>3. n.bundle.provider = k.bundle.provider /\ n.bundle.service = k.bundle.service
    BY <1>4, <1>5
  <2>4. AfterSource(k, n)
    BY <1>1, <1>5, <2>2, <2>3 DEF AfterSource
  <2>5. content \in Versioned
    BY DEF CacheInv
  <2> QED
    BY <1>1, <2>4, <2>5, ComposerSound
<1>7. call' = [call EXCEPT ![c] = n] /\ content' = content /\ cache' = cache
  <2> PICK m : m = [k EXCEPT !.bundle = bundle]
    OBVIOUS
  <2> PICK mid : mid = [call EXCEPT ![c] = m]
    OBVIOUS
  <2>1. mid[c] = m /\ c \in DOMAIN call
    BY DEF CacheInv
  <2>2. call' = [mid EXCEPT ![c].at = k.at + 1]
    BY DEF LoadComposer
  <2>3. call' = [mid EXCEPT ![c] = n]
    BY <2>1, <2>2, <1>1 DEF Calls
  <2> QED
    BY <2>1, <2>3 DEF LoadComposer
<1> QED
  BY <1>6, <1>7, CallMoves

\* The bundle is packed, published, left for another's, and confirmed.
LEMMA SealStep ==
  ASSUME CacheInv, NEW c \in Callers, SealBundle(c), ~Goes(c, "rejected")
  PROVE  CacheInv'
<1> PICK k : k = call[c]
  OBVIOUS
<1> PICK n : n = [Stands(k, "write", 1) EXCEPT !.built = TRUE]
  OBVIOUS
<1>1. Sound(k) /\ k \in Calls /\ k.phase = "composerBuilt" /\ ~k.built
  BY DEF CacheInv, Sound, SealBundle, ToPublish, Calls
<1>2. /\ n \in Calls /\ n.phase = "write" /\ n.digest = k.digest
      /\ n.bundle = k.bundle /\ n.together = k.together
      /\ n.undisturbed = k.undisturbed
  <2>1. "write" \in Phases /\ 1 \in Nat \ {0}
    BY DEF Phases
  <2> PICK m : m = Stands(k, "write", 1)
    OBVIOUS
  <2>2. /\ m \in Calls /\ m.phase = "write" /\ m.at = 1 /\ m.digest = k.digest
        /\ m.bundle = k.bundle /\ m.built = k.built /\ m.undisturbed = k.undisturbed
        /\ m.together = k.together
    BY <1>1, <2>1, StandsIs
  <2> QED
    BY <2>2 DEF Calls
<1>3. ReadSoFar(n) /\ OneMoment(n) /\ HoldsEntry(n)
  BY <1>1, <1>2 DEF Sound, ReadSoFar, OneMoment, HoldsEntry, In, AfterProvider, AfterSnapshot,
                    AfterService, AfterComposer, ToPublish
<1>4. Sound(n)
  BY <1>2, <1>3 DEF Sound, ToPublish
<1>5. call' = [call EXCEPT ![c] = n] /\ content' = content /\ cache' = cache
  BY DEF SealBundle, CacheInv, Stands
<1> QED
  BY <1>4, <1>5, CallMoves

\* An entry is there, by this caller or another, and stays as it is.
LEMMA LinkStep ==
  ASSUME CacheInv, NEW c \in Callers, LinkEntry(c)
  PROVE  CacheInv'
<1> PICK k : k = call[c]
  OBVIOUS
<1> PICK n : n = Stands(k, "unlink", 1)
  OBVIOUS
<1>1. Sound(k) /\ k \in Calls /\ k.phase = "link"
  BY DEF CacheInv, Sound, LinkEntry
<1>2. /\ n \in Calls /\ n.phase = "unlink" /\ n.digest = k.digest
      /\ n.bundle = k.bundle /\ n.built = k.built /\ n.together = k.together
      /\ n.undisturbed = k.undisturbed
  <2>1. "unlink" \in Phases /\ 1 \in Nat \ {0}
    BY DEF Phases
  <2> QED
    BY <1>1, <2>1, StandsIs
<1>3. ReadSoFar(n) /\ OneMoment(n)
  BY <1>1, <1>2 DEF Sound, ReadSoFar, OneMoment, In, AfterProvider, AfterSnapshot,
                    AfterService, AfterComposer, ToPublish
<1>4. /\ DOMAIN cache \subseteq DOMAIN cache' /\ k.digest \in DOMAIN cache'
      /\ \A d \in DOMAIN cache : cache'[d] = cache[d]
      /\ \A d \in DOMAIN cache' :
           cache'[d] \in [whole : BOOLEAN, lasting : BOOLEAN, bundle : Built]
  <2>1. CASE k.digest \in DOMAIN cache
    BY <2>1 DEF LinkEntry, CacheInv
  <2>2. CASE k.digest \notin DOMAIN cache
    <3>1. [whole |-> TRUE, lasting |-> FALSE, bundle |-> k.bundle]
            \in [whole : BOOLEAN, lasting : BOOLEAN, bundle : Built]
      BY <1>1 DEF Calls
    <3>2. cache' = Published(k.digest, k.bundle)
      BY <2>2 DEF LinkEntry
    <3> QED
      BY <2>2, <3>1, <3>2 DEF Published, CacheInv
  <2> QED
    BY <2>1, <2>2
<1>5. content' = content /\ call' = [d \in Callers |-> IF d = c THEN n ELSE call[d]]
  BY DEF LinkEntry, Goes, Stands, CacheInv
<1>6. ASSUME NEW j, Sound(j) PROVE Sound(j)'
  BY <1>4, <1>5, <1>6 DEF Sound, ReadSoFar, OneMoment, HoldsEntry
<1>7. Sound(n)'
  BY <1>3, <1>5, <1>2, <1>4 DEF ReadSoFar, OneMoment, HoldsEntry, ToPublish,
     Sound
<1>8. \A j : Sound(j) \/ j = n => Sound(j)'
  BY <1>6, <1>7
<1>9. \A d \in Callers : Sound(call'[d]) \/ call'[d] = n
  BY <1>5 DEF CacheInv
<1>10. \A d \in Callers : Sound(call[d])'
  BY <1>8, <1>9
<1> QED
  BY <1>4, <1>5, <1>10 DEF CacheInv

\* Whoever confirms what it built holds what the cache holds.
LEMMA ConfirmStep ==
  ASSUME CacheInv, NEW c \in Callers, Confirm(c), ~Goes(c, "rejected")
  PROVE  CacheInv'
<1> PICK k : k = call[c]
  OBVIOUS
<1> PICK n : n = Stands(k, "returned", 1)
  OBVIOUS
<1>1. /\ Sound(k) /\ k \in Calls /\ k.phase = "confirm"
      /\ cache[k.digest].bundle = k.bundle
  BY DEF CacheInv, Sound, Confirm
<1>2. /\ n \in Calls /\ n.phase = "returned" /\ n.digest = k.digest
      /\ n.bundle = k.bundle /\ n.built = k.built /\ n.together = k.together
      /\ n.undisturbed = k.undisturbed
  <2>1. "returned" \in Phases /\ 1 \in Nat \ {0}
    BY DEF Phases
  <2> QED
    BY <1>1, <2>1, StandsIs
<1>3. /\ "confirm" \in AfterComposer /\ "confirm" \in AfterService
      /\ "confirm" \in AfterSnapshot /\ "confirm" \in AfterProvider
  BY DEF AfterProvider, AfterSnapshot, AfterService, AfterComposer, ToPublish
<1>4. ReadSoFar(n) /\ OneMoment(n)
  BY <1>1, <1>2, <1>3 DEF Sound, ReadSoFar, OneMoment, In
<1>5. HoldsEntry(n)
  BY <1>1, <1>2 DEF Sound, HoldsEntry
<1>6. Sound(n)
  BY <1>1, <1>2, <1>4, <1>5 DEF Sound
<1>7. call' = [call EXCEPT ![c] = n] /\ content' = content /\ cache' = cache
  BY DEF Confirm, Goes, CacheInv, Stands
<1> QED
  BY <1>6, <1>7, CallMoves

\* Every step of a caller.
LEMMA CallerSteps ==
  ASSUME CacheInv, NEW c \in Callers, CallStep(c) \/ CallerDies(c)
  PROVE  CacheInv'
<1>1. "rejected" \in {"rejected", "gone"} /\ "gone" \in {"rejected", "gone"}
  OBVIOUS
<1>2. ASSUME Goes(c, "rejected"), content' = content, cache' = cache
      PROVE  CacheInv'
  BY <1>1, <1>2, CallerLeaves
<1>3. CASE Ask(c)
  BY <1>3, AskStep
<1>4. CASE HashInput(c)
  BY <1>4, HashStep
<1>5. CASE Identified(c)
  BY <1>5, Moves DEF Phases, Identified
<1>6. CASE LookUp(c)
  <2>1. "provider" \in Phases
    BY DEF Phases
  <2>2. CASE call[c].digest \notin DOMAIN cache
    BY <1>6, <2>1, <2>2, Moves DEF LookUp
  <2>3. CASE call[c].digest \in DOMAIN cache /\ Valid(cache[call[c].digest])
    BY <1>6, <2>3, FoundStep
  <2>4. CASE call[c].digest \in DOMAIN cache /\ ~Valid(cache[call[c].digest])
    BY <1>2, <1>6, <2>4 DEF LookUp
  <2> QED
    BY <2>2, <2>3, <2>4
<1>7. CASE BuildProvider(c)
  BY <1>2, <1>7, ProviderStep DEF BuildProvider
<1>8. CASE LoadTools(c)
  <2>1. "service" \in Phases
    BY DEF Phases
  <2>2. CASE Goes(c, "rejected")
    BY <1>2, <1>8, <2>2 DEF LoadTools
  <2>3. CASE ~Goes(c, "rejected") /\ call[c].at \notin DOMAIN Authority
    BY <1>8, <2>1, <2>3, Moves DEF LoadTools
  <2>4. CASE ~Goes(c, "rejected") /\ call[c].at \in DOMAIN Authority
    BY <1>8, <2>4, RetainStep DEF LoadTools
  <2> QED
    BY <2>2, <2>3, <2>4
<1>9. CASE WalkService(c)
  <2>1. CASE Goes(c, "rejected")
    BY <1>2, <1>9, <2>1 DEF WalkService
  <2>2. CASE ~Goes(c, "rejected")
    BY <1>9, <2>2, RetainStep DEF WalkService
  <2> QED
    BY <2>1, <2>2
<1>10. CASE BundleService(c)
  BY <1>10, BundleStep
<1>11. CASE VerifyService(c)
  <2>1. "serviceBuilt" \in Phases
    BY DEF Phases
  <2>2. CASE call[c].at \notin DOMAIN Snapshot
    BY <1>11, <2>1, <2>2, Moves DEF VerifyService
  <2>3. CASE /\ call[c].at \in DOMAIN Snapshot
             /\ content[Snapshot[call[c].at]] = call[c].bundle.service[Snapshot[call[c].at]]
    BY <1>11, <2>3, VerifyStep
  <2>4. CASE /\ call[c].at \in DOMAIN Snapshot
             /\ content[Snapshot[call[c].at]] # call[c].bundle.service[Snapshot[call[c].at]]
    BY <1>2, <1>11, <2>4 DEF VerifyService
  <2> QED
    BY <2>2, <2>3, <2>4
<1>12. CASE SealService(c)
  BY <1>2, <1>12, Moves DEF Phases, SealService
<1>13. CASE LoadComposer(c)
  BY <1>13, ComposerStep
<1>14. CASE SealComposer(c)
  BY <1>2, <1>14, Moves DEF Phases, SealComposer
<1>15. CASE SealBundle(c)
  BY <1>2, <1>15, SealStep DEF SealBundle
<1>16. CASE WritePending(c)
  BY <1>16, Moves DEF Phases, WritePending
<1>17. CASE LinkEntry(c)
  BY <1>17, LinkStep
<1>18. CASE UnlinkPending(c)
  BY <1>18, Moves DEF Phases, UnlinkPending
<1>19. CASE Confirm(c)
  BY <1>2, <1>19, ConfirmStep DEF Confirm
<1>20. CASE FileFails(c)
  BY <1>2, <1>20 DEF FileFails
<1>21. CASE CallerDies(c)
  BY <1>1, <1>21, CallerLeaves DEF CallerDies
<1> QED
  BY <1>3, <1>4, <1>5, <1>6, <1>7, <1>8, <1>9, <1>10, <1>11, <1>12, <1>13, <1>14, <1>15,
     <1>16, <1>17, <1>18, <1>19, <1>20, <1>21 DEF CallStep

\* An edit disturbs every call, and takes no file back to what it was.
LEMMA EditStep ==
  ASSUME CacheInv, NEW f \in InputFiles, EditInput(f)
  PROVE  CacheInv'
<1>1. /\ content' \in Versioned
      /\ \A g \in InputFiles : content[g] <= content'[g]
  BY DEF CacheInv, Versioned, EditInput
<1>2. ASSUME NEW k, Sound(k), NEW n, n = [k EXCEPT !.undisturbed = FALSE]
      PROVE  Sound(n)'
  <2>1. /\ n \in Calls /\ n.phase = k.phase /\ n.at = k.at /\ n.digest = k.digest
        /\ n.bundle = k.bundle /\ n.built = k.built /\ n.together = k.together
        /\ n.undisturbed = FALSE
    BY <1>2 DEF Sound, Calls
  <2>2. ReadSoFar(n)'
    BY <2>1 DEF ReadSoFar
  <2>3. \A g \in InputFiles :
          /\ k.bundle.service[g] \in Nat /\ content[g] \in Nat /\ content'[g] \in Nat
          /\ content[g] <= content'[g]
    BY <1>1, <1>2 DEF Sound, Calls, Built, Versioned, CacheInv
  <2>4. \A i \in DOMAIN Snapshot : Snapshot[i] \in InputFiles
    BY SnapshotIs
  <2>5. OneMoment(n)'
    BY <1>2, <2>3, <2>4, <2>1 DEF Sound, OneMoment, In
  <2>6. HoldsEntry(n)'
    BY <1>2, <2>1 DEF Sound, HoldsEntry, EditInput
  <2> QED
    BY <1>2, <2>1, <2>2, <2>5, <2>6 DEF Sound
<1>3. \A c \in Callers : Sound(call[c])'
  <2> TAKE c \in Callers
  <2>1. call'[c] = [call[c] EXCEPT !.undisturbed = FALSE]
    BY DEF EditInput
  <2>2. Sound(call[c])
    BY DEF CacheInv
  <2>3. \A k, n : Sound(k) /\ n = [k EXCEPT !.undisturbed = FALSE] => Sound(n)'
    BY <1>2
  <2> QED
    BY <2>1, <2>2, <2>3
<1> QED
  BY <1>1, <1>3 DEF CacheInv, EditInput

\* A call that has not begun, or lost its process, has nothing to keep.
LEMMA IdleSound ==
  ASSUME NEW n, n = Asking \/ n = [Asking EXCEPT !.phase = "gone"], content \in Versioned
  PROVE  Sound(n)
<1>1. Nowhere \in Versioned /\ NoBundle \in Built
  BY DEF Nowhere, Versioned, Unread, NoBundle, Built
<1>2. /\ n \in Calls /\ n.phase \in {"idle", "gone"} /\ n.at = 1 /\ n.bundle = NoBundle
      /\ ~n.built
  <2>1. {"idle", "gone"} \subseteq Phases /\ 1 \in Nat \ {0}
    BY DEF Phases
  <2>2. /\ Asking \in Calls /\ Asking.phase = "idle" /\ Asking.at = 1
        /\ Asking.bundle = NoBundle /\ ~Asking.built
    BY <1>1, <2>1 DEF Asking, Calls
  <2>3. CASE n = Asking
    BY <2>2, <2>3
  <2>4. CASE n = [Asking EXCEPT !.phase = "gone"]
    BY <2>1, <2>2, <2>4 DEF Calls
  <2> QED
    BY <2>3, <2>4
<1>3. ReadSoFar(n) /\ OneMoment(n) /\ HoldsEntry(n)
  BY <1>2 DEF ReadSoFar, OneMoment, HoldsEntry, In, AfterProvider, AfterSnapshot,
              AfterService, AfterComposer, ToPublish
<1> QED
  BY <1>2, <1>3 DEF Sound

\* When the power goes every process goes, and what is left of the cache is as it was.
LEMMA PowerStep ==
  ASSUME CacheInv, PowerLoss
  PROVE  CacheInv'
<1>1. content' = content /\ content \in Versioned
  BY DEF PowerLoss, CacheInv
<1>2. \A d \in DOMAIN cache' :
        cache'[d] \in [whole : BOOLEAN, lasting : BOOLEAN, bundle : Built]
  <2>1. PICK kept \in SUBSET DOMAIN cache : \E whole \in SUBSET kept :
           cache' = [d \in kept |->
                      [cache[d] EXCEPT !.lasting = TRUE, !.whole = @ /\ d \in whole]]
    BY DEF PowerLoss
  <2>2. PICK whole \in SUBSET kept :
           cache' = [d \in kept |->
                      [cache[d] EXCEPT !.lasting = TRUE, !.whole = @ /\ d \in whole]]
    BY <2>1
  <2>3. ASSUME NEW e \in [whole : BOOLEAN, lasting : BOOLEAN, bundle : Built],
               NEW still \in BOOLEAN
        PROVE  [e EXCEPT !.lasting = TRUE, !.whole = @ /\ still]
                 \in [whole : BOOLEAN, lasting : BOOLEAN, bundle : Built]
    OBVIOUS
  <2> QED
    BY <2>2, <2>3 DEF CacheInv
<1>3. ASSUME NEW c \in Callers
      PROVE  call'[c] \in {[Asking EXCEPT !.phase = "gone"], call[c]}
             /\ (call'[c] = call[c] => call[c].phase = "idle" \/ call[c].phase = "gone")
  BY DEF PowerLoss, Asking
<1>4. \A k : Sound(k) /\ k.phase \in {"idle", "gone"} => Sound(k)'
  BY <1>1 DEF Sound, ReadSoFar, OneMoment, HoldsEntry
<1>5. \A c \in Callers : Sound(call[c])'
  <2> TAKE c \in Callers
  <2>1. Sound(call'[c]) /\ call'[c].phase \in {"idle", "gone"}
    <3>1. CASE call[c].phase = "idle"
      BY <3>1 DEF PowerLoss, CacheInv
    <3>2. CASE call[c].phase # "idle"
      BY <3>2, <1>1, IdleSound DEF PowerLoss, Asking
    <3> QED
      BY <3>1, <3>2
  <2> QED
    BY <1>4, <2>1
<1> QED
  BY <1>1, <1>2, <1>5 DEF CacheInv, PowerLoss

\* The invariant holds throughout.
THEOREM CacheInvAlways == CacheSpec => []CacheInv
<1>1. CacheInit => CacheInv
  <2> SUFFICES ASSUME CacheInit PROVE CacheInv
    OBVIOUS
  <2>1. content \in Versioned
    BY DEF CacheInit, Versioned
  <2>4. Sound(Asking)
    BY <2>1, IdleSound
  <2>5. DOMAIN cache = {} /\ call = [c \in Callers |-> Asking]
    BY DEF CacheInit
  <2>6. \A c \in Callers : call[c] = Asking
    BY <2>5
  <2>7. \A c \in Callers : Sound(call[c])
    BY <2>4, <2>6, Zenon
  <2>8. call = [c \in Callers |-> call[c]]
    BY <2>5
  <2>9. \A d \in DOMAIN cache : FALSE
    BY <2>5
  <2> HIDE DEF CacheInit
  <2> QED
    BY <2>1, <2>7, <2>8, <2>9, Zenon DEF CacheInv
<1>2. CacheInv /\ [CacheNext]_cacheVars => CacheInv'
  <2> SUFFICES ASSUME CacheInv, [CacheNext]_cacheVars PROVE CacheInv'
    OBVIOUS
  <2>1. CASE UNCHANGED cacheVars
    BY <2>1 DEF cacheVars, CacheInv, Sound, ReadSoFar, OneMoment, HoldsEntry
  <2> QED
    BY <2>1, CallerSteps, EditStep, PowerStep DEF CacheNext
<1> QED
  BY <1>1, <1>2, PTL DEF CacheSpec

\* Two processes that hold a bundle for the same inputs hold the same bundle, and who
\* built one built it of files that lay there together: those that were hashed, if
\* nobody edited them (preparedBundleCache.ts).
THEOREM BundlesExactAlways == CacheSpec => []BundlesExact
<1>1. CacheInv => BundlesExact
  <2> SUFFICES ASSUME CacheInv PROVE BundlesExact
    OBVIOUS
  <2>1. CacheAgrees
    BY DEF CacheInv, Sound, HoldsEntry, CacheAgrees
  <2>2. BuiltAsHashed
    <3> SUFFICES ASSUME NEW c \in Callers, call[c].phase = "returned", call[c].built
                 PROVE  /\ call[c].together
                        /\ call[c].undisturbed =>
                             /\ \A f \in Provider : call[c].bundle.provider[f] = call[c].digest[f]
                             /\ \A f \in Elements(Snapshot) :
                                  call[c].bundle.service[f] = call[c].digest[f]
                             /\ \A f \in Elements(Composer) :
                                  call[c].bundle.composer[f] = call[c].digest[f]
      BY DEF BuiltAsHashed
    <3>1. Sound(call[c])
      BY DEF CacheInv
    <3>2. ReadSoFar(call[c]) /\ OneMoment(call[c])
      BY <3>1 DEF Sound
    <3> QED
      BY <3>2 DEF ReadSoFar, OneMoment, In
  <2> QED
    BY <2>1, <2>2 DEF BundlesExact
<1> QED
  BY <1>1, CacheInvAlways, PTL

-----------------------------------------------------------------------------
(* Loading an authored dynamics provider: what the reading of its sources   *)
(* finds, the pairs in the roots, and the script of a load.                 *)

LoadFields ==
    {"phase", "queue", "seen", "bound", "expected", "code", "typed", "step", "retained",
     "authority", "receipt", "clean", "outcome", "together", "current"}

Early == {"idle", "verify"} \union Walks
Scripted ==
    {"issue", "assert", "scratch", "scratchCheck", "evidence", "evidenceCheck", "import",
     "create"}
LoadPhases == Early \union Scripted \union {"cleanup", "done", "crashed"}

\* The bytes a load retained of a file can never be read there again.
Stale(l, f) ==
    \/ disk[f].version > load[l].retained[f]
    \/ disk[f].version = load[l].retained[f] /\ ~disk[f].there

DiskInv ==
    /\ edits \in 0..MaxEdits
    /\ disk \in [Files -> [version : Nat, there : BOOLEAN]]
    /\ \A f \in Files : /\ disk[f].there => disk[f].version > 0
                        /\ disk[f].version <= InitialDisk[f].version + edits

LoadShape == load = [l \in Loads |-> [x \in LoadFields |-> load[l][x]]]

\* What a load has read, and how far the walk under way is with it.
ReadSets(l) ==
    /\ load[l].phase \in LoadPhases
    /\ load[l].retained \in [Files -> Nat]
    /\ load[l].seen \subseteq Sources /\ load[l].bound \subseteq Sources
    /\ load[l].expected \subseteq Sources /\ load[l].typed \subseteq Sources
    /\ DOMAIN load[l].code \subseteq Sources
    /\ load[l].step \in Nat
    /\ load[l].phase \in Walks \union {"verify"} => load[l].queue \in Seq(Files)

ReadBytes(l) ==
    /\ \A f \in Files : load[l].retained[f] <= disk[f].version
    /\ \A f \in DOMAIN load[l].code :
          load[l].code[f] = load[l].retained[f] /\ load[l].retained[f] # 0

ReadBound(l) ==
    /\ load[l].phase \in {"idle", "preflight", "graph"} => DOMAIN load[l].code = {}
    /\ load[l].phase = "preflight" => load[l].queue = << Entry >> \/ Entry \in load[l].seen
    /\ load[l].phase = "graph" =>
         /\ Entry \in load[l].bound /\ load[l].seen \subseteq load[l].bound
         /\ load[l].queue \in Seq(load[l].bound \union (Files \ Sources))
    /\ load[l].phase = "bundle" =>
         /\ load[l].expected \subseteq load[l].bound
         /\ DOMAIN load[l].code \subseteq load[l].seen
    /\ load[l].phase = "surface" => DOMAIN load[l].code \subseteq load[l].bound

Lost(l, f) == load[l].retained[f] # 0 /\ Stale(l, f)

\* All that was read lay on the disk together, or what did not is still to be read again.
FindsOut(l) ==
    load[l].together \/ \E i \in 1..Len(load[l].queue) : Lost(l, load[l].queue[i])

ReadTogether(l) ==
    /\ load[l].phase = "verify" => FindsOut(l)
    /\ load[l].step > 0 => load[l].together
    /\ load[l].phase \in Early => load[l].step = 0

ReadInv(l) == ReadSets(l) /\ ReadBytes(l) /\ ReadBound(l) /\ ReadTogether(l)

SourcesInv == DiskInv /\ LoadShape /\ \A l \in Loads : ReadInv(l)

-----------------------------------------------------------------------------
\* The step of the script at which the provider is imported.
ImportStep(l) == IF Evidence[l] = Nothing THEN 6 ELSE 9

Mine(l) == {Scratch[l]} \union (IF Evidence[l] = Nothing THEN {} ELSE {Evidence[l]})

Publishes(l, r) ==
    load[l].phase \in {"scratch", "evidence"} /\ r = RootOf(l, load[l].phase)

\* The place of the receipt of a root is this load's.
Holds(l, r) ==
    \/ "receipt" \in own[l][r]
    \/ Publishes(l, r) /\ stage[l].of = "receipt" /\ stage[l].do \in {"rename", "seal"}

StageSet ==
    [do : {"off", "absent", "directory", "failed", "published", "write", "reserve", "rename",
           "seal"},
     of : {"pair", "artifact", "receipt"}]

RootFields == {"dynamics", "dirs", "sealed", "open", "temps", "receipt"}

PairShape ==
    /\ roots = [r \in Roots |-> [x \in RootFields |-> roots[r][x]]]
    /\ \A r \in Roots : /\ roots[r].dynamics \in BOOLEAN
                        /\ roots[r].receipt = [state |-> roots[r].receipt.state,
                                               body |-> roots[r].receipt.body]
    /\ stage \in [Loads -> StageSet]
    /\ own \in [Loads -> [Roots -> SUBSET {"dynamics", "directory", "artifact", "receipt"}]]

\* What a load says it made in a root is there, and it makes things in its own roots.
OwnIs(l, r) ==
    /\ own[l][r] # {} => r \in Mine(l) /\ load[l].step >= 3
    /\ "receipt" \in own[l][r] => "artifact" \in own[l][r]
    /\ "artifact" \in own[l][r] => "directory" \in own[l][r]
    /\ "directory" \in own[l][r] => Artifact(l) \in roots[r].dirs
    /\ "artifact" \in own[l][r] => Artifact(l) \in roots[r].sealed
    /\ "receipt" \in own[l][r] =>
         roots[r].receipt = [state |-> "sealed", body |-> load[l].receipt]

\* How far the pair under way is.
StageIs(l) ==
    /\ ~Publishing(l, "pair", "off") => load[l].phase \in {"scratch", "evidence"}
    /\ load[l].phase \in {"scratch", "evidence"} =>
         LET r == RootOf(l, load[l].phase) IN
         /\ stage[l].of \in {"artifact", "receipt"} => "directory" \in own[l][r]
         /\ stage[l].of = "receipt" => "artifact" \in own[l][r]
         /\ Publishing(l, "pair", "published") => "receipt" \in own[l][r]
         /\ Publishing(l, "receipt", "rename") => roots[r].receipt.state = "reserved"
         /\ Publishing(l, "receipt", "seal") =>
              roots[r].receipt = [state |-> "written", body |-> load[l].receipt]

RootIs(r) ==
    /\ roots[r].dirs # {} => roots[r].dynamics
    /\ roots[r].receipt.state = "sealed" =>
         LET a == roots[r].receipt.body.artifact IN
         /\ a \in roots[r].dirs /\ a \in roots[r].sealed
         /\ \A l \in Loads : "directory" \in own[l][r] /\ Artifact(l) = a => "receipt" \in own[l][r]

Apart(l, m, r) ==
    /\ "directory" \in own[l][r] /\ "directory" \in own[m][r] => Artifact(l) # Artifact(m)
    /\ ~(Holds(l, r) /\ Holds(m, r))

PairInv ==
    /\ PairShape
    /\ \A l \in Loads : StageIs(l)
    /\ \A l \in Loads, r \in Roots : OwnIs(l, r)
    /\ \A r \in Roots : RootIs(r)
    /\ \A l, m \in Loads : l # m => \A r \in Roots : Apart(l, m, r)

\* A list of things to look at.
InOrder(q) == Len(q) \in Nat /\ q = [i \in 1..Len(q) |-> q[i]]

\* Where a load is in its script, and what it has got by then.
ScriptIs(l) ==
    /\ load[l].phase \in Scripted =>
         /\ load[l].step \in 1..ImportStep(l) + 3
         /\ load[l].phase = Script(l)[load[l].step]
    /\ load[l].phase \in Examining => InOrder(load[l].queue)
    /\ load[l].step >= 2 => load[l].receipt.artifact = Artifact(l)
    /\ load[l].outcome # "failed" /\ load[l].step >= 8 /\ Evidence[l] # Nothing =>
         "receipt" \in own[l][Evidence[l]]
    /\ load[l].phase \in Scripted \union Early => load[l].outcome = "none"
    /\ load[l].outcome = "loaded" =>
         load[l].phase \in {"cleanup", "done"} /\ load[l].step = ImportStep(l) + 3
    /\ load[l].phase = "cleanup" =>
         /\ \/ load[l].clean = << >> /\ own[l][Scratch[l]] = {}
            \/ load[l].clean = << Scratch[l] >>
            \/ load[l].clean = << Evidence[l], Scratch[l] >> /\ load[l].outcome = "failed"
               /\ Evidence[l] # Nothing

Covers(item, f) ==
    \/ item.do = "project" /\ item.of = f
    \/ item.do = "package" /\ item.of = f /\ Owner[f] \in Places \ {Surface}
    \/ item.do = "surface" /\ Owner[f] = Surface

Single(f) == ~ /\ Owner[f] \in Places \ {Surface}
               /\ \E p \in Places \ {Owner[f]} : Name[p] = Name[Owner[f]]

\* The check after the import finds out whether the sources were in use.
CurrentIs(l) ==
    /\ load[l].phase = "scratchCheck" /\ load[l].step = ImportStep(l) + 1 =>
         \/ load[l].current
         \/ \E f \in Inputs(l) : /\ Stale(l, f) /\ Single(f)
                                 /\ \E i \in 1..Len(load[l].queue) : Covers(load[l].queue[i], f)
    /\ load[l].step > ImportStep(l) + 1 => load[l].current

LoadsInv ==
    /\ PairInv
    /\ \A l \in Loads : ScriptIs(l) /\ CurrentIs(l)

-----------------------------------------------------------------------------
(* Sets written as sequences, and the first of the candidates that are there. *)

\* A finite set as a sequence: of its members, and every member is in it.
LEMMA SetListed ==
    ASSUME NEW S, IsFiniteSet(S)
    PROVE  /\ SetToSeq(S) \in Seq(S)
           /\ Len(SetToSeq(S)) = Cardinality(S) /\ Cardinality(S) \in Nat
           /\ DOMAIN SetToSeq(S) = 1..Cardinality(S)
           /\ \A x \in S : \E i \in 1..Cardinality(S) : SetToSeq(S)[i] = x
<1> DEFINE n == Cardinality(S)
<1>1. n \in Nat /\ ExistsBijection(1..n, S)
  BY FS_CardinalityType
<1>2. \E f \in [1..n -> S] : IsInjective(f)
  BY <1>1, Zenon DEF ExistsBijection, Bijection, Injection
<1>3. SetToSeq(S) \in [1..n -> S] /\ IsInjective(SetToSeq(S))
  BY <1>2, Zenon DEF SetToSeq
<1>4. SetToSeq(S) \in Injection(1..n, S)
  BY <1>3 DEF Injection
<1>5. IsFiniteSet(1..n) /\ Cardinality(1..n) = n
  BY <1>1, FS_Interval
<1>6. SetToSeq(S) \in Surjection(1..n, S)
  BY <1>4, <1>5, FS_Injection
<1>7. \A x \in S : \E i \in 1..n : SetToSeq(S)[i] = x
  BY <1>6, Zenon DEF Surjection
<1>8. SetToSeq(S) \in Seq(S) /\ Len(SetToSeq(S)) = n
  BY <1>1, <1>3
<1> QED
  BY <1>1, <1>3, <1>7, <1>8

\* Numbers have a smallest.
LEMMA LeastExists ==
    ASSUME NEW T, T \subseteq Nat, T # {}
    PROVE  \E x \in T : \A y \in T : x <= y
<1> DEFINE R == {p \in Nat \X Nat : p[1] < p[2]}
<1>1. IsWellFoundedOn(R, Nat)
  BY NatLessThanWellFounded DEF OpToRel
<1>2. \E x \in T : \A y \in T : ~ (<< y, x >> \in R)
  <2> HIDE DEF R
  <2> QED BY <1>1, WFMin
<1>3. \A x, y \in Nat : y < x => << y, x >> \in R
  OBVIOUS
<1>4. \A x, y \in Nat : y < x \/ x <= y
  OBVIOUS
<1> HIDE DEF R
<1> QED BY <1>2, <1>3, <1>4

\* The first of some places of a sequence is a member of it.
LEMMA FirstIs ==
    ASSUME NEW T, NEW s \in Seq(T), NEW in, in \subseteq DOMAIN s, in # {}
    PROVE  First(s, in) \in T
<1>1. in \subseteq Nat
  OBVIOUS
<1>2. \E i \in in : \A j \in in : i <= j
  BY <1>1, LeastExists
<1>3. (CHOOSE i \in in : \A j \in in : i <= j) \in in
  BY <1>2
<1> QED
  BY <1>3 DEF First

-----------------------------------------------------------------------------
(* What a step makes of a load. *)

\* The fields a step names change, the others and the other loads do not.
LEMMA SetIs ==
    ASSUME LoadShape, NEW l \in Loads, NEW fields, Set(l, fields)
    PROVE  /\ LoadShape'
           /\ \A m \in Loads \ {l} : load'[m] = load[m]
           /\ \A x \in LoadFields \cap DOMAIN fields : load'[l][x] = fields[x]
           /\ \A x \in LoadFields \ DOMAIN fields : load'[l][x] = load[l][x]
<1>1. DOMAIN load = Loads /\ DOMAIN load[l] = LoadFields
  BY DEF LoadShape
<1>2. load' = [load EXCEPT ![l] = [x \in LoadFields |->
                 IF x \in DOMAIN fields THEN fields[x] ELSE load[l][x]]]
  BY <1>1 DEF Set
<1>3. load'[l] = [x \in LoadFields |->
                 IF x \in DOMAIN fields THEN fields[x] ELSE load[l][x]]
  BY <1>1, <1>2
<1>4. \A m \in Loads \ {l} : load'[m] = load[m]
  BY <1>1, <1>2
<1>5. \A m \in Loads : load'[m] = [x \in LoadFields |-> load'[m][x]]
  <2> SUFFICES ASSUME NEW m \in Loads PROVE load'[m] = [x \in LoadFields |-> load'[m][x]]
    OBVIOUS
  <2>1. CASE m = l
    BY <2>1, <1>3
  <2>2. CASE m # l
    BY <2>2, <1>4 DEF LoadShape
  <2> QED BY <2>1, <2>2
<1>6. load' = [m \in Loads |-> load'[m]]
  BY <1>2, <1>1 DEF LoadShape
<1> QED
  BY <1>3, <1>4, <1>5, <1>6 DEF LoadShape

\* What a failure makes of a load.
LEMMA FailIs ==
    ASSUME LoadShape, NEW l \in Loads, Fail(l)
    PROVE  /\ LoadShape'
           /\ \A m \in Loads \ {l} : load'[m] = load[m]
           /\ load'[l].phase = "cleanup" /\ load'[l].outcome = "failed"
           /\ load'[l].clean = IF load[l].phase \in {"evidence", "evidenceCheck"}
                               THEN << Evidence[l], Scratch[l] >> ELSE << Scratch[l] >>
           /\ \A x \in LoadFields \ {"phase", "outcome", "queue", "clean"} :
                load'[l][x] = load[l][x]
           /\ disk' = disk /\ edits' = edits /\ roots' = roots /\ own' = own
           /\ stage' = [stage EXCEPT ![l] = [do |-> "off", of |-> "pair"]]
<1> DEFINE ch == [phase |-> "cleanup", outcome |-> "failed", queue |-> << >>,
               clean |-> IF load[l].phase \in {"evidence", "evidenceCheck"}
                         THEN << Evidence[l], Scratch[l] >> ELSE << Scratch[l] >>]
<1>1. Set(l, ch)
  BY DEF Fail
<1>2. DOMAIN ch = {"phase", "outcome", "queue", "clean"}
  OBVIOUS
<1>3. ch["phase"] = "cleanup" /\ ch["outcome"] = "failed"
      /\ ch["clean"] = IF load[l].phase \in {"evidence", "evidenceCheck"}
                       THEN << Evidence[l], Scratch[l] >> ELSE << Scratch[l] >>
  OBVIOUS
<1> HIDE DEF ch
<1>4. /\ LoadShape'
      /\ \A m \in Loads \ {l} : load'[m] = load[m]
      /\ \A x \in LoadFields \cap DOMAIN ch : load'[l][x] = ch[x]
      /\ \A x \in LoadFields \ DOMAIN ch : load'[l][x] = load[l][x]
  BY <1>1, SetIs
<1>5. {"phase", "outcome", "queue", "clean"} \subseteq LoadFields
  BY DEF LoadFields
<1> QED
  BY <1>2, <1>3, <1>4, <1>5 DEF Fail, Now

\* What entering a step of the script makes of a load.
LEMMA EnterIs ==
    ASSUME LoadShape, NEW l \in Loads, NEW n, NEW fields, Enter(l, n, fields),
           DOMAIN fields \cap {"step", "phase", "queue", "authority"} = {}
    PROVE  /\ LoadShape'
           /\ \A m \in Loads \ {l} : load'[m] = load[m]
           /\ load'[l].step = n /\ load'[l].phase = Script(l)[n]
           /\ Script(l)[n] \in Examining =>
                \E front : /\ Script(l)[n] \in {"issue", "assert"} => front = << >>
                           /\ Script(l)[n] \notin {"issue", "assert"} =>
                                front = << [do |-> "pair", of |-> RootOf(l, Script(l)[n])] >>
                           /\ load'[l].queue = front \o Items(l)
           /\ \A x \in LoadFields \cap DOMAIN fields : load'[l][x] = fields[x]
           /\ \A x \in LoadFields \ ({"step", "phase", "queue", "authority"} \union DOMAIN fields) :
                load'[l][x] = load[l][x]
<1> DEFINE phase == Script(l)[n]
           pair == IF phase \in {"issue", "assert"} THEN << >>
                   ELSE << [do |-> "pair", of |-> RootOf(l, phase)] >>
           ch == [x \in DOMAIN fields \union {"step", "phase", "queue", "authority"} |->
                  CASE x = "step" -> n
                    [] x = "phase" -> phase
                    [] x = "queue" -> IF phase \in Examining THEN pair \o Items(l) ELSE << >>
                    [] x = "authority" -> [a \in Authorities |-> NoEvidence]
                    [] OTHER -> fields[x]]
<1>1. Set(l, ch)
  BY DEF Enter
<1>2. /\ DOMAIN ch = DOMAIN fields \union {"step", "phase", "queue", "authority"}
      /\ ch["step"] = n /\ ch["phase"] = phase
      /\ phase \in Examining => ch["queue"] = pair \o Items(l)
      /\ \A x \in DOMAIN fields : ch[x] = fields[x]
  OBVIOUS
<1> HIDE DEF ch
<1>3. /\ LoadShape'
      /\ \A m \in Loads \ {l} : load'[m] = load[m]
      /\ \A x \in LoadFields \cap DOMAIN ch : load'[l][x] = ch[x]
      /\ \A x \in LoadFields \ DOMAIN ch : load'[l][x] = load[l][x]
  BY <1>1, SetIs
<1>4. {"step", "phase", "queue", "authority"} \subseteq LoadFields
  BY DEF LoadFields
<1>5. load'[l].step = n /\ load'[l].phase = phase /\ load'[l].queue = ch["queue"]
  BY <1>2, <1>3, <1>4
<1>6. phase \in Examining => load'[l].queue = pair \o Items(l)
  BY <1>2, <1>5
<1>7. /\ phase \in {"issue", "assert"} => pair = << >>
      /\ phase \notin {"issue", "assert"} => pair = << [do |-> "pair", of |-> RootOf(l, phase)] >>
  OBVIOUS
<1>8. /\ \A x \in LoadFields \cap DOMAIN fields : load'[l][x] = fields[x]
      /\ \A x \in LoadFields \ ({"step", "phase", "queue", "authority"} \union DOMAIN fields) :
                load'[l][x] = load[l][x]
  BY <1>2, <1>3
<1> HIDE DEF phase, pair
<1>9. phase = Script(l)[n]
  BY DEF phase
<1> QED
  BY <1>3, <1>5, <1>6, <1>7, <1>8, <1>9, Zenon

-----------------------------------------------------------------------------
(* What was read. *)

\* A load whose state and whose files stay as they are has read what it had read.
LEMMA ReadStays ==
    ASSUME NEW l \in Loads, ReadInv(l), load'[l] = load[l], disk' = disk
    PROVE  ReadInv(l)'
BY DEF ReadInv, ReadSets, ReadBytes, ReadBound, ReadTogether, FindsOut, Lost, Stale

\* Once everything is read, a load reads nothing more.
LEMMA ReadLater ==
    ASSUME NEW l \in Loads, ReadInv(l), disk' = disk,
           \A x \in {"retained", "seen", "bound", "expected", "typed", "code", "together"} :
              load'[l][x] = load[l][x],
           load'[l].phase \in LoadPhases \ Early, load'[l].step \in Nat,
           load'[l].step > 0 => load[l].together
    PROVE  ReadInv(l)'
<1>1. /\ load'[l].retained = load[l].retained /\ load'[l].seen = load[l].seen
      /\ load'[l].bound = load[l].bound /\ load'[l].expected = load[l].expected
      /\ load'[l].typed = load[l].typed /\ load'[l].code = load[l].code
      /\ load'[l].together = load[l].together
  OBVIOUS
<1>2. load'[l].phase \notin {"idle", "verify", "preflight", "graph", "bundle", "surface"}
  BY DEF Early, Walks
<1> QED
  BY <1>1, <1>2 DEF ReadInv, ReadSets, ReadBytes, ReadBound, ReadTogether, Early, Walks

\* What an edit makes of the files.
LEMMA EditIs ==
    ASSUME SourcesInv, NEW f \in Editable, Edit(f)
    PROVE  /\ disk' \in [Files -> [version : Nat, there : BOOLEAN]]
           /\ \A g \in Files : \/ disk'[g] = disk[g]
                               \/ /\ disk'[g].version = disk[g].version + 1 /\ disk'[g].there
                               \/ /\ disk'[g].version = disk[g].version /\ ~disk'[g].there
<1>1. DOMAIN disk = Files /\ \A g \in Files : disk[g] \in [version : Nat, there : BOOLEAN]
  BY DEF SourcesInv, DiskInv
<1>2. CASE disk' = [disk EXCEPT ![f] = [version |-> @.version + 1, there |-> TRUE]]
  <2> DEFINE new == [version |-> disk[f].version + 1, there |-> TRUE]
  <2>1. /\ new.version = disk[f].version + 1 /\ new.there
        /\ f \in Files => new \in [version : Nat, there : BOOLEAN]
    BY <1>1
  <2>2. disk' = [disk EXCEPT ![f] = new]
    BY <1>2
  <2> HIDE DEF new
  <2>3. \A g \in Files : disk'[g] = IF g = f THEN new ELSE disk[g]
    BY <1>1, <2>2
  <2> QED BY <1>1, <2>1, <2>2, <2>3 DEF SourcesInv, DiskInv
<1>3. CASE disk' = [disk EXCEPT ![f].there = FALSE]
  BY <1>1, <1>3
<1> QED BY <1>2, <1>3 DEF Edit

\* An edit makes no file what it was.
LEMMA EditRead ==
    ASSUME SourcesInv, NEW f \in Editable, Edit(f)
    PROVE  SourcesInv'
<1>1. f \in Files \/ disk' = disk
  BY DEF Edit, SourcesInv, DiskInv
<1>2. /\ load' = load /\ edits' = edits + 1 /\ edits' \in 0..MaxEdits
  BY VersionsAssumption DEF Edit, SourcesInv, DiskInv
<1>3. /\ disk' \in [Files -> [version : Nat, there : BOOLEAN]]
      /\ \A g \in Files : \/ disk'[g] = disk[g]
                          \/ /\ disk'[g].version = disk[g].version + 1 /\ disk'[g].there
                          \/ /\ disk'[g].version = disk[g].version /\ ~disk'[g].there
  BY EditIs
<1>4. DiskInv'
  <2>1. \A g \in Files : /\ disk'[g].there => disk'[g].version > 0
                         /\ disk'[g].version <= InitialDisk[g].version + edits'
    <3> SUFFICES ASSUME NEW g \in Files
                 PROVE  /\ disk'[g].there => disk'[g].version > 0
                        /\ disk'[g].version <= InitialDisk[g].version + edits'
      OBVIOUS
    <3>1. /\ disk[g].version \in Nat /\ InitialDisk[g].version \in Nat /\ edits \in Nat
          /\ disk[g].there => disk[g].version > 0
          /\ disk[g].version <= InitialDisk[g].version + edits
      BY VersionsAssumption DEF SourcesInv, DiskInv
    <3>2. \/ disk'[g] = disk[g]
          \/ /\ disk'[g].version = disk[g].version + 1 /\ disk'[g].there
          \/ /\ disk'[g].version = disk[g].version /\ ~disk'[g].there
      BY <1>3
    <3> QED BY <1>2, <3>1, <3>2
  <2> QED BY <1>2, <1>3, <2>1 DEF DiskInv
<1>5. LoadShape'
  BY <1>2 DEF SourcesInv, LoadShape
<1>6. ASSUME NEW l \in Loads PROVE ReadInv(l)'
  <2>1. ReadInv(l) /\ load'[l] = load[l]
    BY <1>2 DEF SourcesInv
  <2>2. \A g \in Files : load[l].retained[g] \in Nat /\ disk[g].version \in Nat
    BY <2>1 DEF ReadInv, ReadSets, SourcesInv, DiskInv
  <2>3. ReadBytes(l)'
    BY <1>3, <2>1, <2>2 DEF ReadInv, ReadBytes
  <2>4. \A g \in Files : Lost(l, g) => Lost(l, g)'
    BY <1>3, <2>1, <2>2 DEF Lost, Stale
  <2>5. ReadTogether(l)'
    <3>1. CASE load[l].phase # "verify"
      BY <2>1, <3>1 DEF ReadInv, ReadTogether
    <3>2. CASE load[l].phase = "verify"
      BY <2>1, <3>2, <2>4 DEF ReadInv, ReadSets, ReadTogether, FindsOut
    <3> QED BY <3>1, <3>2
  <2>6. ReadSets(l)' /\ ReadBound(l)'
    BY <2>1 DEF ReadInv, ReadSets, ReadBound
  <2> QED BY <2>3, <2>5, <2>6 DEF ReadInv
<1> QED
  BY <1>4, <1>5, <1>6 DEF SourcesInv

\* What a file is retained as, when it is read.
LEMMA ObservedIs ==
    ASSUME SourcesInv, NEW l \in Loads, NEW f \in Files, ~Changed(l, f)
    PROVE  /\ Observed(l, f) \in [Files -> Nat]
           /\ \A g \in Files : Observed(l, f)[g] <= disk[g].version
           /\ Observed(l, f)[f] = disk[f].version /\ disk[f].version # 0
           /\ \A g \in Files : load[l].retained[g] # 0 => Observed(l, f)[g] = load[l].retained[g]
<1>1. /\ load[l].retained \in [Files -> Nat]
      /\ \A g \in Files : load[l].retained[g] <= disk[g].version
      /\ \A g \in Files : disk[g].version \in Nat
      /\ disk[f].there => disk[f].version > 0
  BY DEF SourcesInv, ReadInv, ReadSets, ReadBytes, DiskInv
<1>2. disk[f].there /\ (load[l].retained[f] # 0 => load[l].retained[f] = disk[f].version)
  BY DEF Changed
<1> QED
  BY <1>1, <1>2 DEF Observed

\* The specifiers of a source that resolve, resolve to sources.
LEMMA TargetsAre ==
    ASSUME SourcesInv, NEW l \in Loads, NEW f \in Sources, ~Unresolved(l, f)
    PROVE  Targets(l, f) \subseteq Sources
<1> SUFFICES ASSUME NEW x \in Followed(l, f) PROVE Target(l, f, x) \in Sources
  BY DEF Targets
<1>1. disk[f].version \in 0..(InitialDisk[f].version + MaxEdits)
  BY SourcesAssumption, VersionsAssumption DEF Sources, SourcesInv, DiskInv
<1>2. x \in Specs
  BY <1>1, VersionsAssumption DEF Followed, Sources
<1>3. Candidates(l, f, x) \in Seq(Sources)
  BY <1>2, VersionsAssumption DEF Candidates, Sources
<1>4. Present(Candidates(l, f, x)) \subseteq DOMAIN Candidates(l, f, x)
  BY DEF Present
<1>5. Present(Candidates(l, f, x)) # {}
  BY DEF Unresolved
<1> QED
  BY <1>3, <1>4, <1>5, FirstIs DEF Target

\* Sets of sources are finite; as a sequence they are files, and so are the manifests
\* of the packages they belong to, none of them a source.
LEMMA SourcesListed ==
    ASSUME NEW S, S \subseteq Sources
    PROVE  /\ IsFiniteSet(S) /\ SetToSeq(S) \in Seq(S)
           /\ Manifests(S) \in Seq(Files \ Sources)
<1>1. IsFiniteSet(S)
  BY SourcesAssumption, FS_Subset DEF Sources
<1>2. SetToSeq(S) \in Seq(S)
  BY <1>1, SetListed
<1> DEFINE T == {f \in S : Owner[f] # Project}
<1>3. IsFiniteSet(T)
  BY <1>1, FS_Subset
<1>4. SetToSeq(T) \in Seq(T) /\ DOMAIN SetToSeq(T) = 1..Cardinality(T) /\ Cardinality(T) \in Nat
  BY <1>3, SetListed
<1>5. \A f \in T : ManifestOf[Owner[f]] \in Files \ Sources
  BY SourcesAssumption DEF Sources
<1>6. Manifests(S) = [i \in DOMAIN SetToSeq(T) |-> ManifestOf[Owner[SetToSeq(T)[i]]]]
  BY DEF Manifests
<1> HIDE DEF T
<1>7. \A i \in 1..Cardinality(T) : SetToSeq(T)[i] \in T
  BY <1>4
<1>8. Manifests(S) \in [1..Cardinality(T) -> Files \ Sources]
  BY <1>4, <1>5, <1>6, <1>7
<1> QED
  BY <1>1, <1>2, <1>4, <1>8

\* One file of a walk.
LEMMA WalkRead ==
    ASSUME SourcesInv, NEW l \in Loads, Walk(l)
    PROVE  SourcesInv'
<1> DEFINE f == Head(load[l].queue)
           rest == Tail(load[l].queue)
           found == Targets(l, f) \ load[l].seen
<1>0. LoadShape /\ ReadInv(l) /\ DiskInv
  BY DEF SourcesInv
<1>1. load[l].phase \in Walks /\ load[l].queue \in Seq(Files) /\ load[l].queue # << >>
  BY <1>0 DEF Walk, ReadInv, ReadSets
<1>2. f \in Files /\ rest \in Seq(Files)
  BY <1>1
<1>3. load[l].phase \in LoadPhases /\ load[l].step = 0
  BY <1>0, <1>1 DEF ReadInv, ReadSets, ReadTogether, Early
<1>4. CASE Fail(l)
  <2>1. /\ LoadShape'
        /\ \A m \in Loads \ {l} : load'[m] = load[m]
        /\ load'[l].phase = "cleanup" /\ disk' = disk /\ edits' = edits
        /\ \A x \in LoadFields \ {"phase", "outcome", "queue", "clean"} : load'[l][x] = load[l][x]
    BY <1>0, <1>4, FailIs
  <2>2. load'[l].phase \in LoadPhases \ Early
    BY <2>1 DEF LoadPhases, Early, Walks
  <2>3. load'[l].step = 0
    BY <1>3, <2>1 DEF LoadFields
  <2>4. ReadInv(l)'
    BY <1>0, <2>1, <2>2, <2>3, ReadLater DEF LoadFields
  <2>5. \A m \in Loads \ {l} : ReadInv(m)'
    BY <2>1, ReadStays DEF SourcesInv
  <2>6. DiskInv'
    BY <1>0, <2>1 DEF DiskInv
  <2> QED BY <2>1, <2>4, <2>5, <2>6 DEF SourcesInv
<1>5. CASE ~Fail(l)
  <2>1. ~Changed(l, f)
    BY <1>5 DEF Walk
  <2>2. disk' = disk /\ edits' = edits
    BY <1>5 DEF Walk
  <2>3. DiskInv'
    BY <1>0, <2>2 DEF DiskInv
  <2>4. /\ Observed(l, f) \in [Files -> Nat]
        /\ \A g \in Files : Observed(l, f)[g] <= disk[g].version
        /\ Observed(l, f)[f] = disk[f].version /\ disk[f].version # 0
        /\ \A g \in Files : load[l].retained[g] # 0 => Observed(l, f)[g] = load[l].retained[g]
    BY <1>2, <2>1, ObservedIs
  <2> DEFINE code == IF load[l].phase # "bundle" THEN load[l].code
                     ELSE [g \in DOMAIN load[l].code \union {f} |->
                             IF g = f THEN Observed(l, f)[f] ELSE load[l].code[g]]
             first == [retained |-> Observed(l, f), seen |-> load[l].seen \union {f},
                       queue |-> Manifests(found) \o rest \o SetToSeq(found), code |-> code]
             again == [retained |-> Observed(l, f), queue |-> rest]
  <2>5. CASE f \in Sources \ load[l].seen
    <3>1. Set(l, first)
      BY <1>5, <2>5 DEF Walk
    <3>2. ~Unresolved(l, f) /\ (load[l].phase = "graph" => Targets(l, f) \subseteq load[l].bound)
      BY <1>5, <2>5 DEF Walk
    <3>3. found \subseteq Sources /\ (load[l].phase = "graph" => found \subseteq load[l].bound)
      BY <2>5, <3>2, TargetsAre
    <3>4. /\ DOMAIN first = {"retained", "seen", "queue", "code"}
          /\ first["retained"] = Observed(l, f) /\ first["seen"] = load[l].seen \union {f}
          /\ first["queue"] = Manifests(found) \o rest \o SetToSeq(found)
          /\ first["code"] = code
      OBVIOUS
    <3>5. SetToSeq(found) \in Seq(found) /\ Manifests(found) \in Seq(Files \ Sources)
      BY <3>3, SourcesListed
    <3> HIDE DEF first, found, code
    <3>6. /\ LoadShape'
          /\ \A m \in Loads \ {l} : load'[m] = load[m]
          /\ \A x \in {"retained", "seen", "queue", "code"} : load'[l][x] = first[x]
          /\ \A x \in LoadFields \ {"retained", "seen", "queue", "code"} :
                load'[l][x] = load[l][x]
      BY <1>0, <3>1, <3>4, SetIs DEF LoadFields
    <3>7. /\ load'[l].retained = Observed(l, f) /\ load'[l].seen = load[l].seen \union {f}
          /\ load'[l].queue = Manifests(found) \o rest \o SetToSeq(found)
          /\ load'[l].code = code
          /\ load'[l].phase = load[l].phase /\ load'[l].bound = load[l].bound
          /\ load'[l].expected = load[l].expected /\ load'[l].typed = load[l].typed
          /\ load'[l].step = load[l].step /\ load'[l].together = load[l].together
      BY <3>4, <3>6 DEF LoadFields
    <3>8. /\ Manifests(found) \in Seq(Files) /\ rest \in Seq(Files) /\ SetToSeq(found) \in Seq(Files)
      BY <1>2, <3>3, <3>5, SourcesAssumption DEF Sources
    <3>9. load'[l].queue \in Seq(Files)
      BY <3>7, <3>8
    <3>10. f \in Sources /\ f \in Files /\ f \notin load[l].seen
      BY <1>2, <2>5
    <3>11. DOMAIN code = IF load[l].phase = "bundle" THEN DOMAIN load[l].code \union {f}
                                                     ELSE DOMAIN load[l].code
      BY DEF code
    <3>12. ReadSets(l)'
      BY <1>0, <1>1, <2>4, <3>7, <3>9, <3>10, <3>11 DEF ReadInv, ReadSets
    <3>13. ReadBytes(l)'
      <4>1. \A g \in DOMAIN load[l].code :
              g \in Files /\ load[l].code[g] = load[l].retained[g] /\ load[l].retained[g] # 0
        BY <1>0, SourcesAssumption DEF ReadInv, ReadBytes, ReadSets, Sources
      <4>2. \A g \in DOMAIN load[l].code : load[l].code[g] = Observed(l, f)[g] /\ Observed(l, f)[g] # 0
        BY <2>4, <4>1
      <4>3. \A g \in DOMAIN code : code[g] = Observed(l, f)[g] /\ Observed(l, f)[g] # 0
        BY <2>4, <4>2 DEF code
      <4> QED BY <2>2, <2>4, <3>7, <4>3 DEF ReadBytes
    <3>14. ReadBound(l)'
      <4>1. CASE load[l].phase = "preflight"
        BY <1>0, <3>7, <3>11, <4>1 DEF ReadInv, ReadBound
      <4>2. CASE load[l].phase = "graph"
        BY <1>0, <4>2, <1>1, <3>10, <3>3, <3>5, <3>7, <3>11 DEF ReadInv,
           ReadBound
      <4>3. CASE load[l].phase = "bundle"
        BY <1>0, <3>7, <3>11, <4>3 DEF ReadInv, ReadBound
      <4>4. CASE load[l].phase = "surface"
        BY <1>0, <3>7, <3>11, <4>4 DEF ReadInv, ReadBound
      <4> QED BY <1>1, <4>1, <4>2, <4>3, <4>4 DEF Walks
    <3>15. ReadTogether(l)'
      BY <1>1, <1>3, <3>7 DEF ReadTogether, Early, Walks
    <3>16. \A m \in Loads \ {l} : ReadInv(m)'
      BY <2>2, <3>6, ReadStays DEF SourcesInv
    <3> QED BY <2>3, <3>6, <3>12, <3>13, <3>14, <3>15, <3>16 DEF SourcesInv, ReadInv
  <2>6. CASE f \notin Sources \ load[l].seen
    <3>1. Set(l, again)
      BY <1>5, <2>6 DEF Walk
    <3>2. DOMAIN again = {"retained", "queue"}
          /\ again["retained"] = Observed(l, f) /\ again["queue"] = rest
      OBVIOUS
    <3> HIDE DEF again
    <3>3. /\ LoadShape'
          /\ \A m \in Loads \ {l} : load'[m] = load[m]
          /\ \A x \in {"retained", "queue"} : load'[l][x] = again[x]
          /\ \A x \in LoadFields \ {"retained", "queue"} : load'[l][x] = load[l][x]
      BY <1>0, <3>1, <3>2, SetIs DEF LoadFields
    <3>4. /\ load'[l].retained = Observed(l, f) /\ load'[l].queue = rest
          /\ load'[l].seen = load[l].seen /\ load'[l].code = load[l].code
          /\ load'[l].phase = load[l].phase /\ load'[l].bound = load[l].bound
          /\ load'[l].expected = load[l].expected /\ load'[l].typed = load[l].typed
          /\ load'[l].step = load[l].step /\ load'[l].together = load[l].together
      BY <3>2, <3>3 DEF LoadFields
    <3>5. ReadSets(l)'
      BY <1>0, <1>2, <2>4, <3>4 DEF ReadInv, ReadSets
    <3>6. ReadBytes(l)'
      BY <1>0, SourcesAssumption, <2>2, <2>4, <3>4 DEF ReadInv, ReadBytes,
         ReadSets, Sources
    <3>7. ReadBound(l)'
      <4>1. CASE load[l].phase = "preflight"
        BY SourcesAssumption, <1>0, <2>6, <3>4, <4>1 DEF Sources, ReadInv,
           ReadBound
      <4>2. CASE load[l].phase = "graph"
        BY <1>0, <4>2, <1>1, <3>4 DEF ReadInv, ReadBound
      <4>3. CASE load[l].phase \in {"bundle", "surface"}
        BY <1>0, <3>4, <4>3 DEF ReadInv, ReadBound
      <4> QED BY <1>1, <4>1, <4>2, <4>3 DEF Walks
    <3>8. ReadTogether(l)'
      BY <1>1, <1>3, <3>4 DEF ReadTogether, Early, Walks
    <3>9. \A m \in Loads \ {l} : ReadInv(m)'
      BY <2>2, <3>3, ReadStays DEF SourcesInv
    <3> QED BY <2>3, <3>3, <3>5, <3>6, <3>7, <3>8, <3>9 DEF SourcesInv, ReadInv
  <2> QED BY <2>5, <2>6
<1> QED
  BY <1>4, <1>5

\* A step that only sets fields of one load is a step of SourcesInv if it is one of
\* what that load read.
LEMMA OneRead ==
    ASSUME SourcesInv, NEW l \in Loads, LoadShape', ReadInv(l)',
           \A m \in Loads \ {l} : load'[m] = load[m], disk' = disk, edits' = edits
    PROVE  SourcesInv'
<1>1. \A m \in Loads \ {l} : ReadInv(m)'
  BY ReadStays DEF SourcesInv
<1>2. DiskInv'
  BY DEF SourcesInv, DiskInv
<1> QED
  BY <1>1, <1>2 DEF SourcesInv

\* The start of a load.
LEMMA StartRead ==
    ASSUME SourcesInv, NEW l \in Loads, Start(l)
    PROVE  SourcesInv'
<1> DEFINE begin == [phase |-> "preflight", queue |-> << Entry >>]
           stop == [phase |-> "done", outcome |-> "failed"]
<1>0. LoadShape /\ ReadInv(l) /\ load[l].phase = "idle" /\ disk' = disk /\ edits' = edits
  BY DEF SourcesInv, Start
<1>1. CASE disk[Entry].there
  <2>1. Set(l, begin) /\ DOMAIN begin = {"phase", "queue"}
        /\ begin["phase"] = "preflight" /\ begin["queue"] = << Entry >>
    BY <1>1 DEF Start
  <2> HIDE DEF begin
  <2>2. {"phase", "queue"} \subseteq LoadFields
    BY DEF LoadFields
  <2>3. /\ LoadShape' /\ \A m \in Loads \ {l} : load'[m] = load[m]
        /\ load'[l].phase = "preflight" /\ load'[l].queue = << Entry >>
        /\ \A x \in LoadFields \ {"phase", "queue"} : load'[l][x] = load[l][x]
    BY <1>0, <2>1, <2>2, SetIs
  <2>4. /\ load'[l].retained = load[l].retained /\ load'[l].seen = load[l].seen
        /\ load'[l].bound = load[l].bound /\ load'[l].expected = load[l].expected
        /\ load'[l].typed = load[l].typed /\ load'[l].code = load[l].code
        /\ load'[l].step = load[l].step /\ load'[l].together = load[l].together
    BY <2>3 DEF LoadFields
  <2>5. << Entry >> \in Seq(Files)
    BY SourcesAssumption
  <2>6. ReadInv(l)'
    BY <1>0, <2>3, <2>4, <2>5
       DEF ReadInv, ReadSets, ReadBytes, ReadBound, ReadTogether, LoadPhases, Early, Walks
  <2> QED BY <1>0, <2>3, <2>6, OneRead
<1>2. CASE ~disk[Entry].there
  <2>1. Set(l, stop) /\ DOMAIN stop = {"phase", "outcome"} /\ stop["phase"] = "done"
    BY <1>2 DEF Start
  <2> HIDE DEF stop
  <2>2. {"phase", "outcome"} \subseteq LoadFields
    BY DEF LoadFields
  <2>3. /\ LoadShape' /\ \A m \in Loads \ {l} : load'[m] = load[m]
        /\ load'[l].phase = "done"
        /\ \A x \in LoadFields \ {"phase", "outcome"} : load'[l][x] = load[l][x]
    BY <1>0, <2>1, <2>2, SetIs
  <2>4. load'[l].phase \in LoadPhases \ Early
    BY <2>3 DEF LoadPhases, Early, Walks
  <2>5. load[l].step = 0
    BY <1>0 DEF ReadInv, ReadTogether, Early
  <2>6. ReadInv(l)'
    BY <1>0, <2>3, <2>4, <2>5, ReadLater DEF LoadFields
  <2> QED BY <1>0, <2>3, <2>6, OneRead
<1> QED
  BY <1>1, <1>2

\* A failure reads nothing.
LEMMA FailRead ==
    ASSUME SourcesInv, NEW l \in Loads, Fail(l)
    PROVE  SourcesInv'
<1>0. LoadShape /\ ReadInv(l)
  BY DEF SourcesInv
<1>1. /\ LoadShape'
      /\ \A m \in Loads \ {l} : load'[m] = load[m]
      /\ load'[l].phase = "cleanup" /\ disk' = disk /\ edits' = edits
      /\ \A x \in LoadFields \ {"phase", "outcome", "queue", "clean"} : load'[l][x] = load[l][x]
  BY <1>0, FailIs
<1>2. load'[l].phase \in LoadPhases \ Early
  BY <1>1 DEF LoadPhases, Early, Walks
<1>3. load'[l].step = load[l].step
  BY <1>1 DEF LoadFields
<1>4. ReadInv(l)'
  BY <1>0, <1>1, <1>2, <1>3, ReadLater DEF LoadFields, ReadInv, ReadSets, ReadTogether
<1> QED
  BY <1>1, <1>4, OneRead

\* From one walk to the next: what is bound, and what is bundled of it.
LEMMA NextWalkRead ==
    ASSUME SourcesInv, NEW l \in Loads, NextWalk(l)
    PROVE  SourcesInv'
<1>0. LoadShape /\ ReadInv(l) /\ load[l].phase \in {"preflight", "graph", "bundle"}
      /\ load[l].queue = << >>
  BY DEF SourcesInv, NextWalk, Walks
<1>1. CASE Fail(l)
  BY <1>1, FailRead
<1>2. CASE ~Fail(l)
  <2> DEFINE graph == [phase |-> "graph", queue |-> << Entry >>, seen |-> {},
                       bound |-> load[l].seen]
             bundle == [phase |-> "bundle", queue |-> << Entry >>, seen |-> {},
                        expected |-> load[l].seen]
             surface == [phase |-> "surface",
                         queue |-> SetToSeq(load[l].bound \union TypeEntries), seen |-> {}]
  <2>0. disk' = disk /\ edits' = edits
    BY <1>2 DEF NextWalk
  <2>1. << Entry >> \in Seq(Files) /\ Entry \in Files /\ Entry \in Sources
    BY SourcesAssumption DEF Sources
  <2>2. CASE load[l].phase = "preflight"
    <3>1. Set(l, graph) /\ DOMAIN graph = {"phase", "queue", "seen", "bound"}
          /\ graph["phase"] = "graph" /\ graph["queue"] = << Entry >> /\ graph["seen"] = {}
          /\ graph["bound"] = load[l].seen
      BY <1>2, <2>2 DEF NextWalk
    <3> HIDE DEF graph
    <3>2. {"phase", "queue", "seen", "bound"} \subseteq LoadFields
      BY DEF LoadFields
    <3>3. /\ LoadShape' /\ \A m \in Loads \ {l} : load'[m] = load[m]
          /\ load'[l].phase = "graph" /\ load'[l].queue = << Entry >> /\ load'[l].seen = {}
          /\ load'[l].bound = load[l].seen
          /\ \A x \in LoadFields \ {"phase", "queue", "seen", "bound"} :
                load'[l][x] = load[l][x]
      BY <1>0, <3>1, <3>2, SetIs
    <3>4. /\ load'[l].retained = load[l].retained /\ load'[l].expected = load[l].expected
          /\ load'[l].typed = load[l].typed /\ load'[l].code = load[l].code
          /\ load'[l].step = load[l].step /\ load'[l].together = load[l].together
      BY <3>3 DEF LoadFields
    <3>5. Entry \in load[l].seen
      BY <1>0, <2>2 DEF ReadInv, ReadBound
    <3>6. << Entry >> \in Seq(load[l].seen \union (Files \ Sources))
      BY <3>5
    <3>7. ReadInv(l)'
      BY <1>0, <2>0, <2>1, <2>2, <3>3, <3>4, <3>5, <3>6
         DEF ReadInv, ReadSets, ReadBytes, ReadBound, ReadTogether, LoadPhases, Early, Walks
    <3> QED BY <2>0, <3>3, <3>7, OneRead
  <2>3. CASE load[l].phase = "graph"
    <3>1. Set(l, bundle) /\ DOMAIN bundle = {"phase", "queue", "seen", "expected"}
          /\ bundle["phase"] = "bundle" /\ bundle["queue"] = << Entry >> /\ bundle["seen"] = {}
          /\ bundle["expected"] = load[l].seen
      BY <1>2, <2>3 DEF NextWalk
    <3> HIDE DEF bundle
    <3>2. {"phase", "queue", "seen", "expected"} \subseteq LoadFields
      BY DEF LoadFields
    <3>3. /\ LoadShape' /\ \A m \in Loads \ {l} : load'[m] = load[m]
          /\ load'[l].phase = "bundle" /\ load'[l].queue = << Entry >> /\ load'[l].seen = {}
          /\ load'[l].expected = load[l].seen
          /\ \A x \in LoadFields \ {"phase", "queue", "seen", "expected"} :
                load'[l][x] = load[l][x]
      BY <1>0, <3>1, <3>2, SetIs
    <3>4. /\ load'[l].retained = load[l].retained /\ load'[l].bound = load[l].bound
          /\ load'[l].typed = load[l].typed /\ load'[l].code = load[l].code
          /\ load'[l].step = load[l].step /\ load'[l].together = load[l].together
      BY <3>3 DEF LoadFields
    <3>5. load[l].seen \subseteq load[l].bound /\ DOMAIN load[l].code = {}
      BY <1>0, <2>3 DEF ReadInv, ReadBound
    <3>6. ReadInv(l)'
      BY <1>0, <2>0, <2>1, <2>3, <3>3, <3>4, <3>5
         DEF ReadInv, ReadSets, ReadBytes, ReadBound, ReadTogether, LoadPhases, Early, Walks
    <3> QED BY <2>0, <3>3, <3>6, OneRead
  <2>4. CASE load[l].phase = "bundle"
    <3>1. Set(l, surface) /\ DOMAIN surface = {"phase", "queue", "seen"}
          /\ surface["phase"] = "surface" /\ surface["seen"] = {}
          /\ surface["queue"] = SetToSeq(load[l].bound \union TypeEntries)
      BY <1>2, <2>4 DEF NextWalk
    <3> HIDE DEF surface
    <3>2. {"phase", "queue", "seen"} \subseteq LoadFields
      BY DEF LoadFields
    <3>3. /\ LoadShape' /\ \A m \in Loads \ {l} : load'[m] = load[m]
          /\ load'[l].phase = "surface" /\ load'[l].seen = {}
          /\ load'[l].queue = SetToSeq(load[l].bound \union TypeEntries)
          /\ \A x \in LoadFields \ {"phase", "queue", "seen"} : load'[l][x] = load[l][x]
      BY <1>0, <3>1, <3>2, SetIs
    <3>4. /\ load'[l].retained = load[l].retained /\ load'[l].expected = load[l].expected
          /\ load'[l].bound = load[l].bound
          /\ load'[l].typed = load[l].typed /\ load'[l].code = load[l].code
          /\ load'[l].step = load[l].step /\ load'[l].together = load[l].together
      BY <3>3 DEF LoadFields
    <3>5. load[l].seen = load[l].expected
      BY <1>2, <2>4 DEF NextWalk
    <3>6. DOMAIN load[l].code \subseteq load[l].bound
      BY <1>0, <2>4, <3>5 DEF ReadInv, ReadBound
    <3>7. load[l].bound \union TypeEntries \subseteq Sources
      BY <1>0, SourcesAssumption DEF ReadInv, ReadSets, Sources
    <3>8. SetToSeq(load[l].bound \union TypeEntries) \in Seq(Files)
      BY <3>7, SourcesListed, SourcesAssumption DEF Sources
    <3>9. ReadInv(l)'
      BY <1>0, <2>0, <2>1, <2>4, <3>3, <3>4, <3>6, <3>8
         DEF ReadInv, ReadSets, ReadBytes, ReadBound, ReadTogether, LoadPhases, Early, Walks
    <3> QED BY <2>0, <3>3, <3>9, OneRead
  <2> QED BY <1>0, <2>2, <2>3, <2>4
<1> QED
  BY <1>1, <1>2

\* The type-check, and the list of what is to be read once more.
LEMMA TypeCheckRead ==
    ASSUME SourcesInv, NEW l \in Loads, TypeCheck(l)
    PROVE  SourcesInv'
<1>0. LoadShape /\ ReadInv(l) /\ load[l].phase = "surface"
  BY DEF SourcesInv, TypeCheck
<1>1. CASE Fail(l)
  BY <1>1, FailRead
<1>2. CASE ~Fail(l)
  <2> DEFINE again == {f \in Files : load[l].retained[f] # 0}
             ch == [phase |-> "verify", typed |-> TypeClosure(l), seen |-> {}, bound |-> {},
                    expected |-> {}, queue |-> SetToSeq(again),
                    together |-> \A f \in Files : load[l].retained[f] # 0 => ~Changed(l, f)]
             fields == {"phase", "typed", "seen", "bound", "expected", "queue", "together"}
  <2>1. disk' = disk /\ edits' = edits /\ Set(l, ch)
    BY <1>2 DEF TypeCheck
  <2>2. /\ DOMAIN ch = fields /\ fields \subseteq LoadFields
        /\ ch["phase"] = "verify" /\ ch["typed"] = TypeClosure(l) /\ ch["seen"] = {}
        /\ ch["bound"] = {} /\ ch["expected"] = {} /\ ch["queue"] = SetToSeq(again)
        /\ ch["together"] = \A f \in Files : load[l].retained[f] # 0 => ~Changed(l, f)
    BY DEF LoadFields
  <2>3. IsFiniteSet(again)
    BY SourcesAssumption, FS_Subset
  <2>4. /\ SetToSeq(again) \in Seq(again) /\ Len(SetToSeq(again)) = Cardinality(again)
        /\ \A f \in again : \E i \in 1..Cardinality(again) : SetToSeq(again)[i] = f
    BY <2>3, SetListed
  <2>5. SetToSeq(again) \in Seq(Files)
    BY <2>4
  <2> HIDE DEF ch, again
  <2>6. /\ LoadShape' /\ \A m \in Loads \ {l} : load'[m] = load[m]
        /\ \A x \in fields : load'[l][x] = ch[x]
        /\ \A x \in LoadFields \ fields : load'[l][x] = load[l][x]
    <3> HIDE DEF fields
    <3> QED BY <1>0, <2>1, <2>2, SetIs
  <2>7. /\ load'[l].phase = "verify" /\ load'[l].typed = TypeClosure(l)
        /\ load'[l].seen = {} /\ load'[l].bound = {} /\ load'[l].expected = {}
        /\ load'[l].queue = SetToSeq(again)
        /\ load'[l].together = \A f \in Files : load[l].retained[f] # 0 => ~Changed(l, f)
        /\ load'[l].retained = load[l].retained /\ load'[l].code = load[l].code
        /\ load'[l].step = load[l].step
    BY <2>2, <2>6 DEF LoadFields
  <2>8. ReadSets(l)'
    BY <1>0, <2>5, <2>7 DEF ReadInv, ReadSets, LoadPhases, Early, TypeClosure
  <2>9. ReadBytes(l)' /\ ReadBound(l)'
    BY <1>0, <2>1, <2>7 DEF ReadInv, ReadBytes, ReadBound
  <2>10. load[l].step = 0
    BY <1>0 DEF ReadInv, ReadTogether, Early, Walks
  <2>11. FindsOut(l)'
    <3> SUFFICES ASSUME ~load'[l].together PROVE FindsOut(l)'
      BY DEF FindsOut
    <3>1. PICK f \in Files : load[l].retained[f] # 0 /\ Changed(l, f)
      BY <2>7
    <3>2. /\ load[l].retained[f] \in Nat /\ disk[f].version \in Nat
          /\ load[l].retained[f] <= disk[f].version
      BY <1>0 DEF ReadInv, ReadSets, ReadBytes, SourcesInv, DiskInv
    <3>3. Lost(l, f)'
      BY <2>1, <2>7, <3>1, <3>2 DEF Lost, Stale, Changed
    <3>4. f \in again
      BY <3>1 DEF again
    <3>5. PICK i \in 1..Cardinality(again) : SetToSeq(again)[i] = f
      BY <2>4, <3>4
    <3>6. i \in 1..Len(load'[l].queue) /\ load'[l].queue[i] = f
      BY <2>4, <2>7, <3>5
    <3> QED BY <3>3, <3>6 DEF FindsOut, Lost, Stale
  <2>12. ReadTogether(l)'
    BY <2>7, <2>10, <2>11 DEF ReadTogether
  <2> QED BY <2>1, <2>6, <2>8, <2>9, <2>12, OneRead DEF ReadInv
<1> QED
  BY <1>1, <1>2

\* One file read once more.
LEMMA VerifyAllRead ==
    ASSUME SourcesInv, NEW l \in Loads, VerifyAll(l)
    PROVE  SourcesInv'
<1> DEFINE ch == [queue |-> Tail(load[l].queue)]
<1>0. /\ LoadShape /\ ReadInv(l) /\ load[l].phase = "verify" /\ load[l].queue # << >>
      /\ load[l].queue \in Seq(Files)
  BY DEF SourcesInv, VerifyAll, ReadInv, ReadSets
<1>1. CASE Fail(l)
  BY <1>1, FailRead
<1>2. CASE ~Fail(l)
  <2>1. /\ disk' = disk /\ edits' = edits /\ Set(l, ch) /\ ~Changed(l, Head(load[l].queue))
        /\ DOMAIN ch = {"queue"} /\ ch["queue"] = Tail(load[l].queue)
    BY <1>2 DEF VerifyAll
  <2> HIDE DEF ch
  <2>2. /\ LoadShape' /\ \A m \in Loads \ {l} : load'[m] = load[m]
        /\ load'[l].queue = Tail(load[l].queue)
        /\ \A x \in LoadFields \ {"queue"} : load'[l][x] = load[l][x]
    <3>1. "queue" \in LoadFields
      BY DEF LoadFields
    <3>2. LoadShape /\ Set(l, ch)
      BY <1>0, <2>1
    <3>3. /\ LoadShape' /\ \A m \in Loads \ {l} : load'[m] = load[m]
          /\ \A x \in LoadFields \cap DOMAIN ch : load'[l][x] = ch[x]
          /\ \A x \in LoadFields \ DOMAIN ch : load'[l][x] = load[l][x]
      BY <3>2, SetIs
    <3>4. load'[l]["queue"] = ch["queue"]
      BY <2>1, <3>1, <3>3
    <3> QED BY <2>1, <3>3, <3>4
  <2>3. /\ load'[l].retained = load[l].retained /\ load'[l].expected = load[l].expected
        /\ load'[l].bound = load[l].bound /\ load'[l].seen = load[l].seen
        /\ load'[l].typed = load[l].typed /\ load'[l].code = load[l].code
        /\ load'[l].step = load[l].step /\ load'[l].together = load[l].together
        /\ load'[l].phase = load[l].phase
    BY <2>2 DEF LoadFields
  <2>4. /\ Tail(load[l].queue) \in Seq(Files) /\ Len(load[l].queue) \in Nat \ {0}
        /\ Len(Tail(load[l].queue)) = Len(load[l].queue) - 1
        /\ \A i \in 1..Len(load[l].queue) - 1 : Tail(load[l].queue)[i] = load[l].queue[i + 1]
        /\ Head(load[l].queue) = load[l].queue[1] /\ Head(load[l].queue) \in Files
    BY <1>0
  <2>5. ~Lost(l, Head(load[l].queue))
    <3> DEFINE f == Head(load[l].queue)
    <3>1. /\ f \in Files /\ disk[f].version \in Nat /\ load[l].retained[f] \in Nat
          /\ load[l].retained[f] <= disk[f].version
          /\ disk[f].there /\ (load[l].retained[f] # 0 => load[l].retained[f] = disk[f].version)
      BY <1>0, <2>1, <2>4, ZenonT(60) DEF ReadInv, ReadSets, ReadBytes, SourcesInv, DiskInv, Changed
    <3> QED BY <3>1 DEF Lost, Stale
  <2>6. FindsOut(l)'
    <3> SUFFICES ASSUME ~load'[l].together PROVE FindsOut(l)'
      BY DEF FindsOut
    <3>1. PICK i \in 1..Len(load[l].queue) : Lost(l, load[l].queue[i])
      BY <1>0, <2>3 DEF ReadInv, ReadTogether, FindsOut
    <3>2. i # 1
      BY <2>4, <2>5, <3>1
    <3>3. /\ i - 1 \in 1..Len(Tail(load[l].queue))
          /\ Tail(load[l].queue)[i - 1] = load[l].queue[i]
      BY <2>4, <3>1, <3>2
    <3>4. Lost(l, load[l].queue[i]) /\ disk' = disk /\ load'[l].retained = load[l].retained
          /\ load'[l].queue[i - 1] = load[l].queue[i] /\ i - 1 \in 1..Len(load'[l].queue)
      BY <2>1, <2>2, <2>3, <3>1, <3>3
    <3> QED BY <3>4 DEF FindsOut, Lost, Stale
  <2>7. ReadSets(l)' /\ ReadBytes(l)' /\ ReadBound(l)'
    BY <1>0, <2>1, <2>2, <2>3, <2>4 DEF ReadInv, ReadSets, ReadBytes, ReadBound
  <2>8. ReadTogether(l)'
    BY <1>0, <2>3, <2>6 DEF ReadInv, ReadTogether
  <2> QED BY <2>1, <2>2, <2>7, <2>8, OneRead DEF ReadInv
<1> QED
  BY <1>1, <1>2

\* What the steps after the reading set of a load.
LaterStep(l) ==
    /\ LoadShape'
    /\ \A m \in Loads \ {l} : load'[m] = load[m]
    /\ \A x \in {"retained", "seen", "bound", "expected", "typed", "code", "together"} :
          load'[l][x] = load[l][x]
    /\ load'[l].phase \in LoadPhases \ Early
    /\ \/ load'[l].step = load[l].step
       \/ load'[l].step \in Nat /\ load[l].together

\* Nothing is read in the steps after the reading.
LEMMA LaterRead ==
    ASSUME SourcesInv, NEW l \in Loads, LaterStep(l), disk' = disk, edits' = edits
    PROVE  SourcesInv'
<1>1. ReadInv(l)
  BY DEF SourcesInv
<1>2. load'[l].step \in Nat /\ (load'[l].step > 0 => load[l].together)
  BY <1>1 DEF LaterStep, ReadInv, ReadSets, ReadTogether
<1>3. ReadInv(l)'
  BY <1>1, <1>2, ReadLater DEF LaterStep
<1> QED
  BY <1>3, OneRead DEF LaterStep

\* The steps of a script.
LEMMA ScriptSteps ==
    ASSUME NEW l \in Loads
    PROVE  /\ Script(l)[1] = "issue" /\ Script(l)[2] = "assert" /\ Script(l)[3] = "scratch"
           /\ Script(l)[4] = "scratchCheck" /\ Script(l)[5] = "scratchCheck"
           /\ Evidence[l] = Nothing => ImportStep(l) = 6
           /\ Evidence[l] # Nothing =>
                /\ ImportStep(l) = 9 /\ Script(l)[6] = "scratchCheck"
                /\ Script(l)[7] = "evidence" /\ Script(l)[8] = "evidenceCheck"
           /\ Script(l)[ImportStep(l)] = "import"
           /\ Script(l)[ImportStep(l) + 1] = "scratchCheck"
           /\ Script(l)[ImportStep(l) + 2] = "scratchCheck"
           /\ Script(l)[ImportStep(l) + 3] = "create"
<1>1. CASE Evidence[l] = Nothing
  BY <1>1 DEF Script, ImportStep
<1>2. CASE Evidence[l] # Nothing
  BY <1>2 DEF Script, ImportStep
<1> QED
  BY <1>1, <1>2

\* Which step of the script a phase is.
LEMMA ScriptAt ==
    ASSUME NEW l \in Loads, NEW n \in 1..ImportStep(l) + 3
    PROVE  /\ Script(l)[n] \in Scripted
           /\ Script(l)[n] \in LoadPhases \ Early
           /\ Script(l)[n] = "issue" <=> n = 1
           /\ Script(l)[n] = "scratch" <=> n = 3
           /\ Script(l)[n] = "import" <=> n = ImportStep(l)
           /\ Script(l)[n] = "create" <=> n = ImportStep(l) + 3
           /\ Script(l)[n] = "evidence" <=> n = 7 /\ Evidence[l] # Nothing
           /\ Script(l)[n] = "evidenceCheck" => n = 8 /\ Evidence[l] # Nothing
           /\ ImportStep(l) \in {6, 9}
<1>0. /\ Scripted = {"issue", "assert", "scratch", "scratchCheck", "evidence", "evidenceCheck",
                     "import", "create"}
      /\ Scripted \subseteq LoadPhases \ Early
  BY DEF Scripted, LoadPhases, Early, Walks
<1>1. CASE Evidence[l] = Nothing
  BY <1>1, <1>0 DEF ImportStep, Script
<1>2. CASE Evidence[l] # Nothing
  BY <1>2, <1>0 DEF ImportStep, Script
<1> QED
  BY <1>1, <1>2

-----------------------------------------------------------------------------
(* What lies in the roots. *)

Off == [do |-> "off", of |-> "pair"]

\* A build is what it was made from.
LEMMA ArtifactStays ==
    ASSUME NEW l, load'[l].code = load[l].code, load'[l].typed = load[l].typed,
           load'[l].retained = load[l].retained
    PROVE  /\ Inputs(l)' = Inputs(l) /\ Artifact(l)' = Artifact(l)
           /\ \A who : Of(l, who)' = Of(l, who)
<1>1. Inputs(l)' = Inputs(l)
  BY DEF Inputs
<1>2. \A who : Of(l, who)' = Of(l, who)
  BY <1>1 DEF Of
<1>3. Digests(l)' = Digests(l)
  BY <1>1, <1>2 DEF Digests
<1> QED
  BY <1>1, <1>2, <1>3 DEF Artifact

\* A load that does not move has the build and the places it had.
LEMMA SameLoad ==
    ASSUME NEW m \in Loads, load'[m] = load[m]
    PROVE  /\ Artifact(m)' = Artifact(m) /\ Inputs(m)' = Inputs(m)
           /\ \A r : Publishes(m, r)' = Publishes(m, r)
           /\ own'[m] = own[m] /\ stage'[m] = stage[m] => \A r : Holds(m, r)' = Holds(m, r)
<1>1. Artifact(m)' = Artifact(m) /\ Inputs(m)' = Inputs(m)
  BY ArtifactStays
<1>2. \A r : Publishes(m, r)' = Publishes(m, r)
  BY DEF Publishes, RootOf
<1> QED
  BY <1>1, <1>2 DEF Holds

\* Nothing happens in the roots: a load moves on, or forgets what it made in one.
LEMMA PairStays ==
    ASSUME PairInv, NEW l \in Loads, roots' = roots,
           \A m \in Loads \ {l} : load'[m] = load[m] /\ stage'[m] = stage[m] /\ own'[m] = own[m],
           stage' \in [Loads -> StageSet],
           own' \in [Loads -> [Roots -> SUBSET {"dynamics", "directory", "artifact", "receipt"}]],
           stage'[l] = Off,
           \A r \in Roots : own'[l][r] = own[l][r] \/ own'[l][r] = {},
           \/ \A r \in Roots : own'[l][r] = {}
           \/ /\ Artifact(l)' = Artifact(l) /\ load'[l].receipt = load[l].receipt
              /\ load'[l].step >= 3
    PROVE  PairInv'
<1>1. PairShape'
  BY DEF PairInv, PairShape
<1>2. \A m \in Loads \ {l} : /\ Artifact(m)' = Artifact(m)
                             /\ \A r : Holds(m, r)' = Holds(m, r)
  BY SameLoad
<1>3. ASSUME NEW m \in Loads PROVE StageIs(m)'
  <2>1. CASE m = l
    BY <2>1 DEF StageIs, Off, Publishing
  <2>2. CASE m # l
    BY <2>2 DEF PairInv, StageIs, Publishing, RootOf
  <2> QED BY <2>1, <2>2
<1>4. ASSUME NEW m \in Loads, NEW r \in Roots PROVE OwnIs(m, r)'
  <2>0. OwnIs(m, r)
    BY DEF PairInv
  <2>1. CASE m = l
    <3>1. CASE own'[l][r] = {}
      BY <2>1, <3>1 DEF OwnIs
    <3>2. CASE own'[l][r] # {}
      BY <2>0, <2>1, <3>2 DEF OwnIs, Mine
    <3> QED BY <3>1, <3>2
  <2>2. CASE m # l
    BY <1>2, <2>0, <2>2 DEF OwnIs, Mine
  <2> QED BY <2>1, <2>2
<1>5. ASSUME NEW r \in Roots PROVE RootIs(r)'
  BY <1>2 DEF PairInv, RootIs
<1>6. ASSUME NEW m \in Loads, NEW n \in Loads, m # n, NEW r \in Roots PROVE Apart(m, n, r)'
  BY <1>6, <1>2 DEF PairInv, Holds, Off, Apart
<1> QED
  BY <1>1, <1>3, <1>4, <1>5, <1>6 DEF PairInv

\* A step in one root concerns that root.
LEMMA AtRoot ==
    ASSUME PairInv, NEW l \in Loads, NEW r \in Roots, PairShape',
           \A m \in Loads : load'[m] = load[m],
           \A m \in Loads \ {l} : stage'[m] = stage[m] /\ own'[m] = own[m],
           \A x \in Roots \ {r} : /\ roots'[x] = roots[x] /\ own'[l][x] = own[l][x]
                                  /\ ~Publishes(l, x),
           StageIs(l)', OwnIs(l, r)', RootIs(r)',
           \A m \in Loads \ {l} : StageIs(m)' /\ OwnIs(m, r)' /\ Apart(l, m, r)'
    PROVE  PairInv'
<1>1. \A m \in Loads : Artifact(m)' = Artifact(m)
  BY SameLoad
<1>2. \A m \in Loads \ {l} : \A x : Holds(m, x)' = Holds(m, x)
  BY SameLoad
<1>3. \A x \in Roots \ {r} : \A m \in Loads : own'[m][x] = own[m][x]
  OBVIOUS
<1>4. \A x \in Roots \ {r} : Holds(l, x)' = Holds(l, x)
  BY SameLoad, <1>3 DEF Holds
<1>5. ASSUME NEW m \in Loads, NEW x \in Roots PROVE OwnIs(m, x)'
  <2>1. CASE x = r
    BY <2>1
  <2>2. CASE x # r
    BY <1>3, <2>2, <1>1 DEF PairInv, OwnIs, Mine
  <2> QED BY <2>1, <2>2
<1>6. ASSUME NEW x \in Roots PROVE RootIs(x)'
  <2>1. CASE x = r
    BY <2>1
  <2>2. CASE x # r
    BY <1>3, <2>2, <1>1 DEF PairInv, RootIs
  <2> QED BY <2>1, <2>2
<1>7. ASSUME NEW m \in Loads, NEW n \in Loads, m # n, NEW x \in Roots PROVE Apart(m, n, x)'
  <2>0. Apart(m, n, x)
    BY <1>7 DEF PairInv
  <2>1. CASE x # r
    BY <1>2, <1>3, <1>4, <2>1, <1>1, <2>0 DEF Apart
  <2>2. CASE x = r /\ m # l /\ n # l
    BY <1>2, <2>2, <1>1, <2>0 DEF Apart
  <2>3. CASE x = r /\ m = l
    BY <1>7, <2>3
  <2>4. CASE x = r /\ n = l
    BY <1>7, <2>4 DEF Apart
  <2> QED BY <2>1, <2>2, <2>3, <2>4
<1>8. \A m \in Loads : StageIs(m)'
  OBVIOUS
<1> QED
  BY <1>5, <1>6, <1>7, <1>8 DEF PairInv

\* Every load publishes in a root.
Placed == \A m \in Loads : load[m].phase = "evidence" => Evidence[m] \in Roots

\* A load whose receipt has its place in a root does not find the place free.
LEMMA HoldsIs ==
    ASSUME PairInv, NEW m \in Loads, NEW r \in Roots, Holds(m, r)
    PROVE  roots[r].receipt # NoReceipt
<1>1. OwnIs(m, r) /\ StageIs(m)
  BY DEF PairInv
<1>2. NoReceipt.state = "absent"
  BY DEF NoReceipt
<1>3. CASE "receipt" \in own[m][r]
  BY <1>1, <1>2, <1>3 DEF OwnIs
<1>4. CASE "receipt" \notin own[m][r]
  BY <1>4, <1>1, <1>2 DEF Holds, PairInv, PairShape, StageSet, Publishes,
     Publishing, StageIs
<1> QED
  BY <1>3, <1>4

\* What a load does in a root to its own pair leaves the pairs of the others there.
LEMMA OthersStay ==
    ASSUME PairInv, Placed, NEW l \in Loads, NEW r \in Roots, NEW m \in Loads \ {l},
           load'[m] = load[m], stage'[m] = stage[m], own'[m] = own[m],
           \A x \in Roots \ {r} : roots'[x] = roots[x],
           \A a : (a # Artifact(l) \/ "directory" \notin own[l][r]) =>
              /\ a \in roots[r].dirs => a \in roots'[r].dirs
              /\ a \in roots[r].sealed => a \in roots'[r].sealed,
           \/ roots'[r].receipt = roots[r].receipt
           \/ Holds(l, r)
           \/ roots[r].receipt = NoReceipt
    PROVE  StageIs(m)' /\ OwnIs(m, r)'
<1>0. OwnIs(m, r) /\ StageIs(m) /\ Apart(l, m, r)
  BY DEF PairInv
<1>1. Artifact(m)' = Artifact(m)
  BY SameLoad
<1>2. Holds(m, r) => roots'[r].receipt = roots[r].receipt
  BY <1>0, HoldsIs DEF Apart
<1>3. OwnIs(m, r)'
  BY <1>0, <1>1, <1>2 DEF Apart, Holds, OwnIs, Mine
<1>4. StageIs(m)'
  <2>1. CASE load[m].phase \notin {"scratch", "evidence"}
    BY <1>0, <2>1 DEF StageIs, Publishing
  <2>2. CASE load[m].phase \in {"scratch", "evidence"}
    <3> DEFINE p == RootOf(m, load[m].phase)
    <3>1. p \in Roots
      BY <2>2, RootsAssumption DEF Placed, RootOf
    <3>2. Publishes(m, p)
      BY <2>2 DEF Publishes
    <3>3. Publishing(m, "receipt", "rename") \/ Publishing(m, "receipt", "seal") =>
            roots'[p].receipt = roots[p].receipt
      <4>1. CASE p = r
        BY <1>2, <3>2, <4>1 DEF Holds, Publishing
      <4>2. CASE p # r
        BY <3>1, <4>2
      <4> QED BY <4>1, <4>2
    <3> QED BY <1>0, <2>2, <3>3 DEF StageIs, Publishing, RootOf
  <2> QED BY <2>1, <2>2
<1> QED
  BY <1>3, <1>4

\* A load publishes in one of its roots.
PublishesIn(l, r) ==
    /\ Publishes(l, r) /\ r \in Mine(l) /\ load[l].step >= 3
    /\ load[l].receipt.artifact = Artifact(l)


Made == {"dynamics", "directory", "artifact", "receipt"}

\* A step of one load in one root: what the root holds then, how far the pair is and
\* what the load made there.
After(l, r, new, s, o) ==
    /\ load' = load
    /\ roots' = [roots EXCEPT ![r] = new]
    /\ stage' = [stage EXCEPT ![l] = s]
    /\ own' = [own EXCEPT ![l][r] = o]

ShapeAfter(new, s, o) ==
    /\ new = [x \in RootFields |-> new[x]] /\ new.dynamics \in BOOLEAN
    /\ new.receipt = [state |-> new.receipt.state, body |-> new.receipt.body]
    /\ s \in StageSet /\ o \subseteq Made

\* The pair of the load that moves is as far as it says.
OwnAfter(l, r, new, s, o) ==
    /\ s # Off => Publishes(l, r)
    /\ s.of \in {"artifact", "receipt"} => "directory" \in o
    /\ s.of = "receipt" => "artifact" \in o
    /\ s = [do |-> "published", of |-> "pair"] => "receipt" \in o
    /\ s = [do |-> "rename", of |-> "receipt"] => new.receipt.state = "reserved"
    /\ s = [do |-> "seal", of |-> "receipt"] =>
         new.receipt = [state |-> "written", body |-> load[l].receipt]
    /\ "receipt" \in o => "artifact" \in o
    /\ "artifact" \in o => "directory" \in o
    /\ "directory" \in o => Artifact(l) \in new.dirs
    /\ "artifact" \in o => Artifact(l) \in new.sealed
    /\ "receipt" \in o => new.receipt = [state |-> "sealed", body |-> load[l].receipt]

\* The others' pairs stay where they are.
OthersAfter(l, r, new, s, o) ==
    /\ \A a : (a # Artifact(l) \/ "directory" \notin own[l][r]) =>
          /\ a \in roots[r].dirs => a \in new.dirs
          /\ a \in roots[r].sealed => a \in new.sealed
    /\ \/ new.receipt = roots[r].receipt
       \/ Holds(l, r)
       \/ roots[r].receipt = NoReceipt
    /\ "directory" \in o =>
          "directory" \in own[l][r] \/ Artifact(l) \notin roots[r].dirs
    /\ \/ "receipt" \in o
       \/ s.of = "receipt" /\ s.do \in {"rename", "seal"}
       => Holds(l, r) \/ roots[r].receipt = NoReceipt

RootAfter(l, r, new, o) ==
    /\ new.dirs # {} => new.dynamics
    /\ new.receipt.state = "sealed" =>
         LET a == new.receipt.body.artifact IN
         /\ a \in new.dirs /\ a \in new.sealed
         /\ \A m \in Loads \ {l} :
               "directory" \in own[m][r] /\ Artifact(m) = a => "receipt" \in own[m][r]
         /\ "directory" \in o /\ Artifact(l) = a => "receipt" \in o

\* A step that is so leaves the pairs as they are to be.
LEMMA StepInRoot ==
    ASSUME PairInv, Placed, NEW l \in Loads, NEW r \in Roots, NEW new, NEW s, NEW o,
           r \in Mine(l), load[l].step >= 3,
           \A x \in Roots \ {r} : ~Publishes(l, x),
           load[l].phase \in {"scratch", "evidence"} => r = RootOf(l, load[l].phase),
           After(l, r, new, s, o), ShapeAfter(new, s, o), OwnAfter(l, r, new, s, o),
           OthersAfter(l, r, new, s, o), RootAfter(l, r, new, o)
    PROVE  PairInv'
<1>0. PairShape
  BY DEF PairInv
<1>1. /\ \A m \in Loads : load'[m] = load[m]
      /\ \A m \in Loads \ {l} : stage'[m] = stage[m] /\ own'[m] = own[m]
      /\ \A x \in Roots \ {r} : roots'[x] = roots[x] /\ own'[l][x] = own[l][x]
      /\ roots'[r] = new /\ stage'[l] = s /\ own'[l][r] = o
      /\ stage' \in [Loads -> StageSet] /\ own' \in [Loads -> [Roots -> SUBSET Made]]
      /\ DOMAIN roots' = Roots
  <2> HIDE DEF StageSet
  <2>1. DOMAIN roots = Roots /\ stage \in [Loads -> StageSet]
        /\ own \in [Loads -> [Roots -> SUBSET Made]]
    BY <1>0 DEF PairShape, Made
  <2>2. s \in StageSet /\ o \in SUBSET Made
    BY DEF ShapeAfter
  <2>3. own' \in [Loads -> [Roots -> SUBSET Made]]
    <3> HIDE DEF Made
    <3>1. own[l] \in [Roots -> SUBSET Made]
      BY <2>1
    <3>2. [own[l] EXCEPT ![r] = o] \in [Roots -> SUBSET Made]
      BY <2>2, <3>1
    <3> QED BY <2>1, <3>2 DEF After
  <2> QED BY <2>1, <2>2, <2>3 DEF After
<1>2. PairShape'
  <2>1. \A x \in Roots : /\ roots'[x] = [y \in RootFields |-> roots'[x][y]]
                         /\ roots'[x].dynamics \in BOOLEAN
                         /\ roots'[x].receipt = [state |-> roots'[x].receipt.state,
                                                 body |-> roots'[x].receipt.body]
    <3> SUFFICES ASSUME NEW x \in Roots
                 PROVE /\ roots'[x] = [y \in RootFields |-> roots'[x][y]]
                       /\ roots'[x].dynamics \in BOOLEAN
                       /\ roots'[x].receipt = [state |-> roots'[x].receipt.state,
                                               body |-> roots'[x].receipt.body]
      OBVIOUS
    <3>1. CASE x = r
      BY <1>1, <3>1 DEF ShapeAfter
    <3>2. CASE x # r
      BY <1>0, <1>1, <3>2 DEF PairShape
    <3> QED BY <3>1, <3>2
  <2>2. roots' = [x \in Roots |-> roots'[x]]
    BY <1>0 DEF PairShape, After
  <2> QED BY <1>1, <2>1, <2>2 DEF PairShape, Made
<1>3. Artifact(l)' = Artifact(l) /\ \A x : Publishes(l, x)' = Publishes(l, x)
  BY <1>1, SameLoad
<1>4. StageIs(l)'
  BY <1>1, <1>3 DEF StageIs, OwnAfter, Publishing, RootOf, Off, Publishes
<1>5. OwnIs(l, r)'
  BY <1>1, <1>3 DEF OwnIs, OwnAfter, Mine
<1>6. RootIs(r)'
  BY <1>1, SameLoad DEF RootIs, RootAfter
<1>7. ASSUME NEW m \in Loads \ {l} PROVE StageIs(m)' /\ OwnIs(m, r)' /\ Apart(l, m, r)'
  <2>1. StageIs(m)' /\ OwnIs(m, r)'
    BY <1>1, OthersStay DEF OthersAfter
  <2>2. /\ Artifact(m)' = Artifact(m) /\ Holds(m, r)' = Holds(m, r)
        /\ Apart(l, m, r) /\ OwnIs(m, r)
    BY <1>1, SameLoad DEF PairInv
  <2>3. Holds(l, r)' => Holds(l, r) \/ roots[r].receipt = NoReceipt
    BY <1>1 DEF Holds, OthersAfter
  <2>4. ~(Holds(l, r)' /\ Holds(m, r)')
    BY <2>2, <2>3, HoldsIs DEF Apart
  <2>5. "directory" \in own'[l][r] /\ "directory" \in own'[m][r] => Artifact(l) # Artifact(m)
    BY <1>1, <2>2, ZenonT(60) DEF OthersAfter, Apart, OwnIs
  <2> QED BY <1>3, <2>1, <2>2, <2>4, <2>5 DEF Apart
<1> QED
  BY <1>1, <1>2, <1>4, <1>5, <1>6, <1>7, AtRoot

\* What is known of a load at work in a root.
Known(l, r) ==
    /\ OwnIs(l, r) /\ StageIs(l) /\ RootIs(r)
    /\ r \in Mine(l) /\ load[l].step >= 3
    /\ load[l].phase \in {"scratch", "evidence"} => r = RootOf(l, load[l].phase)
    /\ \A x \in Roots \ {r} : ~Publishes(l, x)
    /\ \A m \in Loads \ {l} : Apart(l, m, r)
    /\ own[l][r] \subseteq Made
    /\ roots[r] = [x \in RootFields |-> roots[r][x]] /\ roots[r].dynamics \in BOOLEAN
    /\ roots[r].receipt = [state |-> roots[r].receipt.state, body |-> roots[r].receipt.body]
    /\ stage[l] \in StageSet

\* What a load that publishes knows of its root.
LEMMA PublishKnows ==
    ASSUME PairInv, NEW l \in Loads, NEW r \in Roots, PublishesIn(l, r)
    PROVE  Known(l, r) /\ Publishes(l, r)
<1>1. PairShape /\ OwnIs(l, r) /\ StageIs(l) /\ RootIs(r) /\ \A m \in Loads \ {l} : Apart(l, m, r)
  BY DEF PairInv
<1>2. own[l][r] \subseteq Made /\ stage[l] \in StageSet
  BY <1>1 DEF PairShape, Made
<1>3. roots[r] = [x \in RootFields |-> roots[r][x]] /\ roots[r].dynamics \in BOOLEAN
      /\ roots[r].receipt = [state |-> roots[r].receipt.state, body |-> roots[r].receipt.body]
  BY <1>1 DEF PairShape
<1> QED
  BY <1>1, <1>2, <1>3 DEF Known, PublishesIn, Publishes

\* A step of StepInRoot's form, from what the actions say of it.
LEMMA StepKnown ==
    ASSUME PairInv, Placed, NEW l \in Loads, NEW r \in Roots, Known(l, r),
           NEW new, NEW s, NEW o,
           After(l, r, new, s, o), ShapeAfter(new, s, o), OwnAfter(l, r, new, s, o),
           OthersAfter(l, r, new, s, o), RootAfter(l, r, new, o)
    PROVE  PairInv'
BY StepInRoot DEF Known

\* How a load's step is written when it leaves something alone, or changes one root.
LEMMA AfterIs ==
    ASSUME PairInv, NEW l \in Loads, NEW r \in Roots
    PROVE  /\ own = [own EXCEPT ![l][r] = own[l][r]]
           /\ roots = [roots EXCEPT ![r] = roots[r]]
           /\ stage = [stage EXCEPT ![l] = stage[l]]
           /\ DOMAIN roots = Roots /\ DOMAIN stage = Loads /\ DOMAIN own = Loads
           /\ DOMAIN own[l] = Roots
<1>1. PairShape
  BY DEF PairInv
<1>2. own \in [Loads -> [Roots -> SUBSET Made]] /\ stage \in [Loads -> StageSet]
  BY <1>1 DEF PairShape, Made
<1>3. own[l] \in [Roots -> SUBSET Made]
  BY <1>2
<1>4. own[l] = [own[l] EXCEPT ![r] = own[l][r]]
  BY <1>3
<1>5. own = [own EXCEPT ![l] = own[l]]
  BY <1>2
<1>6. stage = [stage EXCEPT ![l] = stage[l]]
  BY <1>2
<1>7. roots = [roots EXCEPT ![r] = roots[r]] /\ DOMAIN roots = Roots
  BY <1>1 DEF PairShape
<1> QED
  BY <1>2, <1>3, <1>4, <1>5, <1>6, <1>7, Zenon

\* dynamics/ is made, if it is not there.
LEMMA MakeDynamicsPair ==
    ASSUME PairInv, Placed, NEW l \in Loads, NEW r \in Roots, PublishesIn(l, r), load' = load,
           MakeDynamics(l, r)
    PROVE  PairInv'
<1> DEFINE new == [roots[r] EXCEPT !.dynamics = TRUE]
           s == [do |-> "absent", of |-> "pair"]
           o == IF roots[r].dynamics THEN own[l][r] ELSE own[l][r] \union {"dynamics"}
<1>0. Known(l, r) /\ Publishes(l, r)
  BY PublishKnows
<1>1. /\ new = [x \in RootFields |-> new[x]] /\ new.dynamics = TRUE /\ new.dirs = roots[r].dirs
      /\ new.sealed = roots[r].sealed /\ new.receipt = roots[r].receipt
  BY <1>0 DEF RootFields, Known
<1>2. After(l, r, new, s, o)
  BY AfterIs DEF MakeDynamics, Owning, After, Now
<1>3. s.do = "absent" /\ s.of = "pair" /\ s \in StageSet
  BY DEF StageSet
<1>4. /\ "directory" \in o <=> "directory" \in own[l][r]
      /\ "artifact" \in o <=> "artifact" \in own[l][r]
      /\ "receipt" \in o <=> "receipt" \in own[l][r]
      /\ o \subseteq Made
  BY <1>0 DEF Made, Known
<1> HIDE DEF new, s, o
<1>5. ShapeAfter(new, s, o)
  BY <1>0, <1>1, <1>3, <1>4 DEF ShapeAfter, Known
<1>6. OwnAfter(l, r, new, s, o)
  BY <1>0, <1>1, <1>3, <1>4 DEF OwnAfter, OwnIs, Known
<1>7. OthersAfter(l, r, new, s, o)
  BY <1>1, <1>3, <1>4 DEF OthersAfter, Holds
<1>8. RootAfter(l, r, new, o)
  BY <1>0, <1>1, <1>4 DEF RootAfter, RootIs, Known
<1> QED
  BY <1>0, <1>2, <1>5, <1>6, <1>7, <1>8, StepKnown

\* A load goes on, or gives up, with nothing but its temporary files changed.
LEMMA MovesOn ==
    ASSUME PairInv, Placed, NEW l \in Loads, NEW r \in Roots, PublishesIn(l, r), load' = load,
           NEW new, new = [x \in RootFields |-> new[x]],
           \A x \in RootFields \ {"temps", "open"} : new[x] = roots[r][x],
           NEW s \in StageSet, roots' = [roots EXCEPT ![r] = new],
           stage' = [stage EXCEPT ![l] = s], own' = own,
           \/ s.of = "pair" /\ s.do # "published"
           \/ s.of = stage[l].of /\ s.do \notin {"rename", "seal", "published"}
           \/ s.of = stage[l].of /\ s.of = "artifact"
    PROVE  PairInv'
<1> DEFINE o == own[l][r]
<1>0. Known(l, r) /\ Publishes(l, r)
  BY PublishKnows
<1>1. /\ new.dynamics = roots[r].dynamics /\ new.dirs = roots[r].dirs
      /\ new.sealed = roots[r].sealed /\ new.receipt = roots[r].receipt
  BY DEF RootFields
<1>2. After(l, r, new, s, o)
  BY AfterIs DEF After
<1>3. s = [do |-> s.do, of |-> s.of] /\ stage[l] = [do |-> stage[l].do, of |-> stage[l].of]
  BY <1>0 DEF StageSet, Known
<1>4. ShapeAfter(new, s, o)
  BY <1>0, <1>1 DEF ShapeAfter, Known
<1>5. OwnAfter(l, r, new, s, o)
  <2>1. s.of = "pair" \/ s.of = stage[l].of
    OBVIOUS
  <2>2. /\ s # [do |-> "rename", of |-> "receipt"] /\ s # [do |-> "seal", of |-> "receipt"]
        /\ s # [do |-> "published", of |-> "pair"]
    OBVIOUS
  <2>3. load[l].phase \in {"scratch", "evidence"} /\ r = RootOf(l, load[l].phase)
    BY <1>0, ZenonT(60) DEF Known, Publishes
  <2>4. /\ stage[l].of \in {"artifact", "receipt"} => "directory" \in own[l][r]
        /\ stage[l].of = "receipt" => "artifact" \in own[l][r]
    BY <1>0, <2>3 DEF Known, StageIs
  <2> QED BY <1>0, <1>1, <2>1, <2>2, <2>4 DEF OwnAfter, OwnIs, Known
<1>6. OthersAfter(l, r, new, s, o)
  BY <1>1, <1>3 DEF OthersAfter, Holds
<1>7. RootAfter(l, r, new, o)
  BY <1>0, <1>1 DEF RootAfter, RootIs, Known
<1> QED
  BY <1>0, <1>2, <1>4, <1>5, <1>6, <1>7, StepKnown

\* The steps before a file's: the receipt's place is looked at, the directory made.
LEMMA MakeDirectoryPair ==
    ASSUME PairInv, Placed, NEW l \in Loads, NEW r \in Roots, PublishesIn(l, r), load' = load,
           ReceiptAbsent(l, r) \/ MakeDirectory(l, r, Artifact(l))
    PROVE  PairInv'
<1>0. Known(l, r) /\ Publishes(l, r)
  BY PublishKnows
<1>1. roots[r] = [x \in RootFields |-> roots[r][x]]
  BY <1>0 DEF Known
<1>2. \A what \in {"directory", "failed"} : [do |-> what, of |-> "pair"] \in StageSet
  BY DEF StageSet
<1>3. ASSUME NEW what \in {"directory", "failed"}, Now(l, "pair", what), UNCHANGED << roots, own >>
      PROVE  PairInv'
  <2> DEFINE s == [do |-> what, of |-> "pair"]
  <2>1. s \in StageSet /\ s.of = "pair" /\ s.do # "published"
    BY <1>2
  <2>2. stage' = [stage EXCEPT ![l] = s]
    BY <1>3 DEF Now
  <2>3. roots' = [roots EXCEPT ![r] = roots[r]] /\ own' = own
    BY <1>3, AfterIs
  <2> HIDE DEF s
  <2> QED BY <1>1, <2>1, <2>2, <2>3, MovesOn
<1>4. CASE ReceiptAbsent(l, r)
  BY <1>3, <1>4 DEF ReceiptAbsent
<1>5. CASE MakeDirectory(l, r, Artifact(l))
  <2>1. CASE ~(roots[r].dynamics /\ Artifact(l) \notin roots[r].dirs)
    BY <1>3, <1>5, <2>1 DEF MakeDirectory
  <2>2. CASE roots[r].dynamics /\ Artifact(l) \notin roots[r].dirs
    <3> DEFINE new == [roots[r] EXCEPT !.dirs = @ \union {Artifact(l)}]
               s == [do |-> "write", of |-> "artifact"]
               o == own[l][r] \union {"directory"}
    <3>1. After(l, r, new, s, o)
      BY <1>5, <2>2 DEF After, MakeDirectory, Owning, Now
    <3>2. /\ new = [x \in RootFields |-> new[x]] /\ new.dynamics = roots[r].dynamics
          /\ new.dirs = roots[r].dirs \union {Artifact(l)}
          /\ new.sealed = roots[r].sealed /\ new.receipt = roots[r].receipt
      BY <1>1 DEF RootFields
    <3>3. s.do = "write" /\ s.of = "artifact" /\ s \in StageSet
      BY DEF StageSet
    <3>4. /\ "directory" \in o /\ o \subseteq Made
          /\ "artifact" \in o <=> "artifact" \in own[l][r]
          /\ "receipt" \in o <=> "receipt" \in own[l][r]
      BY <1>0 DEF Made, Known
    <3> HIDE DEF new, s, o
    <3>5. ShapeAfter(new, s, o)
      BY <1>0, <3>2, <3>3, <3>4 DEF ShapeAfter, Known
    <3>6. OwnAfter(l, r, new, s, o)
      BY <1>0, <3>2, <3>3, <3>4 DEF OwnAfter, OwnIs, Known
    <3>7. OthersAfter(l, r, new, s, o)
      BY <2>2, <3>2, <3>3, <3>4 DEF OthersAfter, Holds
    <3>8. RootAfter(l, r, new, o)
      BY <1>0, <2>2, <3>2, <3>4 DEF RootAfter, RootIs, Known
    <3> QED
      BY <1>0, <3>1, <3>5, <3>6, <3>7, <3>8, StepKnown
  <2> QED BY <2>1, <2>2
<1> QED
  BY <1>4, <1>5

\* A step that touches no more of a root than temporary files and open places.
LEMMA FilesMoveOn ==
    ASSUME PairInv, Placed, NEW l \in Loads, NEW r \in Roots, PublishesIn(l, r), load' = load,
           NEW ts, NEW os, NEW what, NEW kind, [do |-> what, of |-> kind] \in StageSet,
           \/ roots' = [roots EXCEPT ![r].temps = ts]
           \/ roots' = [[roots EXCEPT ![r].temps = ts] EXCEPT ![r].open = os]
           \/ roots' = [roots EXCEPT ![r].open = os],
           Now(l, kind, what), own' = own,
           \/ kind = "pair" /\ what # "published"
           \/ kind = stage[l].of /\ what \notin {"rename", "seal", "published"}
           \/ kind = stage[l].of /\ kind = "artifact"
    PROVE  PairInv'
<1> DEFINE s == [do |-> what, of |-> kind]
           n1 == [roots[r] EXCEPT !.temps = ts]
           n2 == [[roots[r] EXCEPT !.temps = ts] EXCEPT !.open = os]
           n3 == [roots[r] EXCEPT !.open = os]
<1>0. Known(l, r)
  BY PublishKnows
<1>1. s \in StageSet /\ s.do = what /\ s.of = kind /\ stage' = [stage EXCEPT ![l] = s]
  BY DEF Now
<1>2. \/ roots' = [roots EXCEPT ![r] = n1]
      \/ roots' = [roots EXCEPT ![r] = n2]
      \/ roots' = [roots EXCEPT ![r] = n3]
  BY AfterIs
<1>3. \A n \in {n1, n2, n3} : /\ n = [x \in RootFields |-> n[x]]
                              /\ \A x \in RootFields \ {"temps", "open"} : n[x] = roots[r][x]
  BY <1>0 DEF Known, RootFields
<1> HIDE DEF s, n1, n2, n3
<1>4. PICK n \in {n1, n2, n3} : roots' = [roots EXCEPT ![r] = n]
  BY <1>2
<1> QED
  BY <1>1, <1>3, <1>4, MovesOn

\* A temporary is written, a place reserved or found taken, the artifact renamed.
LEMMA FilePair ==
    ASSUME PairInv, Placed, NEW l \in Loads, NEW r \in Roots, PublishesIn(l, r), load' = load,
           NEW kind \in Kinds, NEW body,
           \/ WriteTemporary(l, r, Artifact(l), kind)
           \/ Reserve(l, r, Artifact(l), kind)
              /\ (Occupied(r, kind, Artifact(l)) \/ kind = "artifact")
           \/ Rename(l, r, Artifact(l), kind, body) /\ kind = "artifact"
           \/ PublishFails(l, r, Artifact(l), kind)
              /\ (Publishing(l, "receipt", "reserve") \/ kind = "artifact")
    PROVE  PairInv'
<1> DEFINE ts1 == roots[r].temps \union {<< l, kind, Artifact(l) >>}
           ts2 == roots[r].temps \ {<< l, kind, Artifact(l) >>}
           os1 == roots[r].open \union {Artifact(l)}
           os2 == roots[r].open \ {Artifact(l)}
<1>1. /\ \A k \in Kinds : \A w \in {"reserve", "rename", "seal"} : [do |-> w, of |-> k] \in StageSet
      /\ [do |-> "failed", of |-> "pair"] \in StageSet
      /\ kind \in {"artifact", "receipt"}
  BY DEF StageSet, Kinds
<1>2. CASE WriteTemporary(l, r, Artifact(l), kind)
  <2>1. roots' = [roots EXCEPT ![r].temps = ts1] /\ Now(l, kind, "reserve") /\ own' = own
        /\ stage[l] = [do |-> "write", of |-> kind]
    BY <1>2 DEF WriteTemporary, Publishing
  <2>2. stage[l].of = kind
    BY <2>1
  <2> HIDE DEF ts1
  <2> QED BY <1>1, <2>1, <2>2, FilesMoveOn
<1>3. CASE Reserve(l, r, Artifact(l), kind) /\ Occupied(r, kind, Artifact(l))
  <2>1. roots' = [roots EXCEPT ![r].temps = ts2] /\ Now(l, "pair", "failed") /\ own' = own
    BY <1>3 DEF Reserve, WithoutTemporary
  <2> HIDE DEF ts2
  <2> QED BY <1>1, <2>1, FilesMoveOn
<1>4. CASE /\ Reserve(l, r, Artifact(l), kind) /\ ~Occupied(r, kind, Artifact(l))
           /\ kind = "artifact"
  <2>1. roots' = [roots EXCEPT ![r].open = os1] /\ Now(l, kind, "rename") /\ own' = own
        /\ stage[l] = [do |-> "reserve", of |-> kind]
    BY <1>4 DEF Reserve, Publishing
  <2>2. stage[l].of = kind
    BY <2>1
  <2> HIDE DEF os1
  <2> QED BY <1>1, <1>4, <2>1, <2>2, FilesMoveOn
<1>5. CASE Rename(l, r, Artifact(l), kind, body) /\ kind = "artifact"
  <2>1. roots' = [roots EXCEPT ![r].temps = ts2] /\ Now(l, kind, "seal") /\ own' = own
        /\ stage[l] = [do |-> "rename", of |-> kind]
    BY <1>5 DEF Rename, WithoutTemporary, Publishing
  <2>2. stage[l].of = kind
    BY <2>1
  <2> HIDE DEF ts2
  <2> QED BY <1>1, <1>5, <2>1, <2>2, FilesMoveOn
<1>6. CASE /\ PublishFails(l, r, Artifact(l), kind)
           /\ (Publishing(l, "receipt", "reserve") \/ kind = "artifact")
  <2> DEFINE gone == WithoutTemporary(r, l, kind, Artifact(l))
  <2>1. /\ Now(l, "pair", "failed") /\ own' = own
        /\ \/ roots' = gone
           \/ roots' = [gone EXCEPT ![r].open = gone[r].open \ {Artifact(l)}]
    BY <1>6, <1>1 DEF PublishFails
  <2>2. DOMAIN roots = Roots /\ DOMAIN roots[r] = RootFields
    <3>1. Known(l, r)
      BY PublishKnows
    <3> QED BY <3>1, AfterIs DEF Known
  <2>3. gone = [roots EXCEPT ![r].temps = ts2] /\ gone[r].open = roots[r].open
    BY <2>2 DEF WithoutTemporary, RootFields
  <2> HIDE DEF gone
  <2>4. \/ roots' = [roots EXCEPT ![r].temps = ts2]
        \/ roots' = [[roots EXCEPT ![r].temps = ts2] EXCEPT ![r].open = os2]
    BY <2>1, <2>3
  <2> HIDE DEF ts2, os2
  <2> QED BY <1>1, <2>1, <2>4, FilesMoveOn
<1> QED
  BY <1>1, <1>2, <1>3, <1>4, <1>5, <1>6

\* The place of a receipt is reserved, given its contents, given up.
LEMMA ReceiptPair ==
    ASSUME PairInv, Placed, NEW l \in Loads, NEW r \in Roots, PublishesIn(l, r), load' = load,
           NEW ts, NEW rc, rc = [state |-> rc.state, body |-> rc.body],
           \/ roots' = [roots EXCEPT ![r].receipt = rc]
           \/ roots' = [[roots EXCEPT ![r].temps = ts] EXCEPT ![r].receipt = rc],
           own' = own, "receipt" \notin own[l][r],
           \/ /\ roots[r].receipt = NoReceipt /\ rc.state = "reserved"
              /\ stage[l].of = "receipt" /\ Now(l, "receipt", "rename")
           \/ /\ Holds(l, r) /\ rc = [state |-> "written", body |-> load[l].receipt]
              /\ stage[l].of = "receipt" /\ Now(l, "receipt", "seal")
           \/ /\ Holds(l, r) /\ rc = NoReceipt /\ Now(l, "pair", "failed")
    PROVE  PairInv'
<1> DEFINE o == own[l][r]
           n1 == [roots[r] EXCEPT !.receipt = rc]
           n2 == [[roots[r] EXCEPT !.temps = ts] EXCEPT !.receipt = rc]
<1>0. Known(l, r) /\ Publishes(l, r)
  BY PublishKnows
<1>1. DOMAIN roots = Roots /\ DOMAIN roots[r] = RootFields
  BY <1>0, AfterIs DEF Known
<1>2. roots' = [roots EXCEPT ![r] = n1] \/ roots' = [roots EXCEPT ![r] = n2]
  BY <1>1
<1>3. \A n \in {n1, n2} : /\ n = [x \in RootFields |-> n[x]] /\ n.dynamics = roots[r].dynamics
                          /\ n.dirs = roots[r].dirs /\ n.sealed = roots[r].sealed
                          /\ n.receipt = rc
  BY <1>1 DEF RootFields
<1> HIDE DEF n1, n2
<1>4. PICK new \in {n1, n2} : roots' = [roots EXCEPT ![r] = new]
  BY <1>2
<1>5. /\ new = [x \in RootFields |-> new[x]] /\ new.dynamics = roots[r].dynamics
      /\ new.dirs = roots[r].dirs /\ new.sealed = roots[r].sealed /\ new.receipt = rc
  BY <1>3, <1>4
<1>6. PICK w \in {"rename", "seal", "failed"}, k \in {"pair", "receipt"} :
         /\ Now(l, k, w)
         /\ w = "rename" => /\ k = "receipt" /\ roots[r].receipt = NoReceipt
                            /\ rc.state = "reserved" /\ stage[l].of = "receipt"
         /\ w = "seal" => /\ k = "receipt" /\ Holds(l, r) /\ stage[l].of = "receipt"
                          /\ rc = [state |-> "written", body |-> load[l].receipt]
         /\ w = "failed" => k = "pair" /\ Holds(l, r) /\ rc = NoReceipt
  OBVIOUS
<1> DEFINE s == [do |-> w, of |-> k]
<1>7. s.do = w /\ s.of = k /\ s \in StageSet
  BY DEF StageSet
<1>8. After(l, r, new, s, o)
  BY <1>4, <1>6, AfterIs DEF After, Now
<1>9. rc.state # "sealed"
  BY <1>6 DEF NoReceipt
<1>10. ShapeAfter(new, s, o)
  BY <1>0, <1>5, <1>7 DEF ShapeAfter, Known
<1>11. OwnAfter(l, r, new, s, o)
  <2>1. /\ s = [do |-> "published", of |-> "pair"] => FALSE
        /\ s = [do |-> "rename", of |-> "receipt"] => rc.state = "reserved"
        /\ s = [do |-> "seal", of |-> "receipt"] =>
             rc = [state |-> "written", body |-> load[l].receipt]
    <3>1. \A d, j : s = [do |-> d, of |-> j] => w = d /\ k = j
      OBVIOUS
    <3> HIDE DEF s
    <3>2. s = [do |-> "published", of |-> "pair"] => FALSE
      BY <1>6, <3>1
    <3>3. s = [do |-> "rename", of |-> "receipt"] => rc.state = "reserved"
      BY <1>6, <3>1
    <3>4. s = [do |-> "seal", of |-> "receipt"] =>
             rc = [state |-> "written", body |-> load[l].receipt]
      BY <1>6, <3>1, ZenonT(60)
    <3> QED BY <3>2, <3>3, <3>4
  <2>2. load[l].phase \in {"scratch", "evidence"} /\ r = RootOf(l, load[l].phase)
    BY <1>0, ZenonT(60) DEF Known, Publishes
  <2>3. k = "receipt" => "directory" \in own[l][r] /\ "artifact" \in own[l][r]
    BY <1>0, <1>6, <2>2 DEF Known, StageIs
  <2>4. s # Off => Publishes(l, r)
    BY <1>0
  <2> HIDE DEF s
  <2> QED BY <1>0, <1>5, <1>6, <1>7, <2>1, <2>3, <2>4 DEF OwnAfter, OwnIs, Known
<1> HIDE DEF s
<1>12. OthersAfter(l, r, new, s, o)
  BY <1>5, <1>6, <1>7 DEF OthersAfter
<1>13. RootAfter(l, r, new, o)
  BY <1>0, <1>5, <1>9 DEF RootAfter, RootIs, Known
<1> QED
  BY <1>0, <1>8, <1>10, <1>11, <1>12, <1>13, StepKnown

\* The receipt's file: its place is taken, or it is moved there, or that fails.
LEMMA ReceiptFilePair ==
    ASSUME PairInv, Placed, NEW l \in Loads, NEW r \in Roots, PublishesIn(l, r), load' = load,
           \/ Reserve(l, r, Artifact(l), "receipt") /\ ~Occupied(r, "receipt", Artifact(l))
           \/ Rename(l, r, Artifact(l), "receipt", load[l].receipt)
           \/ PublishFails(l, r, Artifact(l), "receipt") /\ ~Publishing(l, "receipt", "reserve")
    PROVE  PairInv'
<1> DEFINE ts == roots[r].temps \ {<< l, "receipt", Artifact(l) >>}
           r1 == [state |-> "reserved", body |-> Nothing]
           r2 == [state |-> "written", body |-> load[l].receipt]
<1>0. Known(l, r) /\ Publishes(l, r)
  BY PublishKnows
<1>1. DOMAIN roots = Roots /\ DOMAIN roots[r] = RootFields
  BY <1>0, AfterIs DEF Known
<1>2. load[l].phase \in {"scratch", "evidence"} /\ r = RootOf(l, load[l].phase)
      /\ StageIs(l) /\ OwnIs(l, r)
  BY <1>0 DEF Known, Publishes
<1>3. NoReceipt = [state |-> NoReceipt.state, body |-> NoReceipt.body]
      /\ NoReceipt.state = "absent"
  BY DEF NoReceipt
<1>4. CASE Reserve(l, r, Artifact(l), "receipt") /\ ~Occupied(r, "receipt", Artifact(l))
  <2>1. /\ roots' = [roots EXCEPT ![r].receipt = r1] /\ Now(l, "receipt", "rename") /\ own' = own
        /\ stage[l] = [do |-> "reserve", of |-> "receipt"] /\ roots[r].receipt = NoReceipt
    BY <1>4 DEF Reserve, Publishing, Occupied
  <2>2. stage[l].of = "receipt" /\ r1.state = "reserved"
        /\ r1 = [state |-> r1.state, body |-> r1.body]
    BY <2>1
  <2>3. "receipt" \notin own[l][r]
    BY <1>2, <1>3, <2>1 DEF OwnIs
  <2> HIDE DEF r1
  <2> QED BY <2>1, <2>2, <2>3, ReceiptPair
<1>5. CASE Rename(l, r, Artifact(l), "receipt", load[l].receipt)
  <2>1. /\ Publishing(l, "receipt", "rename") /\ Now(l, "receipt", "seal") /\ own' = own
        /\ roots' = [[roots EXCEPT ![r].temps = ts] EXCEPT ![r].receipt = r2]
    BY <1>5 DEF Rename, WithoutTemporary
  <2>2. stage[l].of = "receipt" /\ stage[l].do = "rename"
        /\ r2 = [state |-> r2.state, body |-> r2.body]
    BY <2>1 DEF Publishing
  <2>3. roots[r].receipt.state = "reserved" /\ Holds(l, r)
    BY <1>0, <1>2, <2>1, <2>2 DEF StageIs, Holds
  <2>4. "receipt" \notin own[l][r]
    BY <1>2, <2>3 DEF OwnIs
  <2>5. r2 = [state |-> "written", body |-> load[l].receipt]
    OBVIOUS
  <2> HIDE DEF r2, ts
  <2> QED BY <2>1, <2>2, <2>3, <2>4, <2>5, ReceiptPair
<1>6. CASE PublishFails(l, r, Artifact(l), "receipt") /\ ~Publishing(l, "receipt", "reserve")
  <2>1. /\ Publishing(l, "receipt", "rename") \/ Publishing(l, "receipt", "seal")
        /\ Now(l, "pair", "failed") /\ own' = own
        /\ roots' = [[roots EXCEPT ![r].temps = ts] EXCEPT ![r].receipt = NoReceipt]
    BY <1>6 DEF PublishFails, WithoutTemporary
  <2>2. stage[l].of = "receipt" /\ stage[l].do \in {"rename", "seal"}
    BY <2>1 DEF Publishing
  <2>3. roots[r].receipt.state \in {"reserved", "written"} /\ Holds(l, r)
    BY <1>0, <1>2, <2>1, <2>2 DEF StageIs, Holds
  <2>4. "receipt" \notin own[l][r]
    BY <1>2, <2>3 DEF OwnIs
  <2> HIDE DEF ts
  <2> QED BY <1>3, <2>1, <2>3, <2>4, ReceiptPair
<1> QED
  BY <1>4, <1>5, <1>6

\* A file is made read-only: the artifact, then the receipt.
LEMMA SealPair ==
    ASSUME PairInv, Placed, NEW l \in Loads, NEW r \in Roots, PublishesIn(l, r), load' = load,
           NEW kind \in Kinds, Seal(l, r, Artifact(l), kind)
    PROVE  PairInv'
<1> DEFINE a == Artifact(l)
           o == own[l][r] \union {kind}
<1>0. Known(l, r) /\ Publishes(l, r)
  BY PublishKnows
<1>1. DOMAIN roots = Roots /\ DOMAIN roots[r] = RootFields
  BY <1>0, AfterIs DEF Known
<1>2. load[l].phase \in {"scratch", "evidence"} /\ r = RootOf(l, load[l].phase)
      /\ StageIs(l) /\ OwnIs(l, r) /\ own[l][r] \subseteq Made
  BY <1>0 DEF Known, Publishes
<1>3. stage[l] = [do |-> "seal", of |-> kind] /\ own' = [own EXCEPT ![l][r] = o]
  BY DEF Seal, Publishing, Owning
<1>4. stage[l].of = kind /\ stage[l].do = "seal"
  BY <1>3
<1>5. CASE kind = "artifact"
  <2> DEFINE new == [[roots[r] EXCEPT !.open = @ \ {a}] EXCEPT !.sealed = @ \union {a}]
             s == [do |-> "write", of |-> "receipt"]
  <2>1. After(l, r, new, s, o)
    BY <1>5, <1>1, <1>3 DEF Seal, RootFields, After, Now
  <2>2. /\ new = [x \in RootFields |-> new[x]] /\ new.dynamics = roots[r].dynamics
        /\ new.dirs = roots[r].dirs /\ new.sealed = roots[r].sealed \union {a}
        /\ new.receipt = roots[r].receipt
    BY <1>1 DEF RootFields
  <2>3. s.do = "write" /\ s.of = "receipt" /\ s \in StageSet
    BY DEF StageSet
  <2>4. "directory" \in own[l][r]
    BY <1>2, <1>4, <1>5 DEF StageIs
  <2>5. /\ "directory" \in o /\ "artifact" \in o /\ o \subseteq Made
        /\ "receipt" \in o <=> "receipt" \in own[l][r]
    BY <1>2, <1>5, <2>4 DEF Made
  <2> HIDE DEF new, s, o
  <2>6. ShapeAfter(new, s, o)
    BY <1>0, <2>2, <2>3, <2>5 DEF ShapeAfter, Known
  <2>7. OwnAfter(l, r, new, s, o)
    BY <1>0, <1>2, <2>2, <2>3, <2>4, <2>5 DEF OwnAfter, OwnIs
  <2>8. OthersAfter(l, r, new, s, o)
    BY <2>2, <2>3, <2>4, <2>5 DEF OthersAfter, Holds
  <2>9. RootAfter(l, r, new, o)
    BY <1>0, <2>2, <2>4, <2>5 DEF RootAfter, RootIs, Known
  <2> QED
    BY <1>0, <2>1, <2>6, <2>7, <2>8, <2>9, StepKnown
<1>6. CASE kind = "receipt"
  <2> DEFINE rc == [state |-> "sealed", body |-> load[l].receipt]
             new == [roots[r] EXCEPT !.receipt = rc]
             s == [do |-> "published", of |-> "pair"]
  <2>0. roots[r].receipt = [state |-> "written", body |-> load[l].receipt]
    BY <1>2, <1>3, <1>6 DEF StageIs, Publishing
  <2>1. After(l, r, new, s, o)
    <3>1. roots' = [roots EXCEPT ![r].receipt.state = "sealed"]
      BY <1>6 DEF Seal
    <3>2. [roots[r].receipt EXCEPT !.state = "sealed"] = rc
      BY <2>0
    <3>3. roots' = [roots EXCEPT ![r] = new]
      BY <1>1, <3>1, <3>2
    <3> QED BY <1>3, <1>6, <3>3 DEF After, Seal, Now
  <2>2. /\ new = [x \in RootFields |-> new[x]] /\ new.dynamics = roots[r].dynamics
        /\ new.dirs = roots[r].dirs /\ new.sealed = roots[r].sealed
        /\ new.receipt = rc
    BY <1>1 DEF RootFields
  <2>3. /\ s.do = "published" /\ s.of = "pair" /\ s \in StageSet
        /\ rc.state = "sealed" /\ rc.body = load[l].receipt
        /\ rc = [state |-> rc.state, body |-> rc.body]
    BY DEF StageSet
  <2>4. "directory" \in own[l][r] /\ "artifact" \in own[l][r] /\ Holds(l, r)
    BY <1>0, <1>2, <1>4, <1>6 DEF StageIs, Holds
  <2>5. /\ "directory" \in o /\ "artifact" \in o /\ o \subseteq Made /\ "receipt" \in o
    BY <1>2, <1>6, <2>4 DEF Made
  <2>51. rc = [state |-> "sealed", body |-> load[l].receipt]
    OBVIOUS
  <2>52. s # [do |-> "rename", of |-> "receipt"] /\ s # [do |-> "seal", of |-> "receipt"]
    OBVIOUS
  <2> HIDE DEF new, s, o, rc
  <2>6. ShapeAfter(new, s, o)
    BY <1>0, <2>2, <2>3, <2>5 DEF ShapeAfter, Known
  <2>7. OwnAfter(l, r, new, s, o)
    BY <1>0, <1>2, <2>2, <2>3, <2>4, <2>5, <2>51, <2>52 DEF OwnAfter, OwnIs
  <2>8. OthersAfter(l, r, new, s, o)
    BY <2>2, <2>3, <2>4, <2>5 DEF OthersAfter
  <2>9. RootAfter(l, r, new, o)
    <3>1. load[l].receipt.artifact = Artifact(l) /\ Artifact(l) \in roots[r].dirs
          /\ Artifact(l) \in roots[r].sealed
      BY <1>2, <2>4 DEF OwnIs, PublishesIn
    <3>2. \A m \in Loads \ {l} : "directory" \in own[m][r] => Artifact(m) # Artifact(l)
      BY <1>0, <2>4 DEF Known, Apart
    <3> QED BY <1>0, <2>2, <2>3, <2>5, <3>1, <3>2 DEF RootAfter, RootIs, Known
  <2> QED
    BY <1>0, <2>1, <2>6, <2>7, <2>8, <2>9, StepKnown
<1> QED
  BY <1>5, <1>6 DEF Kinds

\* Publishing a pair.
LEMMA PublishPairInv ==
    ASSUME PairInv, Placed, NEW l \in Loads, NEW r \in Roots, PublishesIn(l, r), load' = load,
           Publish(l, r, Artifact(l), load[l].receipt)
    PROVE  PairInv'
<1>1. CASE MakeDynamics(l, r)
  BY <1>1, MakeDynamicsPair
<1>2. CASE ReceiptAbsent(l, r) \/ MakeDirectory(l, r, Artifact(l))
  BY <1>2, MakeDirectoryPair
<1>3. ASSUME NEW kind \in Kinds,
             \/ WriteTemporary(l, r, Artifact(l), kind)
             \/ Reserve(l, r, Artifact(l), kind)
             \/ Rename(l, r, Artifact(l), kind, load[l].receipt)
             \/ PublishFails(l, r, Artifact(l), kind)
      PROVE  PairInv'
  <2>1. CASE kind = "artifact"
    BY <1>3, <2>1, FilePair
  <2>2. CASE kind = "receipt"
    <3>1. CASE WriteTemporary(l, r, Artifact(l), kind)
      BY <3>1, FilePair
    <3>2. CASE Reserve(l, r, Artifact(l), kind)
      BY <2>2, <3>2, FilePair, ReceiptFilePair
    <3>3. CASE Rename(l, r, Artifact(l), kind, load[l].receipt)
      BY <2>2, <3>3, ReceiptFilePair
    <3>4. CASE PublishFails(l, r, Artifact(l), kind)
      BY <2>2, <3>4, FilePair, ReceiptFilePair
    <3> QED BY <1>3, <3>1, <3>2, <3>3, <3>4
  <2> QED BY <2>1, <2>2 DEF Kinds
<1> QED
  BY <1>1, <1>2, <1>3, SealPair DEF Publish

\* What a load takes away next: the receipt before the artifact, that before its
\* directory, that before dynamics/.
LEMMA NextOwnIs ==
    ASSUME NEW l \in Loads, NEW r \in Roots, own[l][r] \subseteq Made, own[l][r] # {}
    PROVE  /\ NextOwn(l, r) \in own[l][r]
           /\ NextOwn(l, r) \in Made
           /\ NextOwn(l, r) # "receipt" => "receipt" \notin own[l][r]
           /\ NextOwn(l, r) \in {"directory", "dynamics"} => "artifact" \notin own[l][r]
           /\ NextOwn(l, r) = "dynamics" => "directory" \notin own[l][r]
<1> DEFINE left == {i \in 1..4 : Removing[i] \in own[l][r]}
           n == CHOOSE i \in left : \A j \in left : i <= j
<1>1. /\ Removing[1] = "receipt" /\ Removing[2] = "artifact" /\ Removing[3] = "directory"
      /\ Removing[4] = "dynamics"
  BY DEF Removing
<1>2. left # {} /\ left \subseteq Nat
  <2>1. PICK w \in own[l][r] : TRUE
    OBVIOUS
  <2>2. w \in {"dynamics", "directory", "artifact", "receipt"}
    BY <2>1 DEF Made
  <2>3. \E i \in 1..4 : Removing[i] = w
    BY <1>1, <2>2
  <2> QED BY <2>1, <2>3
<1>3. n \in left /\ \A j \in left : n <= j
  <2> HIDE DEF left
  <2>1. \E i \in left : \A j \in left : i <= j
    BY <1>2, LeastExists
  <2> QED BY <2>1
<1>4. NextOwn(l, r) = Removing[n]
  BY DEF NextOwn
<1> HIDE DEF n
<1>5. n \in 1..4 /\ Removing[n] \in own[l][r]
      /\ \A j \in 1..4 : Removing[j] \in own[l][r] => n <= j
  BY <1>3
<1>6. n \in {1, 2, 3, 4}
  BY <1>5
<1> QED
  BY <1>1, <1>4, <1>5, <1>6 DEF Made

\* A load takes away what it made, and nothing else.
LEMMA RemovePair ==
    ASSUME PairInv, Placed, NEW l \in Loads, NEW r \in Roots, load' = load,
           load[l].phase = "cleanup", RemoveOwn(l, r, Artifact(l))
    PROVE  PairInv'
<1> DEFINE a == Artifact(l)
           what == NextOwn(l, r)
           o == own[l][r] \ {what}
           s == stage[l]
<1>0. /\ PairShape /\ OwnIs(l, r) /\ StageIs(l) /\ RootIs(r) /\ own[l][r] # {}
      /\ \A m \in Loads \ {l} : Apart(l, m, r)
  BY DEF PairInv, RemoveOwn
<1>1. /\ own[l][r] \subseteq Made /\ stage[l] \in StageSet /\ r \in Mine(l) /\ load[l].step >= 3
      /\ \A x : ~Publishes(l, x)
  BY <1>0 DEF PairShape, Made, OwnIs, Publishes
<1>2. stage[l] = Off
  BY <1>0 DEF StageIs, Publishing, Off
<1>3. /\ roots[r] = [x \in RootFields |-> roots[r][x]] /\ roots[r].dynamics \in BOOLEAN
      /\ roots[r].receipt = [state |-> roots[r].receipt.state, body |-> roots[r].receipt.body]
  BY <1>0 DEF PairShape
<1>4. Known(l, r)
  BY <1>0, <1>1, <1>3 DEF Known
<1>5. /\ what \in own[l][r] /\ what \in Made
      /\ what # "receipt" => "receipt" \notin own[l][r]
      /\ what \in {"directory", "dynamics"} => "artifact" \notin own[l][r]
      /\ what = "dynamics" => "directory" \notin own[l][r]
  BY <1>0, <1>1, NextOwnIs
<1>6. DOMAIN roots = Roots /\ DOMAIN roots[r] = RootFields
  BY <1>3, AfterIs
<1>7. /\ ~RemoveFails(r, a, what) /\ own' = [own EXCEPT ![l][r] = o] /\ stage' = stage
      /\ roots' = CASE what = "receipt" -> [roots EXCEPT ![r].receipt = NoReceipt]
                    [] what = "artifact" -> [roots EXCEPT ![r].sealed = @ \ {a}]
                    [] what = "directory" -> [roots EXCEPT ![r].dirs = @ \ {a}]
                    [] OTHER -> [roots EXCEPT ![r].dynamics = FALSE]
  BY DEF RemoveOwn
<1>8. stage' = [stage EXCEPT ![l] = s]
  BY <1>7, AfterIs
<1>9. /\ NoReceipt = [state |-> NoReceipt.state, body |-> NoReceipt.body]
      /\ NoReceipt.state = "absent"
  BY DEF NoReceipt
<1>10. s = Off /\ s = [do |-> "off", of |-> "pair"] /\ s.do = "off" /\ s.of = "pair" /\ s \in StageSet
       /\ s # [do |-> "rename", of |-> "receipt"] /\ s # [do |-> "seal", of |-> "receipt"]
       /\ s # [do |-> "published", of |-> "pair"]
  BY <1>1, <1>2 DEF Off
<1> HIDE DEF what, s
<1>11. CASE what = "receipt"
  <2> DEFINE new == [roots[r] EXCEPT !.receipt = NoReceipt]
  <2>1. /\ new = [x \in RootFields |-> new[x]] /\ new.dynamics = roots[r].dynamics
        /\ new.dirs = roots[r].dirs /\ new.sealed = roots[r].sealed /\ new.receipt = NoReceipt
    BY <1>6 DEF RootFields
  <2>2. After(l, r, new, s, o)
    BY <1>6, <1>7, <1>8, <1>11 DEF After
  <2>3. "receipt" \notin o /\ Holds(l, r) /\ o \subseteq own[l][r] /\ o \subseteq Made
        /\ ("artifact" \in o <=> "artifact" \in own[l][r])
        /\ ("directory" \in o <=> "directory" \in own[l][r])
    BY <1>1, <1>5, <1>11 DEF Holds
  <2> HIDE DEF new, o
  <2>4. ShapeAfter(new, s, o)
    BY <1>3, <1>9, <1>10, <2>1, <2>3 DEF ShapeAfter
  <2>5. OwnAfter(l, r, new, s, o)
    BY <1>0, <1>10, <2>1, <2>3 DEF OwnAfter, OwnIs
  <2>6. OthersAfter(l, r, new, s, o)
    BY <1>10, <2>1, <2>3 DEF OthersAfter
  <2>7. RootAfter(l, r, new, o)
    BY <1>0, <1>9, <2>1 DEF RootAfter, RootIs
  <2> QED BY <1>4, <2>2, <2>4, <2>5, <2>6, <2>7, StepKnown
<1>12. CASE what = "artifact"
  <2> DEFINE new == [roots[r] EXCEPT !.sealed = @ \ {a}]
  <2>1. /\ new = [x \in RootFields |-> new[x]] /\ new.dynamics = roots[r].dynamics
        /\ new.dirs = roots[r].dirs /\ new.sealed = roots[r].sealed \ {a}
        /\ new.receipt = roots[r].receipt
    BY <1>6 DEF RootFields
  <2>2. After(l, r, new, s, o)
    BY <1>6, <1>7, <1>8, <1>12 DEF After
  <2>3. /\ "receipt" \notin o /\ "artifact" \notin o /\ o \subseteq own[l][r] /\ o \subseteq Made
        /\ "directory" \in o /\ "directory" \in own[l][r] /\ "receipt" \notin own[l][r]
    BY <1>0, <1>1, <1>5, <1>12 DEF OwnIs
  <2> HIDE DEF new, o
  <2>4. ShapeAfter(new, s, o)
    BY <1>3, <1>10, <2>1, <2>3 DEF ShapeAfter
  <2>5. OwnAfter(l, r, new, s, o)
    BY <1>0, <1>10, <2>1, <2>3 DEF OwnAfter, OwnIs
  <2>6. OthersAfter(l, r, new, s, o)
    BY <1>10, <2>1, <2>3 DEF OthersAfter
  <2>7. RootAfter(l, r, new, o)
    BY <1>0, <2>1, <2>3 DEF RootAfter, RootIs
  <2> QED BY <1>4, <2>2, <2>4, <2>5, <2>6, <2>7, StepKnown
<1>13. CASE what = "directory"
  <2> DEFINE new == [roots[r] EXCEPT !.dirs = @ \ {a}]
  <2>1. /\ new = [x \in RootFields |-> new[x]] /\ new.dynamics = roots[r].dynamics
        /\ new.dirs = roots[r].dirs \ {a} /\ new.sealed = roots[r].sealed
        /\ new.receipt = roots[r].receipt
    BY <1>6 DEF RootFields
  <2>2. After(l, r, new, s, o)
    BY <1>6, <1>7, <1>8, <1>13 DEF After
  <2>3. /\ "receipt" \notin o /\ "artifact" \notin o /\ o \subseteq own[l][r] /\ o \subseteq Made
        /\ "directory" \notin o /\ "directory" \in own[l][r] /\ "receipt" \notin own[l][r]
    BY <1>0, <1>1, <1>5, <1>13 DEF OwnIs
  <2> HIDE DEF new, o
  <2>4. ShapeAfter(new, s, o)
    BY <1>3, <1>10, <2>1, <2>3 DEF ShapeAfter
  <2>5. OwnAfter(l, r, new, s, o)
    BY <1>0, <1>10, <2>1, <2>3 DEF OwnAfter, OwnIs
  <2>6. OthersAfter(l, r, new, s, o)
    BY <1>10, <2>1, <2>3 DEF OthersAfter
  <2>7. RootAfter(l, r, new, o)
    BY <1>0, <2>1, <2>3 DEF RootAfter, RootIs
  <2> QED BY <1>4, <2>2, <2>4, <2>5, <2>6, <2>7, StepKnown
<1>14. CASE what = "dynamics"
  <2> DEFINE new == [roots[r] EXCEPT !.dynamics = FALSE]
  <2>0. roots[r].dirs = {} /\ roots[r].receipt = NoReceipt
    BY <1>7, <1>14 DEF RemoveFails
  <2>1. /\ new = [x \in RootFields |-> new[x]] /\ new.dynamics = FALSE
        /\ new.dirs = roots[r].dirs /\ new.sealed = roots[r].sealed
        /\ new.receipt = roots[r].receipt
    BY <1>6 DEF RootFields
  <2>2. After(l, r, new, s, o)
    BY <1>6, <1>7, <1>8, <1>14 DEF After
  <2>3. /\ "receipt" \notin o /\ "artifact" \notin o /\ o \subseteq own[l][r] /\ o \subseteq Made
        /\ "directory" \notin o
    BY <1>0, <1>1, <1>5, <1>14
  <2> HIDE DEF new, o
  <2>4. ShapeAfter(new, s, o)
    BY <1>3, <1>10, <2>1, <2>3 DEF ShapeAfter
  <2>5. OwnAfter(l, r, new, s, o)
    BY <1>0, <1>10, <2>1, <2>3 DEF OwnAfter, OwnIs
  <2>6. OthersAfter(l, r, new, s, o)
    BY <1>10, <2>1, <2>3 DEF OthersAfter
  <2>7. RootAfter(l, r, new, o)
    BY <1>9, <2>0, <2>1 DEF RootAfter
  <2> QED BY <1>4, <2>2, <2>4, <2>5, <2>6, <2>7, StepKnown
<1> QED
  BY <1>5, <1>11, <1>12, <1>13, <1>14 DEF Made

\* The scratch root goes; no other load ever makes anything there.
LEMMA RemoveScratchPair ==
    ASSUME PairInv, Placed, NEW l \in Loads, load[l].phase = "cleanup", own[l][Scratch[l]] = {},
           roots' = [roots EXCEPT ![Scratch[l]] = EmptyRoot],
           \A m \in Loads \ {l} : load'[m] = load[m],
           Artifact(l)' = Artifact(l), load'[l].phase = "done", load'[l].step = load[l].step,
           load'[l].receipt = load[l].receipt, stage' = stage, own' = own
    PROVE  PairInv'
<1> DEFINE r == Scratch[l]
<1>0. r \in Roots /\ PairShape
  BY RootsAssumption DEF PairInv
<1>1. /\ \A m \in Loads : own[m][r] = {}
      /\ \A m \in Loads \ {l} : ~Publishes(m, r)
  <2>1. \A m \in Loads \ {l} : r \notin Mine(m)
    BY RootsAssumption DEF Mine
  <2>2. \A m \in Loads \ {l} : own[m][r] = {}
    BY <1>0, <2>1 DEF PairInv, OwnIs
  <2>3. \A m \in Loads \ {l} : ~Publishes(m, r)
    BY RootsAssumption DEF Publishes, RootOf
  <2> QED BY <2>2, <2>3
<1>2. /\ DOMAIN roots = Roots /\ roots'[r] = EmptyRoot /\ DOMAIN roots' = Roots
      /\ \A x \in Roots \ {r} : roots'[x] = roots[x]
      /\ EmptyRoot = [x \in RootFields |-> EmptyRoot[x]] /\ EmptyRoot.dynamics = FALSE
      /\ EmptyRoot.dirs = {} /\ EmptyRoot.receipt = NoReceipt
      /\ NoReceipt = [state |-> NoReceipt.state, body |-> NoReceipt.body]
      /\ NoReceipt.state = "absent"
  BY <1>0 DEF PairShape, EmptyRoot, RootFields, NoReceipt
<1>3. PairShape'
  <2>1. \A x \in Roots : /\ roots'[x] = [y \in RootFields |-> roots'[x][y]]
                         /\ roots'[x].dynamics \in BOOLEAN
                         /\ roots'[x].receipt = [state |-> roots'[x].receipt.state,
                                                 body |-> roots'[x].receipt.body]
    <3> SUFFICES ASSUME NEW x \in Roots
                 PROVE /\ roots'[x] = [y \in RootFields |-> roots'[x][y]]
                       /\ roots'[x].dynamics \in BOOLEAN
                       /\ roots'[x].receipt = [state |-> roots'[x].receipt.state,
                                               body |-> roots'[x].receipt.body]
      OBVIOUS
    <3>1. CASE x = r
      BY <1>2, <3>1
    <3>2. CASE x # r
      <4>1. roots[x] = [y \in RootFields |-> roots[x][y]]
        BY <1>0 DEF PairShape
      <4>2. roots'[x] = roots[x]
        BY <1>2, <3>2
      <4> QED BY <1>0, <4>1, <4>2 DEF PairShape
    <3> QED BY <3>1, <3>2
  <2>2. roots' = [x \in Roots |-> roots'[x]]
    BY <1>2
  <2> QED BY <1>0, <2>1, <2>2 DEF PairShape
<1>4. \A m \in Loads : Artifact(m)' = Artifact(m)
  BY SameLoad
<1>5. ASSUME NEW m \in Loads PROVE StageIs(m)'
  <2>0. StageIs(m)
    BY DEF PairInv
  <2>1. CASE m = l
    BY <2>0, <2>1 DEF StageIs, Publishing
  <2>2. CASE m # l /\ load[m].phase \in {"scratch", "evidence"}
    <3> DEFINE p == RootOf(m, load[m].phase)
    <3>1. p \in Roots /\ p # r
      BY <1>1, <2>2, RootsAssumption DEF Placed, RootOf, Publishes
    <3>2. roots'[p] = roots[p]
      BY <1>2, <3>1
    <3> QED BY <2>0, <2>2, <3>2 DEF StageIs, Publishing, RootOf
  <2>3. CASE m # l /\ load[m].phase \notin {"scratch", "evidence"}
    BY <2>0, <2>3 DEF StageIs, Publishing
  <2> QED BY <2>1, <2>2, <2>3
<1>6. ASSUME NEW m \in Loads, NEW x \in Roots PROVE OwnIs(m, x)'
  <2>1. CASE x = r
    BY <1>1, <2>1 DEF OwnIs
  <2>2. CASE x # r
    BY <1>2, <2>2, <1>4 DEF PairInv, OwnIs, Mine
  <2> QED BY <2>1, <2>2
<1>7. ASSUME NEW x \in Roots PROVE RootIs(x)'
  <2>1. CASE x = r
    BY <1>2, <2>1 DEF RootIs
  <2>2. CASE x # r
    BY <1>2, <2>2, <1>4 DEF PairInv, RootIs
  <2> QED BY <2>1, <2>2
<1>8. ASSUME NEW m \in Loads, NEW n \in Loads, m # n, NEW x \in Roots PROVE Apart(m, n, x)'
  BY <1>8, SameLoad, <1>4 DEF PairInv, Holds, Publishes, Apart
<1> QED
  BY <1>3, <1>5, <1>6, <1>7, <1>8 DEF PairInv

-----------------------------------------------------------------------------
(* Where a load is in its script, and whether its sources are in use. *)

DynamicsInv == SourcesInv /\ LoadsInv

\* Everybody is where he was.
LEMMA PairSame ==
    ASSUME PairInv, roots' = roots, stage' = stage, own' = own, load' = load
    PROVE  PairInv'
<1>1. \A m \in Loads : /\ Artifact(m)' = Artifact(m)
                       /\ \A r : Holds(m, r)' = Holds(m, r)
  BY SameLoad
<1>2. PairShape'
  BY DEF PairInv, PairShape
<1>3. \A m \in Loads : StageIs(m)'
  BY DEF PairInv, StageIs, Publishing, RootOf
<1>4. \A m \in Loads, r \in Roots : OwnIs(m, r)'
  BY <1>1 DEF PairInv, OwnIs, Mine
<1>5. \A r \in Roots : RootIs(r)'
  BY <1>1 DEF PairInv, RootIs
<1>6. \A m, n \in Loads : m # n => \A r \in Roots : Apart(m, n, r)'
  BY <1>1 DEF PairInv, Apart
<1> QED
  BY <1>2, <1>3, <1>4, <1>5, <1>6 DEF PairInv

\* A load that does not move is where it was in its script.
LEMMA ScriptStays ==
    ASSUME NEW m \in Loads, load'[m] = load[m], own'[m] = own[m], ScriptIs(m)
    PROVE  ScriptIs(m)'
<1>1. Artifact(m)' = Artifact(m)
  BY SameLoad
<1> QED
  BY <1>1 DEF ScriptIs, ImportStep, Script, InOrder

\* What it looked at stays stale.
LEMMA CurrentStays ==
    ASSUME NEW m \in Loads, load'[m] = load[m], CurrentIs(m),
           \A f \in Inputs(m) : Stale(m, f) => Stale(m, f)'
    PROVE  CurrentIs(m)'
<1>1. Inputs(m)' = Inputs(m)
  BY SameLoad
<1> QED
  BY <1>1 DEF CurrentIs, ImportStep, Single, Covers

\* A step of one load concerns that load.
LEMMA OneLoad ==
    ASSUME DynamicsInv, NEW l \in Loads, SourcesInv', PairInv', ScriptIs(l)', CurrentIs(l)',
           disk' = disk, \A m \in Loads \ {l} : load'[m] = load[m] /\ own'[m] = own[m]
    PROVE  DynamicsInv'
<1>1. \A m \in Loads \ {l} : ScriptIs(m)'
  BY ScriptStays DEF DynamicsInv, LoadsInv
<1>2. \A m \in Loads \ {l} : CurrentIs(m)'
  <2> SUFFICES ASSUME NEW m \in Loads \ {l} PROVE CurrentIs(m)'
    OBVIOUS
  <2>1. \A f : Stale(m, f)' = Stale(m, f)
    BY DEF Stale
  <2> QED BY <2>1, CurrentStays DEF DynamicsInv, LoadsInv
<1> QED
  BY <1>1, <1>2 DEF DynamicsInv, LoadsInv

\* The invariant holds at the start.
LEMMA DynamicsStarts == Init => DynamicsInv
<1> SUFFICES ASSUME Init PROVE DynamicsInv
  OBVIOUS
<1>1. DiskInv
  BY VersionsAssumption DEF Init, DiskInv
<1>2. \A l \in Loads : load[l] = Idle
  BY DEF Init
<1>3. LoadShape
  BY DEF Init, LoadShape, Idle, LoadFields
<1>4. \A l \in Loads : ReadInv(l)
  BY <1>1, <1>2 DEF Idle, ReadInv, ReadSets, ReadBytes, ReadBound, ReadTogether, LoadPhases,
                    Early, Walks, DiskInv
<1>5. /\ \A l \in Loads : stage[l] = Off
      /\ \A l \in Loads, r \in Roots : own[l][r] = {}
      /\ \A r \in Roots : roots[r] = EmptyRoot
      /\ EmptyRoot.dirs = {} /\ EmptyRoot.receipt = NoReceipt /\ NoReceipt.state = "absent"
  BY DEF Init, PairInit, Off, EmptyRoot, NoReceipt
<1>6. PairShape
  BY DEF Init, PairInit, PairShape, StageSet, EmptyRoot, NoReceipt, RootFields
<1>7. PairInv
  BY <1>2, <1>5, <1>6 DEF PairInv, StageIs, OwnIs, RootIs, Apart, Holds, Publishes, Publishing,
                         Off, Idle
<1>8. \A l \in Loads : ScriptIs(l) /\ CurrentIs(l)
  BY <1>2 DEF ScriptIs, CurrentIs, Idle, Scripted, Examining, ImportStep
<1> QED
  BY <1>1, <1>3, <1>4, <1>7, <1>8 DEF DynamicsInv, SourcesInv, LoadsInv

\* An edit.
LEMMA EditKeeps ==
    ASSUME DynamicsInv, NEW f \in Editable, Edit(f)
    PROVE  DynamicsInv'
<1>0. SourcesInv /\ PairInv
  BY DEF DynamicsInv, LoadsInv
<1>1. load' = load /\ roots' = roots /\ stage' = stage /\ own' = own
  BY DEF Edit, pairVars
<1>2. SourcesInv' /\ PairInv'
  BY <1>0, <1>1, EditRead, PairSame
<1>3. ASSUME NEW l \in Loads PROVE ScriptIs(l)' /\ CurrentIs(l)'
  <2>1. ScriptIs(l) /\ CurrentIs(l)
    BY DEF DynamicsInv, LoadsInv
  <2>2. \A g \in Files : load[l].retained[g] \in Nat /\ disk[g].version \in Nat
    BY <1>0 DEF ReadInv, ReadSets, SourcesInv, DiskInv
  <2>3. \A g \in Files : \/ disk'[g] = disk[g]
                         \/ /\ disk'[g].version = disk[g].version + 1 /\ disk'[g].there
                         \/ /\ disk'[g].version = disk[g].version /\ ~disk'[g].there
    BY <1>0, EditIs
  <2>4. \A g \in Files : Stale(l, g) => Stale(l, g)'
    BY <1>1, <2>2, <2>3 DEF Stale
  <2>5. Inputs(l) \subseteq Files
    BY <1>0, SourcesAssumption DEF SourcesInv, ReadInv, ReadSets, Inputs, Sources
  <2> QED BY <1>1, <2>1, <2>4, <2>5, ScriptStays, CurrentStays
<1> QED
  BY <1>2, <1>3 DEF DynamicsInv, LoadsInv

\* A load that still reads has nothing in any root.
LEMMA EarlyKnows ==
    ASSUME DynamicsInv, NEW l \in Loads, load[l].phase \in Early
    PROVE  /\ load[l].step = 0 /\ stage[l] = Off /\ \A r \in Roots : own[l][r] = {}
           /\ load[l].outcome = "none"
<1>1. load[l].step = 0
  BY DEF DynamicsInv, SourcesInv, ReadInv, ReadTogether
<1>2. \A r \in Roots : own[l][r] = {}
  <2> SUFFICES ASSUME NEW r \in Roots PROVE own[l][r] = {}
    OBVIOUS
  <2>1. OwnIs(l, r)
    BY DEF DynamicsInv, LoadsInv, PairInv
  <2> QED BY <1>1, <2>1 DEF OwnIs
<1>3. load[l].phase \notin {"scratch", "evidence"}
  BY DEF Early, Walks
<1>4. stage[l] = Off
  BY <1>3 DEF DynamicsInv, LoadsInv, PairInv, StageIs, Publishing, Off
<1> QED
  BY <1>1, <1>2, <1>4 DEF DynamicsInv, LoadsInv, ScriptIs

\* A step of a load in which it does nothing in the roots.
LEMMA LoadMoves ==
    ASSUME DynamicsInv, NEW l \in Loads, SourcesInv', ScriptIs(l)', CurrentIs(l)',
           disk' = disk, \A m \in Loads \ {l} : load'[m] = load[m],
           roots' = roots, own' = own,
           (stage' = stage /\ stage[l] = Off) \/ stage' = [stage EXCEPT ![l] = Off],
           \/ \A r \in Roots : own[l][r] = {}
           \/ /\ load'[l].code = load[l].code /\ load'[l].typed = load[l].typed
              /\ load'[l].retained = load[l].retained /\ load'[l].receipt = load[l].receipt
              /\ load'[l].step >= 3
    PROVE  DynamicsInv'
<1>0. PairInv /\ PairShape
  BY DEF DynamicsInv, LoadsInv, PairInv
<1>1. /\ \A m \in Loads \ {l} : stage'[m] = stage[m]
      /\ stage' \in [Loads -> StageSet] /\ stage'[l] = Off
  <2>1. Off \in StageSet
    BY DEF StageSet, Off
  <2>2. stage \in [Loads -> StageSet]
    BY <1>0 DEF PairShape
  <2> QED BY <2>1, <2>2
<1>2. own' \in [Loads -> [Roots -> SUBSET {"dynamics", "directory", "artifact", "receipt"}]]
  BY <1>0 DEF PairShape
<1>3. \/ \A r \in Roots : own'[l][r] = {}
      \/ /\ Artifact(l)' = Artifact(l) /\ load'[l].receipt = load[l].receipt
         /\ load'[l].step >= 3
  BY ArtifactStays
<1>4. PairInv'
  BY <1>0, <1>1, <1>2, <1>3, PairStays
<1> QED
  BY <1>4, OneLoad

\* A load that reads goes on reading, or ends.
LEMMA EarlyMoves ==
    ASSUME DynamicsInv, NEW l \in Loads, load[l].phase \in Early, SourcesInv',
           disk' = disk, \A m \in Loads \ {l} : load'[m] = load[m],
           roots' = roots, own' = own,
           stage' = stage \/ stage' = [stage EXCEPT ![l] = Off],
           load'[l].step = load[l].step,
           \/ load'[l].phase \in Early /\ load'[l].outcome = load[l].outcome
           \/ load'[l].phase = "done" /\ load'[l].outcome = "failed"
           \/ /\ load'[l].phase = "cleanup" /\ load'[l].outcome = "failed"
              /\ load'[l].clean = << Scratch[l] >>
    PROVE  DynamicsInv'
<1>1. /\ load[l].step = 0 /\ stage[l] = Off /\ \A r \in Roots : own[l][r] = {}
      /\ load[l].outcome = "none"
  BY EarlyKnows
<1>2. \A p \in Early : p \notin Scripted /\ p \notin Examining /\ p # "cleanup"
  BY DEF Early, Scripted, Walks, Examining
<1>3. ScriptIs(l)'
  BY <1>1, <1>2 DEF ScriptIs, Scripted, Early, Walks, Examining
<1>4. CurrentIs(l)'
  BY <1>1 DEF CurrentIs, ImportStep
<1> QED
  BY <1>1, <1>3, <1>4, LoadMoves

\* The steps in which a load reads.
LEMMA ReadingKeeps ==
    ASSUME DynamicsInv, NEW l \in Loads,
           Start(l) \/ Walk(l) \/ NextWalk(l) \/ TypeCheck(l) \/ VerifyAll(l)
    PROVE  DynamicsInv'
<1>0. SourcesInv /\ LoadShape
  BY DEF DynamicsInv, SourcesInv
<1>1. load[l].phase \in Early
  BY DEF Start, Walk, NextWalk, TypeCheck, VerifyAll, Early, Walks
<1>2. SourcesInv'
  BY <1>0, StartRead, WalkRead, NextWalkRead, TypeCheckRead, VerifyAllRead
<1>3. load[l].outcome = "none" /\ load[l].phase \notin {"evidence", "evidenceCheck"}
  BY <1>1, EarlyKnows DEF Early, Walks
<1>4. CASE Fail(l)
  BY <1>0, <1>3, <1>4, FailIs, <1>1, <1>2, EarlyMoves DEF Off, LoadFields
<1>5. CASE ~Fail(l)
  <2>1. PICK ch : /\ Set(l, ch) /\ "step" \notin DOMAIN ch
                  /\ \/ /\ "outcome" \notin DOMAIN ch
                        /\ "phase" \in DOMAIN ch => ch.phase \in Early
                     \/ /\ {"outcome", "phase"} \subseteq DOMAIN ch
                        /\ ch.phase = "done" /\ ch.outcome = "failed"
    <3>1. CASE Start(l)
      BY <3>1 DEF Start, Early, Walks
    <3>2. CASE Walk(l)
      <4>1. \/ \E r, s, q, c : Set(l, [retained |-> r, seen |-> s, queue |-> q, code |-> c])
            \/ \E r, q : Set(l, [retained |-> r, queue |-> q])
        BY <1>5, <3>2 DEF Walk
      <4>2. CASE \E r, s, q, c : Set(l, [retained |-> r, seen |-> s, queue |-> q, code |-> c])
        <5>1. PICK r, s, q, c : Set(l, [retained |-> r, seen |-> s, queue |-> q, code |-> c])
          BY <4>2
        <5> DEFINE ch == [retained |-> r, seen |-> s, queue |-> q, code |-> c]
        <5>2. Set(l, ch) /\ {"step", "phase", "outcome"} \cap DOMAIN ch = {}
          BY <5>1
        <5> HIDE DEF ch
        <5> QED BY <5>2
      <4>3. CASE \E r, q : Set(l, [retained |-> r, queue |-> q])
        <5>1. PICK r, q : Set(l, [retained |-> r, queue |-> q])
          BY <4>3
        <5> DEFINE ch == [retained |-> r, queue |-> q]
        <5>2. Set(l, ch) /\ {"step", "phase", "outcome"} \cap DOMAIN ch = {}
          BY <5>1
        <5> HIDE DEF ch
        <5> QED BY <5>2
      <4> QED BY <4>1, <4>2, <4>3
    <3>3. CASE NextWalk(l)
      <4>1. \/ \E q, s, b : Set(l, [phase |-> "graph", queue |-> q, seen |-> s, bound |-> b])
            \/ \E q, s, e : Set(l, [phase |-> "bundle", queue |-> q, seen |-> s, expected |-> e])
            \/ \E q, s : Set(l, [phase |-> "surface", queue |-> q, seen |-> s])
        BY <1>5, <3>3 DEF NextWalk, Walks
      <4>2. {"graph", "bundle", "surface"} \subseteq Early
        BY DEF Early, Walks
      <4>3. CASE \E q, s, b : Set(l, [phase |-> "graph", queue |-> q, seen |-> s, bound |-> b])
        <5>1. PICK q, s, b : Set(l, [phase |-> "graph", queue |-> q, seen |-> s, bound |-> b])
          BY <4>3
        <5> DEFINE ch == [phase |-> "graph", queue |-> q, seen |-> s, bound |-> b]
        <5>2. /\ Set(l, ch) /\ {"step", "outcome"} \cap DOMAIN ch = {}
              /\ "phase" \in DOMAIN ch /\ ch.phase = "graph"
          BY <5>1
        <5> HIDE DEF ch
        <5> QED BY <4>2, <5>2
      <4>4. CASE \E q, s, e : Set(l, [phase |-> "bundle", queue |-> q, seen |-> s,
                                       expected |-> e])
        <5>1. PICK q, s, e : Set(l, [phase |-> "bundle", queue |-> q, seen |-> s, expected |-> e])
          BY <4>4
        <5> DEFINE ch == [phase |-> "bundle", queue |-> q, seen |-> s, expected |-> e]
        <5>2. /\ Set(l, ch) /\ {"step", "outcome"} \cap DOMAIN ch = {}
              /\ "phase" \in DOMAIN ch /\ ch.phase = "bundle"
          BY <5>1
        <5> HIDE DEF ch
        <5> QED BY <4>2, <5>2
      <4>5. CASE \E q, s : Set(l, [phase |-> "surface", queue |-> q, seen |-> s])
        <5>1. PICK q, s : Set(l, [phase |-> "surface", queue |-> q, seen |-> s])
          BY <4>5
        <5> DEFINE ch == [phase |-> "surface", queue |-> q, seen |-> s]
        <5>2. /\ Set(l, ch) /\ {"step", "outcome"} \cap DOMAIN ch = {}
              /\ "phase" \in DOMAIN ch /\ ch.phase = "surface"
          BY <5>1
        <5> HIDE DEF ch
        <5> QED BY <4>2, <5>2
      <4> QED BY <4>1, <4>3, <4>4, <4>5
    <3>4. CASE TypeCheck(l)
      BY <1>5, <3>4 DEF TypeCheck, Early
    <3>5. CASE VerifyAll(l)
      <4>1. \E q : Set(l, [queue |-> q])
        BY <1>5, <3>5 DEF VerifyAll
      <4> QED BY <4>1
    <3> QED BY <3>1, <3>2, <3>3, <3>4, <3>5
  <2>2. /\ disk' = disk /\ roots' = roots /\ stage' = stage /\ own' = own
    BY <1>5 DEF Start, Walk, NextWalk, TypeCheck, VerifyAll, pairVars
  <2>3. /\ \A m \in Loads \ {l} : load'[m] = load[m]
        /\ \A x \in LoadFields \cap DOMAIN ch : load'[l][x] = ch[x]
        /\ \A x \in LoadFields \ DOMAIN ch : load'[l][x] = load[l][x]
    BY <1>0, <2>1, SetIs
  <2>4. {"step", "phase", "outcome"} \subseteq LoadFields
    BY DEF LoadFields
  <2>5. /\ load'[l].step = load[l].step
        /\ \/ load'[l].phase \in Early /\ load'[l].outcome = load[l].outcome
           \/ load'[l].phase = "done" /\ load'[l].outcome = "failed"
    BY <1>1, <2>1, <2>3, <2>4
  <2> QED BY <1>1, <1>2, <2>2, <2>3, <2>5, EarlyMoves
<1> QED
  BY <1>4, <1>5

\* What is known of a load on its script.
LEMMA ScriptKnows ==
    ASSUME DynamicsInv, NEW l \in Loads, load[l].phase \in Scripted
    PROVE  /\ SourcesInv /\ LoadShape /\ ScriptIs(l) /\ CurrentIs(l) /\ Placed
           /\ load[l].step \in 1..ImportStep(l) + 3
           /\ load[l].phase = Script(l)[load[l].step]
           /\ load[l].outcome = "none" /\ load[l].together
           /\ load[l].phase \notin {"scratch", "evidence"} => stage[l] = Off
           /\ load[l].step < 3 => \A r \in Roots : own[l][r] = {}
<1>1. SourcesInv /\ LoadShape /\ ScriptIs(l) /\ CurrentIs(l)
  BY DEF DynamicsInv, SourcesInv, LoadsInv
<1>2. /\ load[l].step \in 1..ImportStep(l) + 3 /\ load[l].phase = Script(l)[load[l].step]
      /\ load[l].outcome = "none"
  BY <1>1 DEF ScriptIs
<1>3. load[l].step > 0
  BY <1>2
<1>4. load[l].together
  BY <1>1, <1>3 DEF SourcesInv, ReadInv, ReadTogether
<1>5. load[l].phase \notin {"scratch", "evidence"} => stage[l] = Off
  BY DEF DynamicsInv, LoadsInv, PairInv, StageIs, Publishing, Off
<1>6. load[l].step < 3 => \A r \in Roots : own[l][r] = {}
  <2> SUFFICES ASSUME load[l].step < 3, NEW r \in Roots PROVE own[l][r] = {}
    OBVIOUS
  <2>1. OwnIs(l, r)
    BY DEF DynamicsInv, LoadsInv, PairInv
  <2> QED BY <1>2, <2>1 DEF OwnIs
<1>7. Placed
  <2> SUFFICES ASSUME NEW m \in Loads, load[m].phase = "evidence" PROVE Evidence[m] \in Roots
    BY DEF Placed
  <2>1. ScriptIs(m)
    BY DEF DynamicsInv, LoadsInv
  <2>2. load[m].step \in 1..ImportStep(m) + 3 /\ Script(m)[load[m].step] = "evidence"
    BY <2>1 DEF ScriptIs, Scripted
  <2>3. Evidence[m] # Nothing
    BY <2>2, ScriptAt
  <2> QED BY <2>3, RootsAssumption
<1> QED
  BY <1>1, <1>2, <1>4, <1>5, <1>6, <1>7

\* Every load that publishes evidence has a root for it.
LEMMA AllPlaced == DynamicsInv => Placed
<1> SUFFICES ASSUME DynamicsInv, NEW m \in Loads, load[m].phase = "evidence"
             PROVE  Evidence[m] \in Roots
  BY DEF Placed
<1>1. load[m].phase \in Scripted
  BY DEF Scripted
<1> QED
  BY <1>1, ScriptKnows DEF Placed

\* A load on its script that fails.
LEMMA FailKeeps ==
    ASSUME DynamicsInv, NEW l \in Loads, load[l].phase \in Scripted, Fail(l)
    PROVE  DynamicsInv'
<1>0. /\ SourcesInv /\ LoadShape /\ ScriptIs(l) /\ CurrentIs(l)
      /\ load[l].step \in 1..ImportStep(l) + 3
      /\ load[l].phase = Script(l)[load[l].step]
      /\ load[l].step < 3 => \A r \in Roots : own[l][r] = {}
  BY ScriptKnows
<1>1. /\ \A m \in Loads \ {l} : load'[m] = load[m]
      /\ load'[l].phase = "cleanup" /\ load'[l].outcome = "failed"
      /\ load'[l].clean = IF load[l].phase \in {"evidence", "evidenceCheck"}
                          THEN << Evidence[l], Scratch[l] >> ELSE << Scratch[l] >>
      /\ \A x \in LoadFields \ {"phase", "outcome", "queue", "clean"} : load'[l][x] = load[l][x]
      /\ disk' = disk /\ roots' = roots /\ own' = own
      /\ stage' = [stage EXCEPT ![l] = Off]
  BY <1>0, FailIs DEF Off
<1>2. /\ load'[l].step = load[l].step /\ load'[l].code = load[l].code
      /\ load'[l].typed = load[l].typed /\ load'[l].retained = load[l].retained
      /\ load'[l].receipt = load[l].receipt /\ load'[l].current = load[l].current
  BY <1>1 DEF LoadFields
<1>3. load[l].phase \in {"evidence", "evidenceCheck"} => Evidence[l] # Nothing
  BY <1>0, ScriptAt
<1>4. SourcesInv'
  BY <1>0, FailRead
<1>5. Artifact(l)' = Artifact(l)
  BY <1>2, ArtifactStays
<1>6. ScriptIs(l)'
  BY <1>0, <1>1, <1>2, <1>3, <1>5 DEF ScriptIs, Scripted, Early, Walks, Examining
<1>7. CurrentIs(l)'
  BY <1>0, <1>1, <1>2 DEF CurrentIs, ImportStep
<1>8. (\A r \in Roots : own[l][r] = {}) \/ load'[l].step >= 3
  BY <1>0, <1>2 DEF ImportStep
<1> QED
  BY <1>1, <1>2, <1>4, <1>6, <1>7, <1>8, LoadMoves

\* Something in the list covers the source.
Looks(q, f) == \E i \in 1..Len(q) : Covers(q[i], f)

\* A list of two lists looks at what either looks at.
LEMMA LooksOn ==
    ASSUME NEW T, NEW s \in Seq(T), NEW t \in Seq(T)
    PROVE  /\ s \o t \in Seq(T)
           /\ \A f : Looks(s, f) \/ Looks(t, f) => Looks(s \o t, f)
<1>1. s \o t \in Seq(T) /\ Len(s \o t) = Len(s) + Len(t)
  OBVIOUS
<1>2. \A f : Looks(s, f) => Looks(s \o t, f)
  <2> SUFFICES ASSUME NEW f, NEW i \in 1..Len(s), Covers(s[i], f)
               PROVE  \E k \in 1..Len(s \o t) : Covers((s \o t)[k], f)
    BY DEF Looks
  <2>1. i \in 1..Len(s \o t) /\ (s \o t)[i] = s[i]
    BY <1>1
  <2> QED BY <2>1
<1>3. \A f : Looks(t, f) => Looks(s \o t, f)
  <2> SUFFICES ASSUME NEW f, NEW i \in 1..Len(t), Covers(t[i], f)
               PROVE  \E k \in 1..Len(s \o t) : Covers((s \o t)[k], f)
    BY DEF Looks
  <2>1. Len(s) + i \in 1..Len(s \o t) /\ (s \o t)[Len(s) + i] = t[i]
    BY <1>1
  <2> QED BY <2>1
<1> QED
  BY <1>1, <1>2, <1>3

\* A sequence is the list of its elements.
LEMMA SeqInOrder ==
    ASSUME NEW T, NEW q \in Seq(T)
    PROVE  InOrder(q)
<1>1. Len(q) \in Nat /\ DOMAIN q = 1..Len(q)
  OBVIOUS
<1>2. q = [i \in DOMAIN q |-> q[i]]
  OBVIOUS
<1> QED
  BY <1>1, <1>2 DEF InOrder

\* A receipt looks at every source of the build.
LEMMA ItemsCover ==
    ASSUME SourcesInv, NEW l \in Loads, NEW item, NEW front,
           front = << >> \/ front = << item >>
    PROVE  /\ InOrder(front \o Items(l))
           /\ \A f \in Inputs(l) : Looks(front \o Items(l), f)
<1> DEFINE T == [do : {"project", "authority", "package", "surface"},
                 of : Inputs(l) \union {"toolchain", "project", Surface}] \union {item}
           each(do, S) == [i \in 1..Cardinality(S) |-> [do |-> do, of |-> SetToSeq(S)[i]]]
           s1 == each("project", Of(l, {Project}))
           s2 == << [do |-> "authority", of |-> "toolchain"],
                    [do |-> "authority", of |-> "project"] >>
           s3 == each("package", Of(l, Places \ {Surface}))
           s4 == IF Of(l, {Surface}) = {} THEN << >>
                 ELSE << [do |-> "surface", of |-> Surface] >>
<1>1. Inputs(l) \subseteq Sources /\ IsFiniteSet(Inputs(l))
  BY SourcesAssumption, FS_Subset DEF SourcesInv, ReadInv, ReadSets, Inputs,
     Sources
<1>2. ASSUME NEW do \in {"project", "package"}, NEW S, S \subseteq Inputs(l)
      PROVE  /\ each(do, S) \in Seq(T) /\ Len(each(do, S)) = Cardinality(S)
             /\ \A f \in S : \E i \in 1..Cardinality(S) : each(do, S)[i] = [do |-> do, of |-> f]
  <2>1. IsFiniteSet(S)
    BY <1>1, <1>2, FS_Subset
  <2>2. /\ SetToSeq(S) \in Seq(S) /\ Cardinality(S) \in Nat
        /\ DOMAIN SetToSeq(S) = 1..Cardinality(S)
        /\ \A x \in S : \E i \in 1..Cardinality(S) : SetToSeq(S)[i] = x
    BY <2>1, SetListed
  <2>3. \A i \in 1..Cardinality(S) : SetToSeq(S)[i] \in Inputs(l)
    BY <1>2, <2>2
  <2>4. \A i \in 1..Cardinality(S) : [do |-> do, of |-> SetToSeq(S)[i]] \in T
    BY <2>3
  <2>5. each(do, S) \in [1..Cardinality(S) -> T]
    BY <2>4
  <2>6. each(do, S) \in Seq(T) /\ Len(each(do, S)) = Cardinality(S)
    <3> DEFINE g == each(do, S)
    <3> HIDE DEF T, g
    <3>1. g \in [1..Cardinality(S) -> T]
      BY <2>5 DEF g
    <3>2. g \in Seq(T) /\ Len(g) = Cardinality(S)
      BY <2>2, <3>1
    <3> QED BY <3>2 DEF g
  <2> QED BY <2>2, <2>6
<1>3. Of(l, {Project}) \subseteq Inputs(l) /\ Of(l, Places \ {Surface}) \subseteq Inputs(l)
  BY DEF Of
<1>4. s1 \in Seq(T) /\ \A f \in Of(l, {Project}) : Looks(s1, f)
  <2>1. /\ s1 \in Seq(T) /\ Len(s1) = Cardinality(Of(l, {Project}))
        /\ \A f \in Of(l, {Project}) :
             \E i \in 1..Cardinality(Of(l, {Project})) : s1[i] = [do |-> "project", of |-> f]
    BY <1>2, <1>3
  <2>2. \A f : Covers([do |-> "project", of |-> f], f)
    BY DEF Covers
  <2> HIDE DEF s1, T
  <2> QED BY <2>1, <2>2 DEF Looks
<1>5. s3 \in Seq(T) /\ \A f \in Of(l, Places \ {Surface}) : Looks(s3, f)
  <2> DEFINE S == Of(l, Places \ {Surface})
  <2>1. /\ s3 \in Seq(T) /\ Len(s3) = Cardinality(S)
        /\ \A f \in S : \E i \in 1..Cardinality(S) : s3[i] = [do |-> "package", of |-> f]
    BY <1>2, <1>3
  <2>2. \A f \in S : Covers([do |-> "package", of |-> f], f)
    BY DEF Covers, Of
  <2> HIDE DEF s3, T
  <2> QED BY <2>1, <2>2 DEF Looks
<1>6. s2 \in Seq(T)
  <2>1. [do |-> "authority", of |-> "toolchain"] \in T /\ [do |-> "authority", of |-> "project"] \in T
    OBVIOUS
  <2> HIDE DEF T
  <2> QED BY <2>1
<1>7. s4 \in Seq(T) /\ \A f \in Of(l, {Surface}) : Looks(s4, f)
  <2>1. [do |-> "surface", of |-> Surface] \in T
    OBVIOUS
  <2> HIDE DEF T
  <2>2. s4 \in Seq(T)
    BY <2>1
  <2>3. \A f \in Of(l, {Surface}) : Len(s4) = 1 /\ Covers(s4[1], f)
    BY DEF Covers, Of
  <2> HIDE DEF s4
  <2>4. \A f \in Of(l, {Surface}) : 1 \in 1..Len(s4) /\ Covers(s4[1], f)
    BY <2>2, <2>3
  <2> QED BY <2>2, <2>4 DEF Looks
<1>8. front \in Seq(T)
  <2>1. item \in T
    OBVIOUS
  <2> HIDE DEF T
  <2>2. << >> \in Seq(T) /\ << item >> \in Seq(T)
    BY <2>1
  <2> QED BY <2>2
<1>9. Items(l) = s1 \o s2 \o s3 \o s4
  BY DEF Items
<1>10. \A f \in Inputs(l) : \/ f \in Of(l, {Project})
                           \/ f \in Of(l, Places \ {Surface})
                           \/ f \in Of(l, {Surface})
  BY <1>1, SourcesAssumption DEF Of, Sources
<1> HIDE DEF T, s1, s2, s3, s4
<1>11. s1 \o s2 \in Seq(T) /\ \A f : Looks(s1, f) => Looks(s1 \o s2, f)
  BY <1>4, <1>6, LooksOn
<1>12. /\ s1 \o s2 \o s3 \in Seq(T)
       /\ \A f : Looks(s1, f) \/ Looks(s3, f) => Looks(s1 \o s2 \o s3, f)
  BY <1>5, <1>11, LooksOn
<1>13. /\ Items(l) \in Seq(T)
       /\ \A f : Looks(s1, f) \/ Looks(s3, f) \/ Looks(s4, f) => Looks(Items(l), f)
  <2> DEFINE s == s1 \o s2 \o s3
  <2>1. s \in Seq(T) /\ Items(l) = s \o s4
    BY <1>9, <1>12
  <2>2. \A f : Looks(s1, f) \/ Looks(s3, f) => Looks(s, f)
    BY <1>12
  <2> HIDE DEF s
  <2>3. s \o s4 \in Seq(T) /\ \A f : Looks(s, f) \/ Looks(s4, f) => Looks(s \o s4, f)
    BY <1>7, <2>1, LooksOn
  <2> QED BY <2>1, <2>2, <2>3
<1>14. /\ front \o Items(l) \in Seq(T)
       /\ \A f : Looks(Items(l), f) => Looks(front \o Items(l), f)
  BY <1>8, <1>13, LooksOn
<1>15. \A q \in Seq(T) : InOrder(q)
  BY SeqInOrder
<1> QED
  BY <1>4, <1>5, <1>7, <1>10, <1>13, <1>14, <1>15

\* What is not the same any more is not read there again.
LEMMA NotSameIsStale ==
    ASSUME SourcesInv, NEW l \in Loads, NEW f \in Files, ~Same(l, f)
    PROVE  Stale(l, f)
<1>1. disk[f] \in [version : Nat, there : BOOLEAN] /\ load[l].retained[f] \in Nat
      /\ load[l].retained[f] <= disk[f].version
  BY DEF SourcesInv, DiskInv, ReadInv, ReadSets, ReadBytes
<1>2. disk[f] = [version |-> disk[f].version, there |-> disk[f].there]
  BY <1>1
<1>3. disk[f].version # load[l].retained[f] \/ ~disk[f].there
  BY <1>1, <1>2 DEF Same, SameAs
<1> QED
  BY <1>1, <1>3 DEF Stale

\* On to the next step of the script.
LEMMA EnterKeeps ==
    ASSUME DynamicsInv, NEW l \in Loads, NEW n, NEW fields, Enter(l, n, fields),
           DOMAIN fields \subseteq {"receipt", "current"},
           load[l].phase \in Scripted \union {"verify"}, load[l].together,
           n \in 1..ImportStep(l) + 3,
           disk' = disk, edits' = edits, roots' = roots, own' = own,
           (stage' = stage /\ stage[l] = Off) \/ stage' = [stage EXCEPT ![l] = Off],
           \/ \A r \in Roots : own[l][r] = {}
           \/ load'[l].receipt = load[l].receipt /\ n >= 3,
           n >= 2 => load'[l].receipt.artifact = Artifact(l),
           n >= 8 /\ Evidence[l] # Nothing => "receipt" \in own[l][Evidence[l]],
           n = ImportStep(l) + 1 => load'[l].current = InUse(l),
           n > ImportStep(l) + 1 => load'[l].current
    PROVE  DynamicsInv'
<1>0. SourcesInv /\ LoadShape
  BY DEF DynamicsInv, SourcesInv
<1>1. load[l].outcome = "none"
  BY EarlyKnows, ScriptKnows DEF Early
<1>2. DOMAIN fields \cap {"step", "phase", "queue", "authority"} = {}
  OBVIOUS
<1>3. /\ LoadShape'
      /\ \A m \in Loads \ {l} : load'[m] = load[m]
      /\ load'[l].step = n /\ load'[l].phase = Script(l)[n]
      /\ Script(l)[n] \in Examining =>
           \E front : /\ Script(l)[n] \in {"issue", "assert"} => front = << >>
                      /\ Script(l)[n] \notin {"issue", "assert"} =>
                           front = << [do |-> "pair", of |-> RootOf(l, Script(l)[n])] >>
                      /\ load'[l].queue = front \o Items(l)
      /\ \A x \in LoadFields \ ({"step", "phase", "queue", "authority"} \union DOMAIN fields) :
           load'[l][x] = load[l][x]
  <2>1. LoadShape /\ Enter(l, n, fields)
        /\ DOMAIN fields \cap {"step", "phase", "queue", "authority"} = {}
    BY <1>0, <1>2
  <2> QED BY ONLY <2>1, l \in Loads, EnterIs
<1>4. \A x \in {"retained", "seen", "bound", "expected", "typed", "code", "together", "outcome",
                "clean"} :
         load'[l][x] = load[l][x]
  BY <1>3 DEF LoadFields
<1>5. /\ load'[l].retained = load[l].retained /\ load'[l].typed = load[l].typed
      /\ load'[l].code = load[l].code /\ load'[l].outcome = "none"
  BY <1>1, <1>4
<1>6. Script(l)[n] \in Scripted /\ Script(l)[n] \in LoadPhases \ Early
  BY ScriptAt
<1>7. n \in Nat
  BY DEF ImportStep
<1>8. SourcesInv'
  BY <1>3, <1>4, <1>6, <1>7, <1>0, LaterRead DEF LaterStep
<1>9. Inputs(l)' = Inputs(l) /\ Artifact(l)' = Artifact(l)
  BY <1>5, ArtifactStays
<1>10. Script(l)[n] \in Examining =>
          InOrder(load'[l].queue) /\ \A f \in Inputs(l) : Looks(load'[l].queue, f)
  <2> SUFFICES ASSUME Script(l)[n] \in Examining
               PROVE  InOrder(load'[l].queue) /\ \A f \in Inputs(l) : Looks(load'[l].queue, f)
    OBVIOUS
  <2> DEFINE item == [do |-> "pair", of |-> RootOf(l, Script(l)[n])]
  <2>1. PICK front : /\ front = << >> \/ front = << item >>
                     /\ load'[l].queue = front \o Items(l)
    BY <1>3
  <2> HIDE DEF item
  <2>2. InOrder(front \o Items(l)) /\ \A f \in Inputs(l) : Looks(front \o Items(l), f)
    <3>1. SourcesInv /\ (front = << >> \/ front = << item >>)
      BY <1>0, <2>1
    <3> QED BY ONLY <3>1, l \in Loads, ItemsCover
  <2> QED BY <2>1, <2>2
<1>11. ScriptIs(l)'
  BY <1>6, <1>3, <1>5, <1>9, <1>10 DEF Scripted, ScriptIs, ImportStep, Script
<1>12. CurrentIs(l)'
  <2>1. ASSUME n = ImportStep(l) + 1, ~InUse(l), Script(l)[n] \in Examining
        PROVE  \E f \in Inputs(l) : Stale(l, f) /\ Single(f) /\ Looks(load'[l].queue, f)
    <3>1. PICK f \in Inputs(l) : ~Same(l, f) /\ Single(f)
      BY <2>1 DEF InUse, Single
    <3>2. f \in Files
      BY <1>0, SourcesAssumption DEF SourcesInv, ReadInv, ReadSets, Inputs, Sources
    <3> QED BY <1>0, <1>10, <2>1, <3>1, <3>2, NotSameIsStale
  <2>2. \A f : Stale(l, f)' = Stale(l, f)
    BY <1>5 DEF Stale
  <2>3. n = ImportStep(l) + 1 => Script(l)[n] \in Examining
    BY ScriptSteps DEF Examining
  <2>4. n = ImportStep(l) + 1 =>
          \/ load'[l].current
          \/ \E f \in Inputs(l)' : /\ Stale(l, f)' /\ Single(f)
                                   /\ \E i \in 1..Len(load'[l].queue) : Covers(load'[l].queue[i], f)
    BY <1>9, <2>1, <2>2, <2>3 DEF Looks
  <2> QED BY <1>3, <2>4 DEF CurrentIs, ImportStep, Single, Covers
<1> QED
  BY <1>3, <1>5, <1>8, <1>11, <1>12, LoadMoves

\* What entering a step of the script sets besides.
LEMMA EnterSets ==
    ASSUME LoadShape, NEW l \in Loads, NEW n, NEW fields, Enter(l, n, fields),
           DOMAIN fields \subseteq {"receipt", "current"}
    PROVE  /\ load'[l].receipt = IF "receipt" \in DOMAIN fields THEN fields.receipt
                                 ELSE load[l].receipt
           /\ load'[l].current = IF "current" \in DOMAIN fields THEN fields.current
                                 ELSE load[l].current
<1>1. DOMAIN fields \cap {"step", "phase", "queue", "authority"} = {}
  OBVIOUS
<1>2. /\ \A x \in LoadFields \cap DOMAIN fields : load'[l][x] = fields[x]
      /\ \A x \in LoadFields \ ({"step", "phase", "queue", "authority"} \union DOMAIN fields) :
           load'[l][x] = load[l][x]
  <2>1. LoadShape /\ Enter(l, n, fields)
        /\ DOMAIN fields \cap {"step", "phase", "queue", "authority"} = {}
    BY <1>1
  <2> QED BY ONLY <2>1, l \in Loads, EnterIs
<1>3. {"receipt", "current"} \subseteq LoadFields
  BY DEF LoadFields
<1> QED
  BY <1>2, <1>3

\* Everything was read again: the receipt is issued.
LEMMA VerifiedKeeps ==
    ASSUME DynamicsInv, NEW l \in Loads, Verified(l)
    PROVE  DynamicsInv'
<1>1. /\ load[l].phase = "verify" /\ load[l].queue = << >> /\ Enter(l, 1, << >>)
      /\ disk' = disk /\ edits' = edits /\ roots' = roots /\ own' = own /\ stage' = stage
  BY DEF Verified, pairVars
<1>2. stage[l] = Off /\ \A r \in Roots : own[l][r] = {}
  BY <1>1, EarlyKnows DEF Early
<1>3. load[l].together
  BY <1>1 DEF DynamicsInv, SourcesInv, ReadInv, ReadTogether, FindsOut
<1>4. 1 \in 1..ImportStep(l) + 3 /\ ~(1 >= ImportStep(l) + 1)
  BY DEF ImportStep
<1> DEFINE none == << >>
<1>5. DOMAIN none = {} /\ Enter(l, 1, none)
  BY <1>1
<1> HIDE DEF none
<1>6. DOMAIN none \subseteq {"receipt", "current"}
  BY <1>5
<1>7. 1 # ImportStep(l) + 1 /\ ~(1 > ImportStep(l) + 1)
  BY <1>4 DEF ImportStep
<1> QED
  BY <1>1, <1>2, <1>3, <1>4, <1>5, <1>6, <1>7, EnterKeeps

\* The receipt is as it was, or this is the first one.
LEMMA ConcludeKeeps ==
    ASSUME DynamicsInv, NEW l \in Loads, Conclude(l)
    PROVE  DynamicsInv'
<1> DEFINE ch == [receipt |-> Receipt(l)]
           n == load[l].step + 1
<1>0. load[l].phase \in Examining /\ load[l].queue = << >> /\ load[l].phase \in Scripted
  BY DEF Conclude, Examining, Scripted
<1>1. /\ SourcesInv /\ LoadShape /\ ScriptIs(l) /\ CurrentIs(l)
      /\ load[l].step \in 1..ImportStep(l) + 3
      /\ load[l].phase = Script(l)[load[l].step] /\ load[l].together
      /\ load[l].phase \notin {"scratch", "evidence"} => stage[l] = Off
      /\ load[l].step < 3 => \A r \in Roots : own[l][r] = {}
      /\ load[l].outcome = "none"
  BY <1>0, ScriptKnows
<1>2. CASE Fail(l)
  BY <1>0, <1>2, FailKeeps
<1>3. CASE ~Fail(l)
  <2>1. /\ load[l].phase = "issue" \/ Receipt(l) = load[l].receipt
        /\ Enter(l, n, ch) /\ disk' = disk /\ edits' = edits
        /\ roots' = roots /\ own' = own /\ stage' = stage
    BY <1>3 DEF Conclude, pairVars
  <2>2. /\ DOMAIN ch \subseteq {"receipt", "current"} /\ "receipt" \in DOMAIN ch
        /\ "current" \notin DOMAIN ch /\ ch.receipt = Receipt(l)
    OBVIOUS
  <2> HIDE DEF ch
  <2>3. load'[l].receipt = Receipt(l) /\ load'[l].current = load[l].current
    BY <1>1, <2>1, <2>2, EnterSets
  <2>4. Receipt(l).artifact = Artifact(l)
    BY DEF Receipt
  <2>5. /\ load[l].phase = "issue" <=> load[l].step = 1
        /\ load[l].step # 3 /\ load[l].step # ImportStep(l) /\ load[l].step # ImportStep(l) + 3
        /\ Evidence[l] # Nothing => load[l].step # 7
        /\ ImportStep(l) \in {6, 9}
    BY <1>0, <1>1, ScriptAt DEF Examining
  <2>6. stage[l] = Off
    BY <1>0, <1>1 DEF Examining
  <2>7. n \in 1..ImportStep(l) + 3 /\ n >= 2 /\ n # ImportStep(l) + 1
    BY <1>1, <2>5
  <2>8. \/ \A r \in Roots : own[l][r] = {}
        \/ load'[l].receipt = load[l].receipt /\ n >= 3
    BY <1>1, <2>1, <2>3, <2>5
  <2>9. n >= 8 /\ Evidence[l] # Nothing => "receipt" \in own[l][Evidence[l]]
    BY <1>1, <2>5 DEF ScriptIs
  <2>10. n > ImportStep(l) + 1 => load'[l].current
    <3>1. CASE load[l].step = ImportStep(l) + 1
      BY <1>1, <3>1, ScriptSteps, <1>0, <2>3 DEF CurrentIs
    <3>2. CASE load[l].step # ImportStep(l) + 1
      BY <1>1, <2>3, <2>5, <3>2 DEF CurrentIs
    <3> QED BY <3>1, <3>2
  <2> HIDE DEF n
  <2> QED
    BY <1>0, <1>1, <2>1, <2>2, <2>3, <2>4, <2>6, <2>7, <2>8, <2>9, <2>10, EnterKeeps
<1> QED
  BY <1>2, <1>3

\* The provider is imported.
LEMMA ImportKeeps ==
    ASSUME DynamicsInv, NEW l \in Loads, Import(l)
    PROVE  DynamicsInv'
<1> DEFINE ch == [current |-> InUse(l)]
           n == load[l].step + 1
<1>0. load[l].phase = "import" /\ load[l].phase \in Scripted
  BY DEF Import, Scripted
<1>1. /\ SourcesInv /\ LoadShape /\ ScriptIs(l)
      /\ load[l].step \in 1..ImportStep(l) + 3
      /\ load[l].phase = Script(l)[load[l].step] /\ load[l].together
      /\ load[l].phase \notin {"scratch", "evidence"} => stage[l] = Off
      /\ load[l].outcome = "none"
  BY <1>0, ScriptKnows
<1>2. /\ Enter(l, n, ch) /\ disk' = disk /\ edits' = edits
      /\ roots' = roots /\ own' = own /\ stage' = stage
  BY DEF Import, pairVars
<1>3. /\ DOMAIN ch \subseteq {"receipt", "current"} /\ "receipt" \notin DOMAIN ch
      /\ "current" \in DOMAIN ch /\ ch.current = InUse(l)
  OBVIOUS
<1> HIDE DEF ch
<1>4. load'[l].receipt = load[l].receipt /\ load'[l].current = InUse(l)
  BY <1>1, <1>2, <1>3, EnterSets
<1>5. load[l].step = ImportStep(l) /\ ImportStep(l) \in {6, 9}
      /\ (Evidence[l] # Nothing => ImportStep(l) = 9)
  BY <1>0, <1>1, ScriptAt DEF ImportStep
<1>6. n = ImportStep(l) + 1 /\ n \in 1..ImportStep(l) + 3 /\ n >= 3
  BY <1>5
<1>7. /\ load'[l].receipt.artifact = Artifact(l)
      /\ Evidence[l] # Nothing => "receipt" \in own[l][Evidence[l]]
  BY <1>1, <1>4, <1>5 DEF ScriptIs
<1>8. stage[l] = Off
  BY <1>0, <1>1
<1> HIDE DEF n
<1>9. ~(n > ImportStep(l) + 1)
  BY <1>5, <1>6
<1> QED
  BY <1>0, <1>1, <1>2, <1>3, <1>4, <1>6, <1>7, <1>8, <1>9, EnterKeeps

\* One thing is looked at, the others still to be looked at.
LEMMA LooksBack ==
    ASSUME NEW q, InOrder(q), q # << >>
    PROVE  /\ InOrder(Tail(q))
           /\ \A f : Looks(q, f) => Covers(Head(q), f) \/ Looks(Tail(q), f)
<1> DEFINE T == {q[i] : i \in 1..Len(q)}
           n == Len(q)
<1>1. n \in Nat /\ q = [i \in 1..n |-> q[i]]
  BY DEF InOrder
<1>2. q \in [1..n -> T]
  BY <1>1
<1>3. q \in Seq(T)
  <2> HIDE DEF T, n
  <2> QED BY <1>1, <1>2
<1> HIDE DEF T
<1>4. Tail(q) \in Seq(T) /\ Head(q) = q[1] /\ Len(Tail(q)) = Len(q) - 1
  BY <1>3
<1>5. InOrder(Tail(q))
  BY <1>4, SeqInOrder
<1>6. ASSUME NEW f, NEW i \in 1..Len(q), Covers(q[i], f), ~Covers(Head(q), f)
      PROVE  \E k \in 1..Len(Tail(q)) : Covers(Tail(q)[k], f)
  BY <1>4, <1>6, <1>3
<1> QED
  BY <1>5, <1>6 DEF Looks

\* What holds of an item says that the sources it covers are the same.
LEMMA HoldsIsSame ==
    ASSUME SourcesInv, NEW l \in Loads, NEW f \in Inputs(l), NEW item,
           Covers(item, f), Single(f), ItemHolds(l, item)
    PROVE  ~Stale(l, f)
<1>1. f \in Files /\ f \in Sources /\ disk[f] \in [version : Nat, there : BOOLEAN]
      /\ load[l].retained[f] \in Nat
  BY SourcesAssumption DEF SourcesInv, ReadInv, ReadSets, Inputs, Sources,
     DiskInv
<1>2. Same(l, f) => ~Stale(l, f)
  <2> SUFFICES ASSUME disk[f] = [version |-> load[l].retained[f], there |-> TRUE]
               PROVE  ~Stale(l, f)
    BY DEF Same, SameAs
  <2>1. disk[f].version = load[l].retained[f] /\ disk[f].there
    OBVIOUS
  <2> QED BY <1>1, <2>1 DEF Stale
<1>3. CASE item.do = "project" /\ item.of = f
  BY <1>3, <1>2 DEF ItemHolds
<1>4. CASE item.do = "package" /\ item.of = f /\ Owner[f] \in Places \ {Surface}
  <2>1. Cardinality(Matches(l, f)) = 1
    BY <1>4 DEF ItemHolds, PackageHolds
  <2>2. Matches(l, f) # {}
    BY <2>1, FS_EmptySet
  <2>3. PICK lp \in Listed(l, f) :
           \E g \in Sources : Owner[g] = lp[2] /\ Rel[g] = Rel[f] /\ SameAs(l, f, g)
    BY <2>2 DEF Matches
  <2>4. lp[2] \in Places /\ Name[lp[2]] = Name[Owner[f]]
    BY DEF Listed
  <2>5. lp[2] = Owner[f]
    BY <1>4, <2>4 DEF Single
  <2>6. PICK g \in Sources : Owner[g] = Owner[f] /\ Rel[g] = Rel[f] /\ SameAs(l, f, g)
    BY <2>3, <2>5
  <2>7. g = f
    BY <1>1, <2>6, SourcesAssumption DEF Sources
  <2> QED BY <1>2, <2>6, <2>7 DEF Same
<1>5. CASE item.do = "surface" /\ Owner[f] = Surface
  BY <1>5, <1>2 DEF Of, ItemHolds
<1> QED
  BY <1>3, <1>4, <1>5 DEF Covers

\* One thing the receipt looks at.
LEMMA ExamineKeeps ==
    ASSUME DynamicsInv, NEW l \in Loads, Examine(l)
    PROVE  DynamicsInv'
<1> DEFINE item == Head(load[l].queue)
<1>0. load[l].phase \in Examining /\ load[l].queue # << >> /\ load[l].phase \in Scripted
  BY DEF Examine, Examining, Scripted
<1>1. /\ SourcesInv /\ LoadShape /\ ScriptIs(l) /\ CurrentIs(l)
      /\ load[l].step \in 1..ImportStep(l) + 3
      /\ load[l].phase = Script(l)[load[l].step] /\ load[l].together
      /\ load[l].phase \notin {"scratch", "evidence"} => stage[l] = Off
      /\ load[l].step < 3 => \A r \in Roots : own[l][r] = {}
  BY <1>0, ScriptKnows
<1>2. CASE Fail(l)
  BY <1>0, <1>2, FailKeeps
<1>3. CASE ~Fail(l)
  <2>1. /\ ItemHolds(l, item) /\ disk' = disk /\ edits' = edits
        /\ roots' = roots /\ own' = own /\ stage' = stage
        /\ \/ \E a : Set(l, [queue |-> Tail(load[l].queue), authority |-> a])
           \/ Set(l, [queue |-> Tail(load[l].queue)])
    BY <1>3 DEF Examine, pairVars
  <2>2. PICK ch : /\ Set(l, ch) /\ DOMAIN ch \subseteq {"queue", "authority"}
                  /\ "queue" \in DOMAIN ch /\ ch.queue = Tail(load[l].queue)
    <3>1. CASE \E a : Set(l, [queue |-> Tail(load[l].queue), authority |-> a])
      <4>1. PICK a : Set(l, [queue |-> Tail(load[l].queue), authority |-> a])
        BY <3>1
      <4> DEFINE ch == [queue |-> Tail(load[l].queue), authority |-> a]
      <4>2. /\ Set(l, ch) /\ DOMAIN ch \subseteq {"queue", "authority"}
            /\ "queue" \in DOMAIN ch /\ ch.queue = Tail(load[l].queue)
        BY <4>1
      <4> HIDE DEF ch
      <4> QED BY <4>2
    <3>2. CASE Set(l, [queue |-> Tail(load[l].queue)])
      <4> DEFINE ch == [queue |-> Tail(load[l].queue)]
      <4>1. /\ Set(l, ch) /\ DOMAIN ch \subseteq {"queue", "authority"}
            /\ "queue" \in DOMAIN ch /\ ch.queue = Tail(load[l].queue)
        BY <3>2
      <4> HIDE DEF ch
      <4> QED BY <4>1
    <3> QED BY <2>1, <3>1, <3>2
  <2>3. /\ LoadShape' /\ \A m \in Loads \ {l} : load'[m] = load[m]
        /\ \A x \in LoadFields \cap DOMAIN ch : load'[l][x] = ch[x]
        /\ \A x \in LoadFields \ DOMAIN ch : load'[l][x] = load[l][x]
    BY <1>1, <2>2, SetIs
  <2>4. /\ load'[l].queue = Tail(load[l].queue)
        /\ \A x \in LoadFields \ {"queue", "authority"} : load'[l][x] = load[l][x]
    BY <2>2, <2>3 DEF LoadFields
  <2>5. /\ \A x \in {"retained", "seen", "bound", "expected", "typed", "code", "together"} :
              load'[l][x] = load[l][x]
        /\ load'[l].phase = load[l].phase /\ load'[l].step = load[l].step
        /\ load'[l].receipt = load[l].receipt /\ load'[l].outcome = load[l].outcome
        /\ load'[l].current = load[l].current /\ load'[l].clean = load[l].clean
        /\ load'[l].retained = load[l].retained /\ load'[l].code = load[l].code
        /\ load'[l].typed = load[l].typed
    BY <2>4 DEF LoadFields
  <2>6. SourcesInv'
    BY <1>1, ScriptAt, <2>3, <2>5, <2>1, LaterRead DEF LaterStep
  <2>7. Artifact(l)' = Artifact(l) /\ Inputs(l)' = Inputs(l)
    BY <2>5, ArtifactStays
  <2>8. InOrder(load[l].queue)
    BY <1>0, <1>1 DEF ScriptIs
  <2>9. /\ InOrder(load'[l].queue)
        /\ \A f : Looks(load[l].queue, f) => Covers(item, f) \/ Looks(load'[l].queue, f)
    BY <1>0, <2>4, <2>8, LooksBack
  <2>10. ScriptIs(l)'
    BY <1>1, <2>1, <2>5, <2>7, <2>9 DEF ScriptIs, ImportStep, Script
  <2>11. CurrentIs(l)'
    <3> HIDE DEF item
    <3>1. \A f \in Inputs(l) : /\ Stale(l, f) /\ Single(f) /\ Looks(load[l].queue, f)
                               => Looks(load'[l].queue, f)
      BY <1>1, <2>1, <2>9, HoldsIsSame
    <3>2. \A f : Stale(l, f)' = Stale(l, f)
      BY <2>1, <2>5 DEF Stale
    <3> QED
      BY <1>1, <2>5, <2>7, <3>1, <3>2 DEF CurrentIs, Looks, ImportStep, Single, Covers
  <2>12. stage[l] = Off
    BY <1>0, <1>1 DEF Examining
  <2>13. (\A r \in Roots : own[l][r] = {}) \/ load'[l].step >= 3
    BY <1>1, <2>5 DEF ImportStep
  <2> QED
    BY <2>1, <2>3, <2>5, <2>6, <2>10, <2>11, <2>12, <2>13, LoadMoves
<1> QED
  BY <1>2, <1>3

\* The provider is made of the import, or cannot be.
LEMMA CreateKeeps ==
    ASSUME DynamicsInv, NEW l \in Loads, CreateProvider(l)
    PROVE  DynamicsInv'
<1>0. load[l].phase = "create" /\ load[l].phase \in Scripted
  BY DEF CreateProvider, Scripted
<1>1. /\ SourcesInv /\ LoadShape /\ ScriptIs(l) /\ CurrentIs(l)
      /\ load[l].step \in 1..ImportStep(l) + 3
      /\ load[l].phase = Script(l)[load[l].step] /\ load[l].together
      /\ load[l].phase \notin {"scratch", "evidence"} => stage[l] = Off
      /\ load[l].outcome = "none"
  BY <1>0, ScriptKnows
<1>2. PICK o \in {"loaded", "failed"} :
         Set(l, [phase |-> "cleanup", clean |-> << Scratch[l] >>, outcome |-> o])
  BY DEF CreateProvider
<1> DEFINE ch == [phase |-> "cleanup", clean |-> << Scratch[l] >>, outcome |-> o]
<1>3. /\ Set(l, ch) /\ DOMAIN ch = {"phase", "clean", "outcome"} /\ ch.phase = "cleanup"
      /\ ch.clean = << Scratch[l] >> /\ ch.outcome = o
  BY <1>2
<1> HIDE DEF ch
<1>4. /\ LoadShape' /\ \A m \in Loads \ {l} : load'[m] = load[m]
      /\ \A x \in LoadFields \cap DOMAIN ch : load'[l][x] = ch[x]
      /\ \A x \in LoadFields \ DOMAIN ch : load'[l][x] = load[l][x]
  BY <1>1, <1>3, SetIs
<1>5. /\ load'[l].phase = "cleanup" /\ load'[l].clean = << Scratch[l] >> /\ load'[l].outcome = o
      /\ \A x \in LoadFields \ {"phase", "clean", "outcome"} : load'[l][x] = load[l][x]
  BY <1>3, <1>4 DEF LoadFields
<1>6. /\ \A x \in {"retained", "seen", "bound", "expected", "typed", "code", "together"} :
            load'[l][x] = load[l][x]
      /\ load'[l].step = load[l].step /\ load'[l].receipt = load[l].receipt
      /\ load'[l].current = load[l].current /\ load'[l].retained = load[l].retained
      /\ load'[l].code = load[l].code /\ load'[l].typed = load[l].typed
  BY <1>5 DEF LoadFields
<1>7. /\ disk' = disk /\ edits' = edits /\ roots' = roots /\ own' = own /\ stage' = stage
      /\ stage[l] = Off
  BY <1>0, <1>1 DEF CreateProvider, pairVars
<1>8. SourcesInv'
  BY <1>5, <1>4, <1>6, <1>1, <1>7, LaterRead DEF LoadPhases, Early, Walks,
     LaterStep
<1>9. Artifact(l)' = Artifact(l)
  BY <1>6, ArtifactStays
<1>10. load[l].step = ImportStep(l) + 3 /\ load[l].step >= 8
  BY <1>0, <1>1, ScriptAt DEF ImportStep
<1>11. ScriptIs(l)'
  BY <1>1, <1>5, <1>6, <1>7, <1>9, <1>10
     DEF ScriptIs, ImportStep, Script, Scripted, Early, Walks, Examining
<1>12. CurrentIs(l)'
  BY <1>1, <1>5, <1>6 DEF CurrentIs, ImportStep
<1>13. load'[l].step >= 3
  BY <1>6, <1>10 DEF ImportStep
<1> QED
  BY <1>4, <1>6, <1>7, <1>8, <1>11, <1>12, <1>13, LoadMoves

\* What others made stays theirs while a pair is published.
LEMMA PublishOwn ==
    ASSUME NEW l \in Loads, NEW r, NEW a, NEW body, Publish(l, r, a, body),
           own \in [Loads -> [Roots -> SUBSET {"dynamics", "directory", "artifact", "receipt"}]]
    PROVE  \A m \in Loads \ {l} : own'[m] = own[m]
<1>1. own' = own \/ \E what : Owning(l, r, what)
  BY DEF MakeDynamics, ReceiptAbsent, MakeDirectory, WriteTemporary, Reserve,
     Rename, Seal, PublishFails, Publish
<1> QED
  BY <1>1 DEF Owning

\* A pair is published, step by step.
LEMMA PublishKeeps ==
    ASSUME DynamicsInv, NEW l \in Loads, PublishPair(l)
    PROVE  DynamicsInv'
<1> DEFINE r == RootOf(l, load[l].phase)
           n == load[l].step + 1
<1>0. load[l].phase \in {"scratch", "evidence"} /\ load[l].phase \in Scripted
  BY DEF PublishPair, Scripted
<1>1. /\ SourcesInv /\ LoadShape /\ ScriptIs(l) /\ CurrentIs(l) /\ Placed
      /\ load[l].step \in 1..ImportStep(l) + 3
      /\ load[l].phase = Script(l)[load[l].step] /\ load[l].together
      /\ load[l].outcome = "none"
  BY <1>0, ScriptKnows
<1>2. /\ load[l].phase = "scratch" => load[l].step = 3
      /\ load[l].phase = "evidence" => load[l].step = 7 /\ Evidence[l] # Nothing
      /\ ImportStep(l) \in {6, 9} /\ (Evidence[l] # Nothing => ImportStep(l) = 9)
  BY <1>0, <1>1, ScriptAt DEF ImportStep
<1>3. CASE Publishing(l, "pair", "failed")
  BY <1>3, <1>0, FailKeeps DEF Publishing, PublishPair
<1>4. CASE Publishing(l, "pair", "published")
  <2> DEFINE none == << >>
  <2>1. ~Publishing(l, "pair", "failed")
    BY <1>4 DEF Publishing
  <2>2. /\ Now(l, "pair", "off") /\ Enter(l, n, none) /\ disk' = disk /\ edits' = edits
        /\ roots' = roots /\ own' = own
    BY <1>4, <2>1 DEF PublishPair
  <2>3. stage' = [stage EXCEPT ![l] = Off]
    BY <2>2 DEF Now, Off
  <2>4. DOMAIN none = {}
    OBVIOUS
  <2> HIDE DEF none
  <2>5. DOMAIN none \subseteq {"receipt", "current"}
    BY <2>4
  <2>6. load'[l].receipt = load[l].receipt
    BY <1>1, <2>2, <2>4, <2>5, EnterSets
  <2>7. n \in 1..ImportStep(l) + 3 /\ n >= 3 /\ n # ImportStep(l) + 1 /\ ~(n > ImportStep(l) + 1)
    BY <1>0, <1>2
  <2>8. load'[l].receipt.artifact = Artifact(l)
    BY <1>0, <1>1, <1>2, <2>6 DEF ScriptIs
  <2>9. n >= 8 /\ Evidence[l] # Nothing => "receipt" \in own[l][Evidence[l]]
    <3>1. n >= 8 => load[l].phase = "evidence"
      BY <1>0, <1>2
    <3>2. StageIs(l)
      BY DEF DynamicsInv, LoadsInv, PairInv
    <3> QED BY <1>4, <3>1, <3>2 DEF StageIs, RootOf
  <2> HIDE DEF n
  <2> QED
    BY <1>0, <1>1, <2>2, <2>3, <2>5, <2>6, <2>7, <2>8, <2>9, EnterKeeps
<1>5. CASE ~Publishing(l, "pair", "failed") /\ ~Publishing(l, "pair", "published")
  <2>1. /\ Publish(l, r, Artifact(l), load[l].receipt)
        /\ disk' = disk /\ edits' = edits /\ load' = load
    BY <1>5 DEF PublishPair
  <2>2. r \in Roots /\ r \in Mine(l)
    BY <1>0, <1>1, <1>2, RootsAssumption DEF RootOf, Placed, Mine
  <2>3. PublishesIn(l, r)
    BY <1>0, <1>1, <1>2, <2>2 DEF PublishesIn, Publishes, ScriptIs
  <2>4. PairInv
    BY DEF DynamicsInv, LoadsInv
  <2> HIDE DEF r
  <2>5. PairInv'
    BY <1>1, <2>1, <2>2, <2>3, <2>4, PublishPairInv
  <2>6. \A m \in Loads \ {l} : own'[m] = own[m]
    BY <2>1, <2>4, PublishOwn DEF PairInv, PairShape
  <2>7. SourcesInv'
    BY <1>1, <2>1, ReadStays DEF SourcesInv, DiskInv, LoadShape
  <2>8. Artifact(l)' = Artifact(l)
    BY <2>1, SameLoad
  <2>9. ScriptIs(l)'
    BY <1>0, <1>1, <1>2, <2>1, <2>8 DEF ScriptIs, ImportStep, Script, InOrder
  <2>10. CurrentIs(l)'
    BY <1>1, <2>1, CurrentStays DEF Stale
  <2> QED BY <2>1, <2>5, <2>6, <2>7, <2>9, <2>10, OneLoad
<1> QED
  BY <1>3, <1>4, <1>5

\* What is left of a load that ended.
LEMMA EndedRead ==
    ASSUME SourcesInv, NEW l \in Loads, NEW ch, Set(l, ch), disk' = disk, edits' = edits,
           DOMAIN ch \subseteq {"phase", "clean", "outcome"},
           load[l].phase = "cleanup" \/ "phase" \in DOMAIN ch,
           "phase" \in DOMAIN ch => ch.phase \in {"done", "crashed"}
    PROVE  /\ SourcesInv' /\ \A m \in Loads \ {l} : load'[m] = load[m]
           /\ load'[l].phase = IF "phase" \in DOMAIN ch THEN ch.phase ELSE load[l].phase
           /\ load'[l].clean = IF "clean" \in DOMAIN ch THEN ch.clean ELSE load[l].clean
           /\ load'[l].outcome = IF "outcome" \in DOMAIN ch THEN ch.outcome ELSE load[l].outcome
           /\ load'[l].step = load[l].step /\ load'[l].receipt = load[l].receipt
           /\ load'[l].current = load[l].current /\ Artifact(l)' = Artifact(l)
<1>0. LoadShape
  BY DEF SourcesInv
<1>1. /\ LoadShape' /\ \A m \in Loads \ {l} : load'[m] = load[m]
      /\ \A x \in LoadFields \cap DOMAIN ch : load'[l][x] = ch[x]
      /\ \A x \in LoadFields \ DOMAIN ch : load'[l][x] = load[l][x]
  BY <1>0, SetIs
<1>2. {"phase", "clean", "outcome"} \subseteq LoadFields
  BY DEF LoadFields
<1>3. /\ load'[l].phase = IF "phase" \in DOMAIN ch THEN ch.phase ELSE load[l].phase
      /\ load'[l].clean = IF "clean" \in DOMAIN ch THEN ch.clean ELSE load[l].clean
      /\ load'[l].outcome = IF "outcome" \in DOMAIN ch THEN ch.outcome ELSE load[l].outcome
      /\ \A x \in LoadFields \ {"phase", "clean", "outcome"} : load'[l][x] = load[l][x]
  BY <1>1, <1>2
<1>4. /\ \A x \in {"retained", "seen", "bound", "expected", "typed", "code", "together", "step",
                   "receipt", "current"} :
            load'[l][x] = load[l][x]
  BY <1>3 DEF LoadFields
<1>5. load'[l].phase \in {"cleanup", "done", "crashed"}
  BY <1>3
<1>6. load'[l].phase \in LoadPhases \ Early
  BY <1>5 DEF LoadPhases, Early, Walks
<1>7. LaterStep(l)
  BY <1>1, <1>4, <1>6 DEF LaterStep
<1>8. SourcesInv'
  BY <1>7, LaterRead
<1>9. Artifact(l)' = Artifact(l)
  BY <1>4, ArtifactStays
<1> QED
  BY <1>1, <1>3, <1>4, <1>8, <1>9

\* What is known of a load that takes back what it made.
LEMMA CleaningKnows ==
    ASSUME DynamicsInv, NEW l \in Loads, load[l].phase = "cleanup"
    PROVE  /\ SourcesInv /\ PairInv /\ ScriptIs(l) /\ CurrentIs(l) /\ stage[l] = Off
           /\ \A r \in Roots : own[l][r] # {} => load[l].step >= 3
           /\ stage \in [Loads -> StageSet]
           /\ own \in [Loads -> [Roots -> SUBSET {"dynamics", "directory", "artifact", "receipt"}]]
<1>1. SourcesInv /\ PairInv /\ ScriptIs(l) /\ CurrentIs(l)
  BY DEF DynamicsInv, LoadsInv
<1>2. stage[l] = Off
  BY <1>1 DEF PairInv, StageIs, Publishing, Off
<1>3. \A r \in Roots : own[l][r] # {} => load[l].step >= 3
  BY <1>1 DEF PairInv, OwnIs
<1>4. /\ stage \in [Loads -> StageSet]
      /\ own \in [Loads -> [Roots -> SUBSET {"dynamics", "directory", "artifact", "receipt"}]]
  BY <1>1 DEF PairInv, PairShape
<1> QED
  BY <1>1, <1>2, <1>3, <1>4

\* A load that ends or goes on taking back, and may forget what it made.
LEMMA EndKeeps ==
    ASSUME DynamicsInv, NEW l \in Loads, SourcesInv',
           \A m \in Loads \ {l} : load'[m] = load[m], disk' = disk,
           load'[l].step = load[l].step, load'[l].receipt = load[l].receipt,
           load'[l].current = load[l].current, Artifact(l)' = Artifact(l),
           load'[l].phase \in {"cleanup", "done", "crashed"},
           roots' = roots, stage' = [stage EXCEPT ![l] = Off],
           \A m \in Loads \ {l} : own'[m] = own[m],
           own' \in [Loads -> [Roots -> SUBSET {"dynamics", "directory", "artifact", "receipt"}]],
           \A r \in Roots : own'[l][r] = own[l][r] \/ own'[l][r] = {},
           ScriptIs(l)'
    PROVE  DynamicsInv'
<1>1. PairInv /\ CurrentIs(l)
  BY DEF DynamicsInv, LoadsInv
<1>2. /\ \A m \in Loads \ {l} : stage'[m] = stage[m]
      /\ stage' \in [Loads -> StageSet] /\ stage'[l] = Off
  BY <1>1 DEF StageSet, Off, PairInv, PairShape
<1>3. (\A r \in Roots : own'[l][r] = {}) \/ load'[l].step >= 3
  BY <1>1 DEF PairInv, OwnIs
<1>4. PairInv'
  BY <1>1, <1>2, <1>3, PairStays
<1>5. CurrentIs(l)'
  BY <1>1 DEF CurrentIs, ImportStep
<1> QED
  BY <1>4, <1>5, OneLoad

\* The process is gone.
LEMMA CrashKeeps ==
    ASSUME DynamicsInv, NEW l \in Loads, Crash(l)
    PROVE  DynamicsInv'
<1> DEFINE ch == [phase |-> "crashed", outcome |-> "failed"]
<1>0. SourcesInv /\ LoadShape /\ ScriptIs(l) /\ PairInv /\ CurrentIs(l)
  BY DEF DynamicsInv, LoadsInv, SourcesInv
<1>1. /\ Set(l, ch) /\ disk' = disk /\ edits' = edits /\ roots' = roots
      /\ stage' = [stage EXCEPT ![l] = Off]
      /\ own' = [own EXCEPT ![l] = [r \in Roots |-> {}]]
  BY DEF Crash, Now, Off
<1>2. /\ DOMAIN ch \subseteq {"phase", "clean", "outcome"} /\ "phase" \in DOMAIN ch
      /\ ch.phase = "crashed" /\ "outcome" \in DOMAIN ch /\ ch.outcome = "failed"
  OBVIOUS
<1> HIDE DEF ch
<1>3. /\ SourcesInv' /\ \A m \in Loads \ {l} : load'[m] = load[m]
      /\ load'[l].phase = "crashed" /\ load'[l].outcome = "failed"
      /\ load'[l].step = load[l].step /\ load'[l].receipt = load[l].receipt
      /\ load'[l].current = load[l].current /\ Artifact(l)' = Artifact(l)
  BY <1>2, <1>0, <1>1, EndedRead
<1>4. own \in [Loads -> [Roots -> SUBSET {"dynamics", "directory", "artifact", "receipt"}]]
  BY <1>0 DEF PairInv, PairShape
<1>5. /\ own' \in [Loads -> [Roots -> SUBSET {"dynamics", "directory", "artifact", "receipt"}]]
      /\ \A r \in Roots : own'[l][r] = {}
      /\ \A m \in Loads \ {l} : own'[m] = own[m]
  BY <1>1, <1>4
<1>6. ScriptIs(l)'
  BY <1>0, <1>3 DEF ScriptIs, ImportStep, Script, Scripted, Early, Walks, Examining
<1> QED
  BY <1>1, <1>3, <1>5, <1>6, EndKeeps

\* What the load made is taken away again.
LEMMA CleanupKeeps ==
    ASSUME DynamicsInv, NEW l \in Loads, Cleanup(l)
    PROVE  DynamicsInv'
<1> DEFINE r == Head(load[l].clean)
           rest == Tail(load[l].clean)
<1>0. load[l].phase = "cleanup" /\ load[l].clean # << >> /\ disk' = disk /\ edits' = edits
  BY DEF Cleanup
<1>1. /\ SourcesInv /\ PairInv /\ ScriptIs(l) /\ CurrentIs(l) /\ stage[l] = Off
      /\ stage \in [Loads -> StageSet]
      /\ own \in [Loads -> [Roots -> SUBSET {"dynamics", "directory", "artifact", "receipt"}]]
  BY <1>0, CleaningKnows
<1>2. /\ r \in Roots
      /\ \/ r = Scratch[l] /\ rest = << >> /\ load[l].clean = << Scratch[l] >>
         \/ /\ r = Evidence[l] /\ rest = << Scratch[l] >> /\ load[l].outcome = "failed"
            /\ load[l].clean = << Evidence[l], Scratch[l] >> /\ Evidence[l] # Nothing
      /\ Scratch[l] # Evidence[l] /\ Scratch[l] \in Roots
  <2>1. \/ load[l].clean = << Scratch[l] >>
        \/ load[l].clean = << Evidence[l], Scratch[l] >> /\ load[l].outcome = "failed"
           /\ Evidence[l] # Nothing
    BY <1>0, <1>1 DEF ScriptIs
  <2>2. /\ Scratch[l] # Evidence[l] /\ Scratch[l] \in Roots
        /\ Evidence[l] # Nothing => Evidence[l] \in Roots
    BY RootsAssumption
  <2>3. CASE load[l].clean = << Scratch[l] >>
    BY <2>2, <2>3
  <2>4. CASE load[l].clean = << Evidence[l], Scratch[l] >> /\ load[l].outcome = "failed"
             /\ Evidence[l] # Nothing
    BY <2>2, <2>4
  <2> QED BY <2>1, <2>3, <2>4
<1>3. /\ << Scratch[l] >> # << >> /\ << Evidence[l], Scratch[l] >> # << >>
  OBVIOUS
<1> HIDE DEF r, rest
<1>4. CASE own[l][r] = {} /\ Set(l, [clean |-> rest]) /\ UNCHANGED pairVars
  <2> DEFINE ch == [clean |-> rest]
  <2>1. /\ Set(l, ch) /\ DOMAIN ch \subseteq {"phase", "clean", "outcome"}
        /\ "clean" \in DOMAIN ch /\ "phase" \notin DOMAIN ch /\ "outcome" \notin DOMAIN ch
        /\ ch.clean = rest
    BY <1>4
  <2> HIDE DEF ch
  <2>2. /\ SourcesInv' /\ \A m \in Loads \ {l} : load'[m] = load[m]
        /\ load'[l].phase = "cleanup" /\ load'[l].outcome = load[l].outcome
        /\ load'[l].clean = rest
        /\ load'[l].step = load[l].step /\ load'[l].receipt = load[l].receipt
        /\ load'[l].current = load[l].current /\ Artifact(l)' = Artifact(l)
    BY <1>0, <1>1, <2>1, EndedRead
  <2>3. roots' = roots /\ own' = own /\ stage' = stage /\ stage' = [stage EXCEPT ![l] = Off]
    BY <1>1, <1>4 DEF pairVars
  <2>4. ScriptIs(l)'
    BY <1>0, <1>1, <1>2, <1>4, <2>2, <2>3
       DEF ScriptIs, ImportStep, Script, Scripted, Early, Walks, Examining
  <2> QED BY <1>0, <1>1, <2>2, <2>3, <2>4, EndKeeps
<1>5. CASE RemoveOwn(l, r, Artifact(l)) /\ UNCHANGED load
  <2>1. Placed /\ load' = load
    BY <1>5, AllPlaced
  <2>2. PairInv'
    BY <1>0, <1>1, <1>2, <1>5, <2>1, RemovePair
  <2>3. SourcesInv'
    BY <1>0, <1>1, <2>1, ReadStays DEF SourcesInv, DiskInv, LoadShape
  <2>4. Artifact(l)' = Artifact(l)
    BY <2>1, SameLoad
  <2>5. \E o : own' = [own EXCEPT ![l][r] = o]
    BY <1>5 DEF RemoveOwn
  <2>6. /\ \A m \in Loads \ {l} : own'[m] = own[m]
        /\ \A x \in Roots \ {r} : own'[l][x] = own[l][x]
    BY <2>5, <1>1
  <2>7. load[l].outcome # "failed" => own'[l][Evidence[l]] = own[l][Evidence[l]] \/ Evidence[l] = Nothing
    BY <1>2, <2>6, RootsAssumption
  <2>8. ScriptIs(l)'
    BY <1>0, <1>1, <1>2, <1>3, <2>1, <2>4, <2>7
       DEF ScriptIs, ImportStep, Script, Scripted, Early, Walks, Examining
  <2>9. CurrentIs(l)'
    BY <1>0, <1>1, <2>1, CurrentStays DEF Stale
  <2> QED BY <1>0, <2>1, <2>2, <2>3, <2>6, <2>8, <2>9, OneLoad
<1>6. CASE /\ Set(l, [clean |-> rest, outcome |-> "failed"])
           /\ own' = [own EXCEPT ![l][r] = {}]
           /\ UNCHANGED << roots, stage >>
  <2> DEFINE ch == [clean |-> rest, outcome |-> "failed"]
  <2>1. /\ Set(l, ch) /\ DOMAIN ch \subseteq {"phase", "clean", "outcome"}
        /\ "clean" \in DOMAIN ch /\ "phase" \notin DOMAIN ch /\ "outcome" \in DOMAIN ch
        /\ ch.clean = rest /\ ch.outcome = "failed"
    BY <1>6
  <2> HIDE DEF ch
  <2>2. /\ SourcesInv' /\ \A m \in Loads \ {l} : load'[m] = load[m]
        /\ load'[l].phase = "cleanup" /\ load'[l].outcome = "failed"
        /\ load'[l].clean = rest
        /\ load'[l].step = load[l].step /\ load'[l].receipt = load[l].receipt
        /\ load'[l].current = load[l].current /\ Artifact(l)' = Artifact(l)
    BY <1>0, <1>1, <2>1, EndedRead
  <2>3. roots' = roots /\ stage' = [stage EXCEPT ![l] = Off]
    BY <1>1, <1>6
  <2>4. /\ own' \in [Loads -> [Roots -> SUBSET {"dynamics", "directory", "artifact", "receipt"}]]
        /\ \A m \in Loads \ {l} : own'[m] = own[m]
        /\ own'[l][r] = {} /\ \A x \in Roots \ {r} : own'[l][x] = own[l][x]
    BY <1>1, <1>2, <1>6
  <2>5. ScriptIs(l)'
    BY <1>0, <1>1, <1>2, <2>2, <2>4
       DEF ScriptIs, ImportStep, Script, Scripted, Early, Walks, Examining
  <2>6. \A x \in Roots : own'[l][x] = own[l][x] \/ own'[l][x] = {}
    BY <2>4
  <2> QED BY <1>0, <1>1, <2>2, <2>3, <2>4, <2>5, <2>6, EndKeeps
<1> QED
  BY <1>4, <1>5, <1>6 DEF Cleanup, r, rest

\* The scratch root goes last.
LEMMA RemoveScratchKeeps ==
    ASSUME DynamicsInv, NEW l \in Loads, RemoveScratch(l)
    PROVE  DynamicsInv'
<1> DEFINE ch == [phase |-> "done"]
<1>0. /\ load[l].phase = "cleanup" /\ load[l].clean = << >> /\ disk' = disk /\ edits' = edits
      /\ roots' = [roots EXCEPT ![Scratch[l]] = EmptyRoot] /\ Set(l, ch)
      /\ stage' = stage /\ own' = own
  BY DEF RemoveScratch
<1>1. SourcesInv /\ PairInv /\ ScriptIs(l) /\ CurrentIs(l)
  BY <1>0, CleaningKnows
<1>2. /\ DOMAIN ch \subseteq {"phase", "clean", "outcome"} /\ "phase" \in DOMAIN ch
      /\ ch.phase = "done" /\ "outcome" \notin DOMAIN ch
  OBVIOUS
<1> HIDE DEF ch
<1>3. /\ SourcesInv' /\ \A m \in Loads \ {l} : load'[m] = load[m]
      /\ load'[l].phase = "done" /\ load'[l].outcome = load[l].outcome
      /\ load'[l].step = load[l].step /\ load'[l].receipt = load[l].receipt
      /\ load'[l].current = load[l].current /\ Artifact(l)' = Artifact(l)
  BY <1>2, <1>0, <1>1, EndedRead
<1>4. own[l][Scratch[l]] = {}
  BY <1>0, <1>1 DEF ScriptIs
<1>5. PairInv'
  BY <1>0, <1>1, <1>3, <1>4, AllPlaced, RemoveScratchPair
<1>6. ScriptIs(l)'
  BY <1>0, <1>1, <1>3 DEF ScriptIs, ImportStep, Script, Scripted, Early, Walks, Examining
<1>7. CurrentIs(l)'
  BY <1>0, <1>1, <1>3 DEF CurrentIs, ImportStep
<1> QED
  BY <1>0, <1>3, <1>5, <1>6, <1>7, OneLoad

-----------------------------------------------------------------------------
(* The theorems. *)

\* Nothing is done.
LEMMA DynamicsStutters ==
    ASSUME DynamicsInv, UNCHANGED vars
    PROVE  DynamicsInv'
<1>1. disk' = disk /\ edits' = edits /\ load' = load /\ roots' = roots /\ stage' = stage /\ own' = own
  BY DEF vars, pairVars
<1>2. SourcesInv'
  BY <1>1, ReadStays DEF DynamicsInv, SourcesInv, DiskInv, LoadShape
<1>3. PairInv'
  BY <1>1, PairSame DEF DynamicsInv, LoadsInv
<1>4. \A m \in Loads : ScriptIs(m)'
  BY <1>1, ScriptStays DEF DynamicsInv, LoadsInv
<1>5. \A m \in Loads : CurrentIs(m)'
  BY <1>1, CurrentStays DEF DynamicsInv, LoadsInv, Stale
<1> QED
  BY <1>2, <1>3, <1>4, <1>5 DEF DynamicsInv, LoadsInv

\* Every step keeps the invariant.
LEMMA DynamicsSteps == DynamicsInv /\ [Next]_vars => DynamicsInv'
<1> SUFFICES ASSUME DynamicsInv, [Next]_vars PROVE DynamicsInv'
  OBVIOUS
<1>1. CASE UNCHANGED vars
  BY <1>1, DynamicsStutters
<1>2. CASE \E f \in Editable : Edit(f)
  BY <1>2, EditKeeps
<1>3. ASSUME NEW l \in Loads, Step(l) PROVE DynamicsInv'
  <2>1. CASE Start(l) \/ Walk(l) \/ NextWalk(l) \/ TypeCheck(l) \/ VerifyAll(l)
    BY <2>1, ReadingKeeps
  <2>2. CASE Verified(l)
    BY <2>2, VerifiedKeeps
  <2>3. CASE Examine(l)
    BY <2>3, ExamineKeeps
  <2>4. CASE Conclude(l)
    BY <2>4, ConcludeKeeps
  <2>5. CASE PublishPair(l)
    BY <2>5, PublishKeeps
  <2>6. CASE Import(l)
    BY <2>6, ImportKeeps
  <2>7. CASE CreateProvider(l)
    BY <2>7, CreateKeeps
  <2>8. CASE Cleanup(l)
    BY <2>8, CleanupKeeps
  <2>9. CASE RemoveScratch(l)
    BY <2>9, RemoveScratchKeeps
  <2> QED
    BY <1>3, <2>1, <2>2, <2>3, <2>4, <2>5, <2>6, <2>7, <2>8, <2>9 DEF Step
<1>4. ASSUME NEW l \in Loads, Crash(l) PROVE DynamicsInv'
  BY <1>4, CrashKeeps
<1> QED
  BY <1>1, <1>2, <1>3, <1>4 DEF Next

\* The invariant holds at all times.
THEOREM DynamicsInvAlways == Spec => []DynamicsInv
<1>1. Init => DynamicsInv
  BY DynamicsStarts
<1>2. DynamicsInv /\ [Next]_vars => DynamicsInv'
  BY DynamicsSteps
<1> QED
  BY <1>1, <1>2, PTL DEF Spec

\* Whenever a build is prepared, all it was made from lay on the disk together at
\* one moment, however the project was edited while its files were read one by
\* one: the second reading finds out whatever was lost in between, because a file
\* that was edited never has the retained bytes again (build.ts, verifyAll).
THEOREM SourcesCoexistAlways == Spec => []SourcesCoexist
<1>1. DynamicsInv => SourcesCoexist
  BY DEF DynamicsInv, SourcesInv, ReadInv, ReadBytes, ReadBound, ReadTogether, SourcesCoexist
<1> QED
  BY <1>1, DynamicsInvAlways, PTL

\* The evidence a load leaves: what it hands out was imported while its sources
\* were what the receipt says, the receipt is of this very build, and the evidence
\* pair stays where it is whatever other loads do; and no receipt is ever without
\* its artifact, whichever load crashes, fails or is removing what it made
\* (buildLoad.ts, buildLoadFiles.ts).
THEOREM LoadsEvidencedAlways == Spec => []LoadsEvidenced
<1>1. DynamicsInv => LoadsEvidenced
  <2> SUFFICES ASSUME DynamicsInv PROVE LoadsEvidenced
    OBVIOUS
  <2>1. PairInv
    BY DEF DynamicsInv, LoadsInv
  <2>2. ASSUME NEW r \in Roots, roots[r].receipt.state = "sealed"
        PROVE  PairSealed(r, roots[r].receipt.body.artifact, roots[r].receipt.body)
    BY <2>1, <2>2 DEF PairInv, PairShape, RootIs, PairSealed
  <2>3. ASSUME NEW l \in Loads, load[l].outcome = "loaded"
        PROVE  /\ load[l].current /\ load[l].receipt.artifact = Artifact(l)
               /\ Evidence[l] # Nothing => PairSealed(Evidence[l], Artifact(l), load[l].receipt)
    <3>1. ScriptIs(l) /\ CurrentIs(l)
      BY DEF DynamicsInv, LoadsInv
    <3>2. load[l].step = ImportStep(l) + 3
      BY <2>3, <3>1 DEF ScriptIs
    <3>3. load[l].current /\ load[l].receipt.artifact = Artifact(l) /\ load[l].step >= 8
      BY <3>1, <3>2 DEF ScriptIs, CurrentIs, ImportStep
    <3>4. ASSUME Evidence[l] # Nothing
          PROVE  PairSealed(Evidence[l], Artifact(l), load[l].receipt)
      <4> DEFINE r == Evidence[l]
      <4>1. r \in Roots
        BY <3>4, RootsAssumption
      <4>2. "receipt" \in own[l][r]
        BY <2>3, <3>1, <3>3, <3>4 DEF ScriptIs
      <4>3. OwnIs(l, r)
        BY <2>1, <4>1 DEF PairInv
      <4>4. roots[r].receipt = [state |-> "sealed", body |-> load[l].receipt]
        BY <4>2, <4>3 DEF OwnIs
      <4>5. roots[r].receipt.state = "sealed" /\ roots[r].receipt.body = load[l].receipt
        BY <4>4
      <4>6. PairSealed(r, roots[r].receipt.body.artifact, roots[r].receipt.body)
        BY <2>2, <4>1, <4>5
      <4> QED BY <3>3, <4>5, <4>6
    <3> QED BY <3>3, <3>4
  <2> QED BY <2>2, <2>3 DEF LoadsEvidenced, LoadedIsEvidenced, ReceiptHasArtifact
<1> QED
  BY <1>1, DynamicsInvAlways, PTL
=============================================================================
