----------------------------- MODULE MCArtifacts ------------------------------
(***************************************************************************)
(* Three parts of how a world gets from its sources to a running process,  *)
(* which share nothing: the load of a dynamics provider, the cache of      *)
(* prepared bundles, the sidecar.  Each is explored while the other two    *)
(* have not begun.                                                         *)
(***************************************************************************)
EXTENDS DynamicsLoad, PreparedBundle, WorldSidecar

-------------------------------------------------------------------------------
(* One load while the project is edited twice, or two loads into one       *)
(* evidence root while nobody edits it.  The entry imports a helper, whose *)
(* other spelling (found first) does not exist yet, one package and the    *)
(* erased dynamics types.                                                  *)

CONSTANTS l1, l2, s1, s2, ev, entry, helper, shadow, dep, types, depManifest,
          simManifest, toolLock, manifest, lock, Nobody, depPlace, simPlace

AllFiles == {entry, helper, shadow, dep, types, depManifest, simManifest,
             toolLock, manifest, lock}
Owners == [f \in {entry, helper, shadow, dep, types} |->
             CASE f = dep -> depPlace [] f = types -> simPlace [] OTHER -> Nobody]
OwnPath == [f \in DOMAIN Owners |-> f]
PlaceNames == [p \in {depPlace, simPlace} |-> p]
PackageFiles == [p \in {depPlace, simPlace} |-> IF p = depPlace THEN depManifest ELSE simManifest]

AllSpecs == {"helper", "dep", "types"}
Runs == [f \in DOMAIN Owners |-> [v \in 0..3 |->
           IF f # entry THEN {} ELSE IF v = 1 THEN {"helper", "dep"} ELSE {"helper"}]]
Types == [f \in DOMAIN Owners |-> [v \in 0..3 |-> IF f = entry THEN {"types"} ELSE {}]]
Resolves == [x \in AllSpecs |->
               CASE x = "helper" -> << shadow, helper >>
                 [] x = "dep" -> << dep >> [] OTHER -> << types >>]
AllTypeEntries == {types}

Listing == [k \in {toolLock, lock} |-> [v \in 0..3 |->
              IF k = lock /\ v = 1 THEN {<< depPlace, 1 >>} ELSE {}]]
Agreement == {<< simManifest, 1, 1 >>, << manifest, 1, 1 >>, << manifest, 1, 2 >>}
Links == [v \in 0..3 |-> IF v = 1 THEN 1 ELSE 0]

OwnScratch == [l \in {l1, l2} |-> IF l = l1 THEN s1 ELSE s2]
OneEvidence == [l \in {l1, l2} |-> ev]
Edited == {entry, helper, shadow, dep, depManifest, lock}
OnDisk == [f \in AllFiles |-> [version |-> IF f = shadow THEN 0 ELSE 1, there |-> f # shadow]]

\* Two loads only when nobody edits, and edits only with one load.
OneLoadOrNoEdit ==
  \/ load[l2].phase = "idle" /\ \E f \in Editable : Edit(f)
  \/ Step(l1) \/ Crash(l1)
  \/ edits = 0 /\ (Step(l2) \/ Crash(l2))

-------------------------------------------------------------------------------
(* The cache and the sidecar, and the three beside each other.             *)

CONSTANTS c1, c2, provider, tool, source, composer

AllInputs == {provider, tool, source, composer}
ByLabel == << composer, provider, source, tool >>
LocksAndTools == << tool >>
AsWalked == << source >>
AsLoaded == << composer >>

NoCall == \A c \in Callers : call[c].phase = "idle"
NoLoad == \A l \in Loads : load[l].phase = "idle"
NoStart == root.starts = 0 /\ ~root.proves /\ ~root.controlled

ArtifactsInit == Init /\ CacheInit /\ SidecarInit
LoadPart ==
  NoCall /\ NoStart /\ changes = 0 /\ losses = 0 /\ OneLoadOrNoEdit
  /\ UNCHANGED << cacheVars, sidecarVars >>
CachePart == NoLoad /\ edits = 0 /\ NoStart /\ CacheNext /\ UNCHANGED << vars, sidecarVars >>
SidecarPart ==
  NoLoad /\ edits = 0 /\ NoCall /\ changes = 0 /\ losses = 0 /\ SidecarNext
  /\ UNCHANGED << vars, cacheVars >>

ArtifactsNext == LoadPart \/ CachePart \/ SidecarPart
ArtifactsVars == << vars, cacheVars, sidecarVars >>
Artifacts == ArtifactsInit /\ [][ArtifactsNext]_ArtifactsVars /\ FairSidecar
=============================================================================
