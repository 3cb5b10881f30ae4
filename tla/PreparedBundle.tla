---------------------------- MODULE PreparedBundle ----------------------------
(***************************************************************************)
(* The cache of prepared world sidecar bundles (preparedBundleCache.ts)    *)
(* and the build behind it (prepare.ts, artifact.ts, composerBuild.ts,     *)
(* runnableBundle.ts).  Several processes hash the declared inputs, look   *)
(* the digest up, build and publish, each file read in a step of its own   *)
(* while someone edits them; processes and the machine may go down.        *)
(***************************************************************************)
EXTENDS Naturals, Sequences

CONSTANTS
    Callers,        \* processes that ask for a bundle
    InputFiles,     \* every file the build reads
    Declared,       \* the declared inputs, sorted by label
    Provider,       \* the files of the simfile and its dynamics provider
    Authority,      \* locks and tools, as they are read
    Service,        \* the sources of the generic entrypoint, as walked
    Composer,       \* the composer's sources, as esbuild loads them
    MaxChanges,     \* bound: edits of the inputs
    MaxLosses       \* bound: losses of power

Elements(s) == {s[i] : i \in DOMAIN s}

ASSUME BuildReadsDeclared ==
    /\ Declared \in Seq(InputFiles) /\ Authority \in Seq(InputFiles)
    /\ Service \in Seq(InputFiles) /\ Composer \in Seq(InputFiles)
    /\ Provider \subseteq InputFiles
    /\ InputFiles = Elements(Declared)
    /\ MaxChanges \in Nat /\ MaxLosses \in Nat

VARIABLES
    content,    \* the version of each input
    changes,    \* how often an input was edited
    losses,     \* how often the power went
    cache,      \* the published entries, by input digest
    pending,    \* callers whose temporary file is there
    call        \* each caller

cacheVars == << content, changes, losses, cache, pending, call >>

Versions == 1..(MaxChanges + 1)
Unread == 0
Nowhere == [f \in InputFiles |-> Unread]

\* A digest stands for the version of every declared input; a bundle for the
\* versions it was built from, in its three parts.
Digest == [InputFiles -> Versions]
Part == [InputFiles -> Versions \union {Unread}]
Bundle == [provider : Part, service : Part, composer : Part]
NoBundle == [provider |-> Nowhere, service |-> Nowhere, composer |-> Nowhere]

Phases == {"idle", "hash", "lookUp", "provider", "authority", "service", "verify",
           "serviceBuilt", "composer", "composerBuilt", "write", "link", "unlink", "confirm", "returned", "rejected", "gone"}

Asking ==
    [ phase |-> "idle", at |-> 1, digest |-> Nowhere, bundle |-> NoBundle,
      built |-> FALSE, undisturbed |-> TRUE, together |-> TRUE ]

CacheInit ==
    /\ content = [f \in InputFiles |-> 1]
    /\ changes = 0
    /\ losses = 0
    /\ cache = << >>
    /\ pending = {}
    /\ call = [c \in Callers |-> Asking]

\* An edit gives a file contents it never had.
EditInput(f) ==
    /\ changes < MaxChanges
    /\ changes' = changes + 1
    /\ content' = [content EXCEPT ![f] = @ + 1]
    /\ call' = [c \in Callers |-> [call[c] EXCEPT !.undisturbed = FALSE]]
    /\ UNCHANGED << losses, cache, pending >>

-----------------------------------------------------------------------------
Goes(c, phase) == call' = [call EXCEPT ![c].phase = phase, ![c].at = 1]

Ask(c) ==
    /\ call[c].phase = "idle"
    /\ call' = [call EXCEPT ![c].phase = "hash", ![c].undisturbed = TRUE]
    /\ UNCHANGED << content, changes, losses, cache, pending >>

\* The declared inputs are hashed one by one.
HashInput(c) ==
    LET i == call[c].at IN
    /\ call[c].phase = "hash" /\ i \in DOMAIN Declared
    /\ call' = [call EXCEPT ![c].digest[Declared[i]] = content[Declared[i]], ![c].at = i + 1]
    /\ UNCHANGED << content, changes, losses, cache, pending >>

Identified(c) ==
    /\ call[c].phase = "hash" /\ call[c].at \notin DOMAIN Declared
    /\ Goes(c, "lookUp")
    /\ UNCHANGED << content, changes, losses, cache, pending >>

\* An entry is taken only if it parses and every digest in it agrees; anything
\* else than a missing file rejects the call for good.
Valid(held) == held.whole

LookUp(c) ==
    LET d == call[c].digest IN
    /\ call[c].phase = "lookUp"
    /\ IF d \notin DOMAIN cache THEN Goes(c, "provider")
       ELSE IF Valid(cache[d])
            THEN call' = [call EXCEPT ![c].phase = "returned", ![c].bundle = cache[d].bundle]
            ELSE Goes(c, "rejected")
    /\ UNCHANGED << content, changes, losses, cache, pending >>

-----------------------------------------------------------------------------
\* The provider's own build reads its sources under a snapshot of its own (module
\* DynamicsLoad); seen from here it takes what was there at one moment.
BuildProvider(c) ==
    /\ call[c].phase = "provider"
    /\ \/ call' = [call EXCEPT ![c].phase = "authority",
                      ![c].bundle.provider =
                          [f \in InputFiles |-> IF f \in Provider THEN content[f] ELSE Unread]]
       \/ Goes(c, "rejected")
    /\ UNCHANGED << content, changes, losses, cache, pending >>

Retain(c, f) == [call EXCEPT ![c].bundle.service[f] = content[f], ![c].at = @ + 1]

\* The generic entrypoint: the locks, then the tools they must list, each file of
\* which is retained before it is loaded.
LoadTools(c) ==
    LET i == call[c].at IN
    /\ call[c].phase = "authority"
    /\ \/ IF i \in DOMAIN Authority THEN call' = Retain(c, Authority[i])
                                    ELSE Goes(c, "service")
       \/ Goes(c, "rejected")
    /\ UNCHANGED << content, changes, losses, cache, pending >>

\* Then every source the walk reaches; a broken owner or import ends the build.
WalkService(c) ==
    LET i == call[c].at IN
    /\ call[c].phase = "service" /\ i \in DOMAIN Service
    /\ call' = Retain(c, Service[i]) \/ Goes(c, "rejected")
    /\ UNCHANGED << content, changes, losses, cache, pending >>

Snapshot == Authority \o Service

\* esbuild reads only what was walked, through the same snapshot.
BundleService(c) ==
    /\ call[c].phase = "service" /\ call[c].at \notin DOMAIN Service
    /\ call' = [call EXCEPT ![c].phase = "verify", ![c].at = 1,
                   ![c].together = \A f \in Elements(Snapshot) :
                                       call[c].bundle.service[f] = content[f]]
    /\ UNCHANGED << content, changes, losses, cache, pending >>

\* Mutant: what was retained is not read again.
FaultyVerifyService(c) ==
    /\ call[c].phase = "verify"
    /\ Goes(c, "serviceBuilt")
    /\ UNCHANGED << content, changes, losses, cache, pending >>

\* snapshot.verifyAll(): every retained file is read again.
VerifyService(c) ==
    LET i == call[c].at IN
    /\ call[c].phase = "verify"
    /\ IF i \notin DOMAIN Snapshot THEN Goes(c, "serviceBuilt")
       ELSE IF content[Snapshot[i]] = call[c].bundle.service[Snapshot[i]]
            THEN call' = [call EXCEPT ![c].at = i + 1]
            ELSE Goes(c, "rejected")
    /\ UNCHANGED << content, changes, losses, cache, pending >>

\* One output, plain ESM, its inputs exactly the walk's, and a manifest of it.
SealService(c) ==
    /\ call[c].phase = "serviceBuilt"
    /\ Goes(c, "composer") \/ Goes(c, "rejected")
    /\ UNCHANGED << content, changes, losses, cache, pending >>

\* The composer's sources are each read once, and not again.
LoadComposer(c) ==
    LET i == call[c].at  f == Composer[i] IN
    /\ call[c].phase = "composer" /\ i \in DOMAIN Composer
    /\ call' = [call EXCEPT ![c].bundle.composer[f] = content[f], ![c].at = i + 1]
    /\ UNCHANGED << content, changes, losses, cache, pending >>

\* The provenance must name exactly the sources that were read.
SealComposer(c) ==
    /\ call[c].phase = "composer" /\ call[c].at \notin DOMAIN Composer
    /\ Goes(c, "composerBuilt") \/ Goes(c, "rejected")
    /\ UNCHANGED << content, changes, losses, cache, pending >>

\* Every part is checked against its manifest once more and packed.
SealBundle(c) ==
    /\ call[c].phase = "composerBuilt"
    /\ \/ call' = [call EXCEPT ![c].phase = "write", ![c].at = 1, ![c].built = TRUE]
       \/ Goes(c, "rejected")
    /\ UNCHANGED << content, changes, losses, cache, pending >>

-----------------------------------------------------------------------------
WritePending(c) ==
    /\ call[c].phase = "write"
    /\ pending' = pending \union {c}
    /\ Goes(c, "link")
    /\ UNCHANGED << content, changes, losses, cache >>

Published(d, bundle) ==
    [e \in DOMAIN cache \union {d} |->
        IF e = d THEN [whole |-> TRUE, lasting |-> FALSE, bundle |-> bundle] ELSE cache[e]]

\* Mutant: the temporary is renamed over whatever is there.
FaultyLinkEntry(c) ==
    /\ call[c].phase = "link"
    /\ cache' = Published(call[c].digest, call[c].bundle)
    /\ Goes(c, "unlink")
    /\ UNCHANGED << content, changes, losses, pending >>

\* link() never replaces an entry: whoever was first stays.
LinkEntry(c) ==
    /\ call[c].phase = "link"
    /\ IF call[c].digest \in DOMAIN cache THEN UNCHANGED cache
       ELSE cache' = Published(call[c].digest, call[c].bundle)
    /\ Goes(c, "unlink")
    /\ UNCHANGED << content, changes, losses, pending >>

\* A temporary that cannot be removed is left.
UnlinkPending(c) ==
    /\ call[c].phase = "unlink"
    /\ pending' \in {pending, pending \ {c}}
    /\ Goes(c, "confirm")
    /\ UNCHANGED << content, changes, losses, cache >>

\* What is there now is read back and must be what this caller built.
Confirm(c) ==
    LET held == cache[call[c].digest] IN
    /\ call[c].phase = "confirm"
    /\ IF Valid(held) /\ held.bundle = call[c].bundle
       THEN Goes(c, "returned")
       ELSE Goes(c, "rejected")
    /\ UNCHANGED << content, changes, losses, cache, pending >>

\* A file operation fails.
FileFails(c) ==
    /\ call[c].phase \in {"hash", "lookUp", "write", "link", "confirm"}
    /\ pending' = IF call[c].phase = "link" THEN pending \ {c} ELSE pending
    /\ Goes(c, "rejected")
    /\ UNCHANGED << content, changes, losses, cache >>

Working(c) == call[c].phase \notin {"idle", "returned", "rejected", "gone"}

CallerDies(c) ==
    /\ Working(c)
    /\ Goes(c, "gone")
    /\ UNCHANGED << content, changes, losses, cache, pending >>

\* The power goes: nothing was synced, so an entry that has not reached the disk
\* may be missing or incomplete afterwards.
PowerLoss ==
    /\ losses < MaxLosses
    /\ losses' = losses + 1
    /\ call' = [c \in Callers |->
                  IF call[c].phase = "idle" THEN call[c] ELSE [Asking EXCEPT !.phase = "gone"]]
    /\ \E kept \in SUBSET DOMAIN cache : \E whole \in SUBSET kept :
         /\ \A d \in DOMAIN cache : cache[d].lasting => d \in kept /\ (cache[d].whole => d \in whole)
         /\ cache' = [d \in kept |->
                        [cache[d] EXCEPT !.lasting = TRUE, !.whole = @ /\ d \in whole]]
    /\ UNCHANGED << content, changes, pending >>

CallStep(c) ==
    \/ Ask(c) \/ HashInput(c) \/ Identified(c) \/ LookUp(c)
    \/ BuildProvider(c)
    \/ LoadTools(c) \/ WalkService(c) \/ BundleService(c) \/ VerifyService(c) \/ SealService(c)
    \/ LoadComposer(c) \/ SealComposer(c) \/ SealBundle(c)
    \/ WritePending(c) \/ LinkEntry(c) \/ UnlinkPending(c) \/ Confirm(c) \/ FileFails(c)

CacheNext ==
    \/ \E f \in InputFiles : EditInput(f)
    \/ \E c \in Callers : CallStep(c) \/ CallerDies(c)
    \/ PowerLoss

CacheSpec == CacheInit /\ [][CacheNext]_cacheVars

-----------------------------------------------------------------------------
CacheTypeOK ==
    /\ content \in Digest
    /\ changes \in 0..MaxChanges /\ losses \in 0..MaxLosses
    /\ pending \subseteq Callers
    /\ DOMAIN cache \subseteq Digest
    /\ \A d \in DOMAIN cache :
         cache[d] \in [whole : BOOLEAN, lasting : BOOLEAN, bundle : Bundle]
    /\ call \in [Callers -> [phase : Phases, at : Nat, digest : Part, bundle : Bundle,
                             built : BOOLEAN, undisturbed : BOOLEAN, together : BOOLEAN]]

\* Two processes that hold a bundle for the same inputs hold the same bundle,
\* however many of them built it at once, whatever was edited meanwhile and
\* whichever of them died on the way.
CacheAgrees ==
    \A c, d \in Callers :
      (/\ call[c].phase = "returned" /\ call[d].phase = "returned"
       /\ call[c].digest = call[d].digest) => call[c].bundle = call[d].bundle

\* A caller that built and got a bundle got its own, whose generic entrypoint
\* was made from files that lay on the disk together at one moment; if nobody
\* edited an input from the first hash on, the bundle is that of the digest.
BuiltAsHashed ==
    \A c \in Callers : (call[c].phase = "returned" /\ call[c].built) =>
      /\ call[c].together
      /\ call[c].undisturbed =>
           /\ \A f \in Provider : call[c].bundle.provider[f] = call[c].digest[f]
           /\ \A f \in Elements(Snapshot) : call[c].bundle.service[f] = call[c].digest[f]
           /\ \A f \in Elements(Composer) : call[c].bundle.composer[f] = call[c].digest[f]

\* What the cache of bundles promises the processes that share it.
BundlesExact == CacheAgrees /\ BuiltAsHashed
=============================================================================
