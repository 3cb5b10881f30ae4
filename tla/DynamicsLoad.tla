---------------------------- MODULE DynamicsLoad -----------------------------
(***************************************************************************)
(* Loading an authored dynamics provider (loadCore.ts): the sources are    *)
(* walked and retained, bundled, type-checked and read again (build.ts), a *)
(* receipt ties them to the npm locks (buildReceipt*.ts), and the pair is  *)
(* published, copied and imported (buildLoad.ts), each file read in a step *)
(* of its own while someone edits the project.                             *)
(*                                                                         *)
(* The pair a load leaves in a root is the bundled provider, in a          *)
(* directory named by its digest, and one receipt (buildLoadFiles.ts).     *)
(* Loads publish into the same root one file operation at a time; each     *)
(* file is written beside its place, its place reserved, the file renamed  *)
(* over the reservation and then made read-only.  A load takes away only   *)
(* what it made itself.                                                    *)
(***************************************************************************)
EXTENDS Naturals, Sequences, FiniteSets, SequencesExt

CONSTANTS
    Loads,      \* loads under way in this process or in several
    Roots,      \* directories a pair is published in
    Nothing,    \* no file there
    Files, Entry,       \* regular files; the module the simfile names
    Project, Places,    \* who owns a file: the project, or an installed package
    Owner, Rel,         \* each source's owner, and its path below it
    Name, ManifestOf,   \* each place's package name and package.json
    Surface,            \* the place of simfile itself
    Specs, Relative,    \* module specifiers; those that are relative
    RunSpecs, TypeSpecs,        \* what each version of a source imports
    RunCandidates, TypeCandidates,  \* what a specifier may resolve to, in order
    TypeEntries,        \* the type surface and the configured types
    ToolLock, ProjectManifest, ProjectLock,
    Locked,             \* [lock -> [version -> set of <<place, manifest version>>]]
    Agree,              \* package.json and lock versions with one set of dependencies
    SelfLink,           \* project lock version -> simfile version it links, or 0
    Scratch, Evidence,  \* each load's scratch root, and its evidence root or Nothing
    Editable, MaxEdits, InitialDisk

\* Sources are files with one owner and one path below it; a package.json is none.
ASSUME SourcesAssumption ==
    /\ IsFiniteSet(Files)
    /\ DOMAIN Owner \subseteq Files
    /\ {Entry} \union TypeEntries \subseteq DOMAIN Owner
    /\ \A f \in DOMAIN Owner : Owner[f] \in Places \union {Project}
    /\ \A f, g \in DOMAIN Owner : Owner[f] = Owner[g] /\ Rel[f] = Rel[g] => f = g
    /\ \A p \in Places : ManifestOf[p] \in Files \ DOMAIN Owner

\* A version is counted from 1 by the edits; specifiers resolve to sources.
ASSUME VersionsAssumption ==
    /\ MaxEdits \in Nat
    /\ InitialDisk \in [Files -> [version : Nat, there : BOOLEAN]]
    /\ \A f \in Files : InitialDisk[f].there => InitialDisk[f].version > 0
    /\ \A f \in DOMAIN Owner : \A v \in 0..(InitialDisk[f].version + MaxEdits) :
          RunSpecs[f][v] \union TypeSpecs[f][v] \subseteq Specs
    /\ \A x \in Specs : /\ RunCandidates[x] \in Seq(DOMAIN Owner)
                         /\ TypeCandidates[x] \in Seq(DOMAIN Owner)

\* Every load has a scratch root of its own (loadCore.ts:86), apart from every
\* evidence root (buildLoad.ts:47).
ASSUME RootsAssumption ==
    /\ Nothing \notin Roots
    /\ Scratch \in [Loads -> Roots]
    /\ Evidence \in [Loads -> Roots \union {Nothing}]
    /\ \A l, m \in Loads : /\ Scratch[l] # Evidence[m]
                           /\ Scratch[l] = Scratch[m] => l = m

VARIABLES
    roots,      \* what each root holds
    stage,      \* how far each load is with the pair it publishes
    own,        \* what each load made in each root
    disk,       \* each file's version, and whether it is there
    edits,      \* how often the project was edited
    load        \* each load

pairVars == << roots, stage, own >>

\* The one receipt of a root, as its writer takes it from place to content to mode.
NoReceipt == [state |-> "absent", body |-> Nothing]

EmptyRoot ==
    [ dynamics |-> FALSE, dirs |-> {}, sealed |-> {}, open |-> {},
      temps |-> {}, receipt |-> NoReceipt ]

Kinds == {"artifact", "receipt"}

PairInit ==
    /\ roots = [r \in Roots |-> EmptyRoot]
    /\ stage = [l \in Loads |-> [do |-> "off", of |-> "pair"]]
    /\ own = [l \in Loads |-> [r \in Roots |-> {}]]

\* What lies at the path of a file: an artifact's path is its digest's, the
\* receipt has one path per root.
Occupied(r, kind, a) ==
    IF kind = "artifact" THEN a \in roots[r].sealed \union roots[r].open
                         ELSE roots[r].receipt # NoReceipt

\* The pair of artifact a and a receipt of that body is there, read-only.
PairSealed(r, a, body) ==
    /\ roots[r].dynamics
    /\ a \in roots[r].dirs
    /\ a \in roots[r].sealed
    /\ roots[r].receipt = [state |-> "sealed", body |-> body]

Owning(l, r, what) == own' = [own EXCEPT ![l][r] = @ \union {what}]

\* What a load is about to do, of the pair or of one of its files.
Publishing(l, kind, what) == stage[l] = [do |-> what, of |-> kind]

Now(l, kind, what) == stage' = [stage EXCEPT ![l] = [do |-> what, of |-> kind]]

MakeDynamics(l, r) ==
    /\ Publishing(l, "pair", "off")
    /\ IF roots[r].dynamics THEN UNCHANGED own ELSE Owning(l, r, "dynamics")
    /\ roots' = [roots EXCEPT ![r].dynamics = TRUE]
    /\ Now(l, "pair", "absent")

ReceiptAbsent(l, r) ==
    /\ Publishing(l, "pair", "absent")
    /\ Now(l, "pair", IF roots[r].receipt = NoReceipt THEN "directory" ELSE "failed")
    /\ UNCHANGED << roots, own >>

\* The directory of the digest: someone else's is not taken over, and another
\* load may have taken the whole of dynamics/ away meanwhile.
MakeDirectory(l, r, a) ==
    /\ Publishing(l, "pair", "directory")
    /\ IF roots[r].dynamics /\ a \notin roots[r].dirs
       THEN /\ roots' = [roots EXCEPT ![r].dirs = @ \union {a}]
            /\ Owning(l, r, "directory")
            /\ Now(l, "artifact", "write")
       ELSE /\ Now(l, "pair", "failed")
            /\ UNCHANGED << roots, own >>

WriteTemporary(l, r, a, kind) ==
    /\ Publishing(l, kind, "write")
    /\ roots' = [roots EXCEPT ![r].temps = @ \union {<< l, kind, a >>}]
    /\ Now(l, kind, "reserve")
    /\ UNCHANGED own

WithoutTemporary(r, l, kind, a) ==
    [roots EXCEPT ![r].temps = @ \ {<< l, kind, a >>}]

Reserve(l, r, a, kind) ==
    /\ Publishing(l, kind, "reserve")
    /\ IF Occupied(r, kind, a)
       THEN /\ roots' = WithoutTemporary(r, l, kind, a)
            /\ Now(l, "pair", "failed")
       ELSE /\ roots' = IF kind = "artifact"
                        THEN [roots EXCEPT ![r].open = @ \union {a}]
                        ELSE [roots EXCEPT ![r].receipt =
                                [state |-> "reserved", body |-> Nothing]]
            /\ Now(l, kind, "rename")
    /\ UNCHANGED own

Rename(l, r, a, kind, body) ==
    /\ Publishing(l, kind, "rename")
    /\ LET moved == WithoutTemporary(r, l, kind, a) IN
       roots' = IF kind = "artifact" THEN moved
                ELSE [moved EXCEPT ![r].receipt = [state |-> "written", body |-> body]]
    /\ Now(l, kind, "seal")
    /\ UNCHANGED own

Seal(l, r, a, kind) ==
    /\ Publishing(l, kind, "seal")
    /\ roots' = IF kind = "artifact"
                THEN [roots EXCEPT ![r].open = @ \ {a}, ![r].sealed = @ \union {a}]
                ELSE [roots EXCEPT ![r].receipt.state = "sealed"]
    /\ Owning(l, r, kind)
    /\ IF kind = "artifact" THEN Now(l, "receipt", "write") ELSE Now(l, "pair", "published")

\* A write, the sync, the rename, chmod or the check fails: the temporary and
\* the reserved place go with it, and nothing else.
PublishFails(l, r, a, kind) ==
    /\ \/ Publishing(l, kind, "reserve")
       \/ Publishing(l, kind, "rename")
       \/ Publishing(l, kind, "seal")
    /\ LET gone == WithoutTemporary(r, l, kind, a) IN
       roots' = CASE Publishing(l, kind, "reserve") -> gone
                  [] kind = "artifact" -> [gone EXCEPT ![r].open = @ \ {a}]
                  [] OTHER -> [gone EXCEPT ![r].receipt = NoReceipt]
    /\ Now(l, "pair", "failed")
    /\ UNCHANGED own

Publish(l, r, a, body) ==
    \/ MakeDynamics(l, r)
    \/ ReceiptAbsent(l, r)
    \/ MakeDirectory(l, r, a)
    \/ \E kind \in Kinds :
        \/ WriteTemporary(l, r, a, kind)
        \/ Reserve(l, r, a, kind)
        \/ Rename(l, r, a, kind, body)
        \/ Seal(l, r, a, kind)
        \/ PublishFails(l, r, a, kind)

-----------------------------------------------------------------------------
\* Cleanup, one removal at a time: receipt, artifact, its directory, dynamics/.
\* Mutant: the artifact goes before the receipt.
FaultyRemoving == << "artifact", "receipt", "directory", "dynamics" >>

Removing == << "receipt", "artifact", "directory", "dynamics" >>

NextOwn(l, r) ==
    LET left == {i \in 1..4 : Removing[i] \in own[l][r]}
    IN  Removing[CHOOSE i \in left : \A j \in left : i <= j]

\* rmdir refuses a directory that is not empty.
RemoveFails(r, a, what) ==
    \/ what = "directory" /\ \/ Occupied(r, "artifact", a)
                             \/ \E t \in roots[r].temps : t[2] = "artifact" /\ t[3] = a
    \/ what = "dynamics" /\ \/ roots[r].dirs # {}
                            \/ roots[r].receipt # NoReceipt
                            \/ \E t \in roots[r].temps : t[2] = "receipt"

RemoveOwn(l, r, a) ==
    LET what == NextOwn(l, r) IN
    /\ own[l][r] # {}
    /\ ~RemoveFails(r, a, what)
    /\ roots' = CASE what = "receipt" -> [roots EXCEPT ![r].receipt = NoReceipt]
                  [] what = "artifact" -> [roots EXCEPT ![r].sealed = @ \ {a}]
                  [] what = "directory" -> [roots EXCEPT ![r].dirs = @ \ {a}]
                  [] OTHER -> [roots EXCEPT ![r].dynamics = FALSE]
    /\ own' = [own EXCEPT ![l][r] = @ \ {what}]
    /\ UNCHANGED stage

-----------------------------------------------------------------------------
vars == << disk, edits, load, pairVars >>

Sources == DOMAIN Owner
\* The manifests of the packages that sources belong to, one for each source.
Manifests(found) ==
    LET installed == SetToSeq({f \in found : Owner[f] # Project})
    IN  [i \in DOMAIN installed |-> ManifestOf[Owner[installed[i]]]]
Authorities == {"toolchain", "project"}
NoEvidence == [manifest |-> 0, lock |-> 0]

Idle ==
    [ phase |-> "idle", queue |-> << >>, seen |-> {}, bound |-> {},
      expected |-> {}, code |-> << >>, typed |-> {}, step |-> 0,
      retained |-> [f \in Files |-> 0],
      authority |-> [a \in Authorities |-> NoEvidence],
      receipt |-> Nothing, clean |-> << >>, outcome |-> "none",
      together |-> FALSE, current |-> FALSE ]

Init ==
    /\ disk = InitialDisk
    /\ edits = 0
    /\ load = [l \in Loads |-> Idle]
    /\ PairInit

Set(l, changes) ==
    load' = [load EXCEPT ![l] = [x \in DOMAIN @ |->
                IF x \in DOMAIN changes THEN changes[x] ELSE @[x]]]

-----------------------------------------------------------------------------
\* Someone edits the project: a file gets contents it never had, or goes.
Edit(f) ==
    /\ edits < MaxEdits
    /\ edits' = edits + 1
    /\ \/ disk' = [disk EXCEPT ![f] = [version |-> @.version + 1, there |-> TRUE]]
       \/ disk[f].there /\ disk' = [disk EXCEPT ![f].there = FALSE]
    /\ UNCHANGED << load, pairVars >>

-----------------------------------------------------------------------------
\* A failure: what is published is taken back, an evidence pair only if it was
\* not yet verified.  The scratch root goes in any case.
Fail(l) ==
    /\ Set(l, [phase |-> "cleanup", outcome |-> "failed", queue |-> << >>,
               clean |-> IF load[l].phase \in {"evidence", "evidenceCheck"}
                         THEN << Evidence[l], Scratch[l] >> ELSE << Scratch[l] >>])
    /\ Now(l, "pair", "off")
    /\ UNCHANGED << disk, edits, roots, own >>

\* The snapshot (buildSourceSnapshot.ts) keeps the first bytes it read of a
\* file; reading others later, or none, ends the build.
Changed(l, f) ==
    \/ ~disk[f].there
    \/ load[l].retained[f] # 0 /\ load[l].retained[f] # disk[f].version

Observed(l, f) == [load[l].retained EXCEPT ![f] = disk[f].version]

Present(s) == {i \in DOMAIN s : disk[s[i]].there}
First(s, in) == s[CHOOSE i \in in : \A j \in in : i <= j]

\* Which files the specifiers of a source resolve to, as the disk is now: in
\* the type-check walk and for erased imports declarations come first.
Erased(l, f, x) ==
    \/ load[l].phase = "surface"
    \/ x \notin RunSpecs[f][disk[f].version]
Candidates(l, f, x) == IF Erased(l, f, x) THEN TypeCandidates[x] ELSE RunCandidates[x]
Followed(l, f) ==
    RunSpecs[f][disk[f].version] \union
        (IF load[l].phase \in {"graph", "bundle"} THEN {} ELSE TypeSpecs[f][disk[f].version])
Target(l, f, x) == First(Candidates(l, f, x), Present(Candidates(l, f, x)))
Targets(l, f) == {Target(l, f, x) : x \in Followed(l, f)}

Unresolved(l, f) == \E x \in Followed(l, f) : Present(Candidates(l, f, x)) = {}
Escapes(l, f) == \E x \in Followed(l, f) \intersect Relative : Owner[Target(l, f, x)] # Owner[f]

Walks == {"preflight", "graph", "bundle", "surface"}

\* One file of a walk: a package's manifest on the way to its source, a source
\* and then what it imports.  The runtime graph stays within what preflight
\* bound, and esbuild may load nothing that is not in that graph.
Walk(l) ==
    LET me == load[l]
        f == Head(me.queue)
        rest == Tail(me.queue)
        found == Targets(l, f) \ me.seen
    IN
    /\ me.phase \in Walks /\ me.queue # << >>
    /\ IF \/ Changed(l, f)
          \/ me.phase = "bundle" /\ f \in Sources /\ f \notin me.expected
          \/ /\ f \in Sources \ me.seen
             /\ \/ Unresolved(l, f)
                \/ Escapes(l, f)
                \/ me.phase = "graph" /\ ~(Targets(l, f) \subseteq me.bound)
       THEN Fail(l)
       ELSE /\ Set(l, IF f \in Sources \ me.seen
                      THEN [retained |-> Observed(l, f), seen |-> me.seen \union {f},
                            queue |-> Manifests(found) \o rest \o SetToSeq(found),
                            code |-> IF me.phase # "bundle" THEN me.code
                                     ELSE [g \in DOMAIN me.code \union {f} |->
                                             IF g = f THEN Observed(l, f)[f] ELSE me.code[g]]]
                      ELSE [retained |-> Observed(l, f), queue |-> rest])
            /\ UNCHANGED << disk, edits, pairVars >>

Start(l) ==
    /\ load[l].phase = "idle"
    /\ IF disk[Entry].there
       THEN Set(l, [phase |-> "preflight", queue |-> << Entry >>])
       ELSE Set(l, [phase |-> "done", outcome |-> "failed"])
    /\ UNCHANGED << disk, edits, pairVars >>

\* The end of one walk and the start of the next.  The bundle's inputs must be
\* the runtime graph exactly.
NextWalk(l) ==
    LET me == load[l] IN
    /\ me.phase \in Walks \ {"surface"} /\ me.queue = << >>
    /\ IF me.phase = "bundle" /\ me.seen # me.expected THEN Fail(l) ELSE
       /\ Set(l, CASE me.phase = "preflight" ->
                        [phase |-> "graph", queue |-> << Entry >>, seen |-> {}, bound |-> me.seen]
                   [] me.phase = "graph" ->
                        [phase |-> "bundle", queue |-> << Entry >>, seen |-> {}, expected |-> me.seen]
                   [] OTHER ->
                        [phase |-> "surface", queue |-> SetToSeq(me.bound \union TypeEntries),
                         seen |-> {}])
       /\ UNCHANGED << disk, edits, pairVars >>

\* What the compiler reads from a set of roots when it may see only the files
\* the walks bound.
Frozen(l) == load[l].bound \union load[l].seen
TypeTargets(l, f) ==
    LET v == load[l].retained[f]
        visible(x) == {i \in DOMAIN TypeCandidates[x] : TypeCandidates[x][i] \in Frozen(l)}
    IN  {First(TypeCandidates[x], visible(x)) :
            x \in {y \in RunSpecs[f][v] \union TypeSpecs[f][v] : visible(y) # {}}}
TypeClosure(l) ==
    LET closed == {S \in SUBSET Sources :
                     /\ DOMAIN load[l].code \union TypeEntries \subseteq S
                     /\ \A f \in S : TypeTargets(l, f) \subseteq S}
    IN  {f \in Sources : \A S \in closed : f \in S}

\* The type-check is synchronous: every file it takes is read again at once.
\* Then the sources and manifests read so far are to be read once more.
TypeCheck(l) ==
    LET me == load[l] IN
    /\ me.phase = "surface" /\ me.queue = << >>
    /\ IF \E f \in TypeClosure(l) : Changed(l, f) THEN Fail(l) ELSE
       /\ Set(l, [phase |-> "verify", typed |-> TypeClosure(l), seen |-> {}, bound |-> {},
                  expected |-> {},
                  queue |-> SetToSeq({f \in Files : me.retained[f] # 0}),
                  together |-> \A f \in Files : me.retained[f] # 0 => ~Changed(l, f)])
       /\ UNCHANGED << disk, edits, pairVars >>

\* Mutant: verifyAll does not compare what it reads with the retained bytes.
FaultyVerifyAll(l) ==
    /\ load[l].phase = "verify" /\ load[l].queue # << >>
    /\ Set(l, [queue |-> Tail(load[l].queue)])
    /\ UNCHANGED << disk, edits, pairVars >>

VerifyAll(l) ==
    LET me == load[l] IN
    /\ me.phase = "verify" /\ me.queue # << >>
    /\ IF Changed(l, Head(me.queue)) THEN Fail(l)
       ELSE /\ Set(l, [queue |-> Tail(me.queue)])
            /\ UNCHANGED << disk, edits, pairVars >>

-----------------------------------------------------------------------------
\* The prepared build: its inputs, and the digests of their bytes and of the
\* manifests of the packages they belong to.
Inputs(l) == DOMAIN load[l].code \union load[l].typed
Of(l, who) == {f \in Inputs(l) : Owner[f] \in who}
Digests(l) ==
    [f \in Inputs(l) \union {ManifestOf[Owner[g]] : g \in Of(l, Places)} |-> load[l].retained[f]]
Artifact(l) == [code |-> load[l].code, closure |-> Digests(l)]

\* Descriptors of one package version and path are not told apart.
WellFormed(l) ==
    /\ Owner[Entry] = Project /\ Entry \in DOMAIN load[l].code
    /\ \A f, g \in Of(l, Places \ {Surface}) :
          /\ Name[Owner[f]] = Name[Owner[g]]
          /\ load[l].retained[ManifestOf[Owner[f]]] = load[l].retained[ManifestOf[Owner[g]]]
          /\ Rel[f] = Rel[g]
          => f = g

\* What a receipt looks at, in order.
Items(l) ==
    LET each(do, S) == [i \in 1..Cardinality(S) |-> [do |-> do, of |-> SetToSeq(S)[i]]] IN
       each("project", Of(l, {Project}))
    \o << [do |-> "authority", of |-> "toolchain"], [do |-> "authority", of |-> "project"] >>
    \o each("package", Of(l, Places \ {Surface}))
    \o (IF Of(l, {Surface}) = {} THEN << >> ELSE << [do |-> "surface", of |-> Surface] >>)

AuthorityFiles(a) ==
    IF a = "toolchain" THEN << ManifestOf[Surface], ToolLock >>
                       ELSE << ProjectManifest, ProjectLock >>

\* Installed packages that a lock in authority lists under the name and version,
\* and those of them with the very manifest and source the build took.
Listed(l, f) ==
    LET locks == {a \in Authorities : load[l].authority[a] # NoEvidence} IN
    {lp \in {<< AuthorityFiles(a)[2], p >> : a \in locks, p \in Places} :
        \E a \in locks :
          /\ AuthorityFiles(a)[2] = lp[1] /\ Name[lp[2]] = Name[Owner[f]]
          /\ << lp[2], load[l].retained[ManifestOf[Owner[f]]] >>
                \in Locked[lp[1]][load[l].authority[a].lock]}

SameAs(l, f, g) == disk[g] = [version |-> load[l].retained[f], there |-> TRUE]

Matches(l, f) ==
    {lp \in Listed(l, f) :
        /\ SameAs(l, ManifestOf[Owner[f]], ManifestOf[lp[2]])
        /\ \E g \in Sources : Owner[g] = lp[2] /\ Rel[g] = Rel[f] /\ SameAs(l, f, g)}

PackageHolds(l, f) ==
    /\ \A lp \in Listed(l, f) :
          /\ disk[ManifestOf[lp[2]]].there
          /\ SameAs(l, ManifestOf[Owner[f]], ManifestOf[lp[2]])
                => \E g \in Sources : Owner[g] = lp[2] /\ Rel[g] = Rel[f] /\ disk[g].there
    /\ Cardinality(Matches(l, f)) = 1

\* An authority: package.json and its lock, both or (for the project) neither,
\* agreeing on the dependencies; a link to simfile goes to the very toolchain.
LockAgrees(m, k) ==
    /\ disk[m].there /\ disk[k].there
    /\ << m, disk[m].version, disk[k].version >> \in Agree

LinksThisSimfile(l, k) ==
    LET linked == SelfLink[disk[k].version]
    IN  linked # 0 => linked = load[l].authority["toolchain"].manifest

AuthorityHolds(l, a) ==
    LET m == AuthorityFiles(a)[1]  k == AuthorityFiles(a)[2] IN
    \/ a = "project" /\ ~disk[m].there /\ ~disk[k].there
    \/ LockAgrees(m, k) /\ (a = "project" => LinksThisSimfile(l, k))

ReadAuthority(a) ==
    LET m == AuthorityFiles(a)[1]  k == AuthorityFiles(a)[2] IN
    IF disk[m].there THEN [manifest |-> disk[m].version, lock |-> disk[k].version]
                     ELSE NoEvidence

Same(l, f) == SameAs(l, f, f)

ItemHolds(l, item) ==
    CASE item.do = "build" -> WellFormed(l)
      [] item.do = "pair" -> PairSealed(item.of, Artifact(l), load[l].receipt)
      [] item.do = "project" -> Same(l, item.of)
      [] item.do = "authority" -> AuthorityHolds(l, item.of)
      [] item.do = "package" -> PackageHolds(l, item.of)
      [] OTHER -> \A f \in Of(l, {Surface}) \union {ManifestOf[Surface]} : Same(l, f)

Receipt(l) == [artifact |-> Artifact(l), authority |-> load[l].authority]

-----------------------------------------------------------------------------
\* The rest of a load, step by step: wherever the pair is checked the receipt
\* is issued anew from the disk and must come out the same.
\* Mutant: nothing is verified after the import.
FaultyScript(l) ==
    IF Evidence[l] = Nothing
    THEN << "issue", "assert", "scratch", "scratchCheck", "scratchCheck", "import", "create" >>
    ELSE << "issue", "assert", "scratch", "scratchCheck", "scratchCheck", "scratchCheck",
            "evidence", "evidenceCheck", "import", "create" >>

Script(l) ==
    IF Evidence[l] = Nothing
    THEN << "issue", "assert", "scratch", "scratchCheck", "scratchCheck",
            "import", "scratchCheck", "scratchCheck", "create" >>
    ELSE << "issue", "assert", "scratch", "scratchCheck", "scratchCheck", "scratchCheck",
            "evidence", "evidenceCheck", "import", "scratchCheck", "scratchCheck", "create" >>

RootOf(l, phase) ==
    IF phase \in {"evidence", "evidenceCheck"} THEN Evidence[l] ELSE Scratch[l]

Examining == {"issue", "assert", "scratchCheck", "evidenceCheck"}

\* On to a step of the script, with what its receipt has to look at.
Enter(l, n, changes) ==
    LET phase == Script(l)[n]
        pair == IF phase \in {"issue", "assert"} THEN << >>
                ELSE << [do |-> "pair", of |-> RootOf(l, phase)] >>
    IN  Set(l, [x \in DOMAIN changes \union {"step", "phase", "queue", "authority"} |->
                  CASE x = "step" -> n
                    [] x = "phase" -> phase
                    [] x = "queue" -> IF phase \in Examining THEN pair \o Items(l) ELSE << >>
                    [] x = "authority" -> [a \in Authorities |-> NoEvidence]
                    [] OTHER -> changes[x]])

Verified(l) ==
    /\ load[l].phase = "verify" /\ load[l].queue = << >>
    /\ Enter(l, 1, << >>)
    /\ UNCHANGED << disk, edits, pairVars >>

Examine(l) ==
    LET item == Head(load[l].queue) IN
    /\ load[l].phase \in Examining /\ load[l].queue # << >>
    /\ IF ~ItemHolds(l, item) THEN Fail(l)
       ELSE /\ Set(l, IF item.do = "authority"
                      THEN [queue |-> Tail(load[l].queue),
                            authority |-> [load[l].authority EXCEPT ![item.of] = ReadAuthority(item.of)]]
                      ELSE [queue |-> Tail(load[l].queue)])
            /\ UNCHANGED << disk, edits, pairVars >>

Conclude(l) ==
    LET me == load[l] IN
    /\ me.phase \in Examining /\ me.queue = << >>
    /\ IF me.phase # "issue" /\ Receipt(l) # me.receipt THEN Fail(l)
       ELSE /\ Enter(l, me.step + 1, [receipt |-> Receipt(l)])
            /\ UNCHANGED << disk, edits, pairVars >>

PublishPair(l) ==
    /\ load[l].phase \in {"scratch", "evidence"}
    /\ CASE Publishing(l, "pair", "failed") -> Fail(l)
         [] Publishing(l, "pair", "published") ->
              /\ Now(l, "pair", "off")
              /\ Enter(l, load[l].step + 1, << >>)
              /\ UNCHANGED << disk, edits, roots, own >>
         [] OTHER -> /\ Publish(l, RootOf(l, load[l].phase), Artifact(l), load[l].receipt)
                     /\ UNCHANGED << disk, edits, load >>

\* The provider is imported from the scratch pair.  Its sources are in use then, a
\* package that is installed twice perhaps as the other copy.
InUse(l) ==
    \A f \in Inputs(l) :
       \/ Same(l, f)
       \/ /\ Owner[f] \in Places \ {Surface}
          /\ \E p \in Places \ {Owner[f]} : Name[p] = Name[Owner[f]]

Import(l) ==
    /\ load[l].phase = "import"
    /\ Enter(l, load[l].step + 1, [current |-> InUse(l)])
    /\ UNCHANGED << disk, edits, pairVars >>

CreateProvider(l) ==
    /\ load[l].phase = "create"
    /\ \E outcome \in {"loaded", "failed"} :
          Set(l, [phase |-> "cleanup", clean |-> << Scratch[l] >>, outcome |-> outcome])
    /\ UNCHANGED << disk, edits, pairVars >>

\* What the load made is removed; a removal that fails makes the load fail, and
\* the rest of that root's pair stays.
Cleanup(l) ==
    LET me == load[l]  r == Head(me.clean)  a == Artifact(l) IN
    /\ me.phase = "cleanup" /\ me.clean # << >>
    /\ \/ /\ own[l][r] = {}
          /\ Set(l, [clean |-> Tail(me.clean)])
          /\ UNCHANGED pairVars
       \/ RemoveOwn(l, r, a) /\ UNCHANGED load
       \/ /\ own[l][r] # {} /\ RemoveFails(r, a, NextOwn(l, r))
          /\ Set(l, [clean |-> Tail(me.clean), outcome |-> "failed"])
          /\ own' = [own EXCEPT ![l][r] = {}]
          /\ UNCHANGED << roots, stage >>
    /\ UNCHANGED << disk, edits >>

RemoveScratch(l) ==
    /\ load[l].phase = "cleanup" /\ load[l].clean = << >>
    /\ roots' = [roots EXCEPT ![Scratch[l]] = EmptyRoot]
    /\ Set(l, [phase |-> "done"])
    /\ UNCHANGED << disk, edits, stage, own >>

\* The process is gone; what lies on the disk stays.
Crash(l) ==
    /\ load[l].phase \notin {"idle", "done", "crashed"}
    /\ Set(l, [phase |-> "crashed", outcome |-> "failed"])
    /\ own' = [own EXCEPT ![l] = [r \in Roots |-> {}]]
    /\ Now(l, "pair", "off")
    /\ UNCHANGED << disk, edits, roots >>

Step(l) ==
    \/ Start(l) \/ Walk(l) \/ NextWalk(l) \/ TypeCheck(l) \/ VerifyAll(l) \/ Verified(l)
    \/ Examine(l) \/ Conclude(l) \/ PublishPair(l) \/ Import(l) \/ CreateProvider(l)
    \/ Cleanup(l) \/ RemoveScratch(l)

Next ==
    \/ \E f \in Editable : Edit(f)
    \/ \E l \in Loads : Step(l) \/ Crash(l)

Spec == Init /\ [][Next]_vars /\ \A l \in Loads : WF_vars(Step(l))

-----------------------------------------------------------------------------
\* Whenever a build is prepared, all it was made from lay on the disk together at
\* one moment, however the files were edited while it read them one by one, and
\* every bundled file had been bound by the walk before with the bytes bundled.
SourcesCoexist ==
    \A l \in Loads :
      /\ load[l].step > 0 => load[l].together
      /\ \A f \in DOMAIN load[l].code : load[l].code[f] = load[l].retained[f]
      /\ load[l].phase = "surface" => DOMAIN load[l].code \subseteq load[l].bound

\* A provider that is handed out was imported while its sources were what the
\* receipt says; the receipt is that of this very build and, where evidence was
\* asked for, the evidence pair is there from then on, whatever other loads do.
LoadedIsEvidenced ==
    \A l \in Loads : load[l].outcome = "loaded" =>
      /\ load[l].current
      /\ load[l].receipt.artifact = Artifact(l)
      /\ Evidence[l] # Nothing => PairSealed(Evidence[l], Artifact(l), load[l].receipt)

\* A sealed receipt always has its sealed artifact beside it: a reader of a root
\* never finds a receipt without what it is the receipt of, and no crash, failure
\* or cleanup leaves one.
ReceiptHasArtifact ==
    \A r \in Roots :
      roots[r].receipt.state = "sealed" =>
         PairSealed(r, roots[r].receipt.body.artifact, roots[r].receipt.body)

\* What a load says of the evidence it leaves.
LoadsEvidenced == LoadedIsEvidenced /\ ReceiptHasArtifact

\* Every load ends, one way or the other.
LoadEnds == \A l \in Loads : [](load[l].phase # "idle" => <>(load[l].phase \in {"done", "crashed"}))
=============================================================================
