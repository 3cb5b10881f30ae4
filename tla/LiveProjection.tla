---------------------------- MODULE LiveProjection ----------------------------
(***************************************************************************)
(* The live viewer projection of a composed run (liveViewerProjection.ts). *)
(*                                                                         *)
(* An observer (productionViewerProjection.ts) polls the running world for *)
(* snapshots of its public trace and publishes each new one into the run's *)
(* staging directory as four files, one after the other: the snapshot, the *)
(* ledger of sources, the frames, and a declaration that names the         *)
(* snapshot.  Any write may fail, and so may the writes that undo it.  At  *)
(* the terminal phase one last snapshot is taken; then the live files make *)
(* way for recorded ones and the record is sealed (runRecord.ts).  A       *)
(* reader looks up the declaration and then the snapshot it names.         *)
(*                                                                         *)
(* Snapshots are cumulative: one taken at tick t has a sample of every     *)
(* tick up to t.                                                           *)
(***************************************************************************)
EXTENDS Integers, Sequences, SequencesExt, FiniteSets

CONSTANTS
    MaxTick,        \* bound: the last tick of the world
    MaxFaults       \* bound: how many captures and writes fail

ASSUME LiveProjectionAssumption == MaxTick \in Nat /\ MaxFaults \in Nat

VARIABLES
    world,      \* the world's tick, and whether its run has ended
    obs,        \* the observer: its loop and the snapshot it published last
    mem,        \* what the projection has committed
    job,        \* the publication under way
    disk,       \* the live files in the staging directory
    late,       \* undoing writes nobody waits for any more
    record,     \* the run record, and what was overwritten since its hashing
    held,       \* the declaration the reader holds
    faults

projectionVars == << world, obs, mem, job, disk, late, record, held, faults >>

Shot == [tick : -1 .. MaxTick, final : BOOLEAN]

Number == 0 .. MaxTick + 2

Entry == [number : Number, shot : Shot]

Row == [tick : 0 .. MaxTick, source : Number]

ProjectionTypeOK ==
    /\ world \in [tick : 0 .. MaxTick, final : BOOLEAN]
    /\ obs \in [ stage : {"polling", "publishing", "aborted", "terminal",
                          "settled"},
                 wanted : BOOLEAN, last : Shot ]
    /\ mem \in [ count : Number, frontier : -1 .. MaxTick, rows : Seq(Row),
                 ledger : Seq(Entry), declared : SUBSET Entry ]
    /\ job \in [ step : {"none", "snapshot", "ledger", "frames",
                         "declaration", "undo", "undoFiles",
                         "undoDeclaration"}, shot : Shot ]
    /\ disk \in [ snaps : SUBSET Entry, ledger : Seq(Entry), frames : Seq(Row),
                  declaration : SUBSET Entry ]
    /\ late \subseteq [ file : {"ledger", "frames"}, rows : Seq(Row),
                        ledger : Seq(Entry) ]
    /\ record \in [ stage : {"open", "removing", "writing", "ready", "hashed",
                             "sealed", "failed", "aborted"},
                    rows : Seq(Row), ledger : Seq(Entry), snaps : SUBSET Entry,
                    replaced : SUBSET {"ledger", "frames"} ]
    /\ held \subseteq Entry /\ Cardinality(held) <= 1
    /\ faults \in 0 .. MaxFaults

Nothing == [tick |-> -1, final |-> FALSE]

NoFiles == [snaps |-> {}, ledger |-> << >>, frames |-> << >>, declaration |-> {}]

ProjectionInit ==
    /\ world = [tick |-> 0, final |-> FALSE]
    /\ obs = [stage |-> "polling", wanted |-> FALSE, last |-> Nothing]
    /\ mem = [ count |-> 0, frontier |-> -1, rows |-> << >>, ledger |-> << >>,
               declared |-> {} ]
    /\ job = [step |-> "none", shot |-> Nothing]
    /\ disk = NoFiles
    /\ late = {}
    /\ record = [ stage |-> "open", rows |-> << >>, ledger |-> << >>,
                  snaps |-> {}, replaced |-> {} ]
    /\ held = {}
    /\ faults = 0

Fails == faults < MaxFaults /\ faults' = faults + 1

-----------------------------------------------------------------------------
(* The world.                                                              *)

Tick ==
    /\ ~world.final /\ world.tick < MaxTick
    /\ world' = [world EXCEPT !.tick = @ + 1]
    /\ UNCHANGED << obs, mem, job, disk, late, record, held, faults >>

Terminal ==
    /\ ~world.final
    /\ world' = [world EXCEPT !.final = TRUE]
    /\ UNCHANGED << obs, mem, job, disk, late, record, held, faults >>

-----------------------------------------------------------------------------
(* The observer.                                                           *)

(* Faulty: the loop goes on after every publication. *)
FaultyAfterPublication == "polling"

(* Where the observer is when a publication of its loop has ended. *)
AfterPublication ==
    CASE obs.stage = "terminal" -> "settled"
      [] obs.stage = "publishing" -> IF obs.wanted THEN "aborted" ELSE "polling"

(* A snapshot is read, and published unless it is the one published last.  *)
Captures(publishing, idle) ==
    /\ UNCHANGED << world, mem, disk, late, record, held >>
    /\ \/ /\ Fails
          /\ obs' = [obs EXCEPT !.stage = idle]
          /\ UNCHANGED job
       \/ /\ obs.last = world
          /\ obs' = [obs EXCEPT !.stage = idle]
          /\ UNCHANGED << job, faults >>
       \/ /\ obs.last # world
          /\ obs' = [obs EXCEPT !.stage = publishing]
          /\ job' = [step |-> "snapshot", shot |-> world]
          /\ UNCHANGED faults

Capture ==
    /\ obs.stage = "polling" /\ record.stage = "open"
    /\ Captures("publishing", "polling")

(* pauseWorld: the loop is stopped first. *)
PauseWorld ==
    /\ world.final /\ ~obs.wanted /\ record.stage = "open"
    /\ obs' = [obs EXCEPT !.wanted = TRUE,
                          !.stage = IF @ = "polling" THEN "aborted" ELSE @]
    /\ UNCHANGED << world, mem, job, disk, late, record, held, faults >>

TerminalCapture ==
    /\ obs.stage = "aborted"
    /\ Captures("terminal", "settled")

-----------------------------------------------------------------------------
(* A publication, one write at a time.                                     *)

Current == mem.count + 1

(* Faulty: a snapshot is named after its tick, the terminal one too. *)
FaultyCandidate == [number |-> job.shot.tick + 1, shot |-> job.shot]

Candidate == [number |-> Current, shot |-> job.shot]

(* Faulty: every sample is taken to be fresh. *)
FaultyCandidateRows ==
    mem.rows \o [i \in 1 .. job.shot.tick + 1 |->
                    [tick |-> i - 1, source |-> Current]]

(* Faulty: the fresh samples replace the rows there were. *)
FaultyFreshRows ==
    [i \in 1 .. job.shot.tick - mem.frontier |->
        [tick |-> mem.frontier + i, source |-> Current]]

(* The samples after the frontier follow the rows there are. *)
CandidateRows ==
    mem.rows \o [i \in 1 .. job.shot.tick - mem.frontier |->
                    [tick |-> mem.frontier + i, source |-> Current]]

CandidateLedger == Append(mem.ledger, Candidate)

(* What a write makes of the files. *)
Written ==
    CASE job.step = "snapshot" ->
            [disk EXCEPT !.snaps =
                {e \in @ : e.number # Candidate.number} \union {Candidate}]
      [] job.step = "ledger" -> [disk EXCEPT !.ledger = CandidateLedger]
      [] job.step = "frames" -> [disk EXCEPT !.frames = CandidateRows]
      [] job.step = "declaration" -> [disk EXCEPT !.declaration = {Candidate}]

NextStep ==
    [snapshot |-> "ledger", ledger |-> "frames", frames |-> "declaration"]
        [job.step]

Write ==
    /\ job.step \in {"snapshot", "ledger", "frames"}
    /\ disk' = Written
    /\ job' = [job EXCEPT !.step = NextStep]
    /\ UNCHANGED << world, obs, mem, late, record, held, faults >>

(* The declaration commits the publication. *)
Commit ==
    /\ job.step = "declaration"
    /\ disk' = Written
    /\ mem' = [ count |-> Current, frontier |-> job.shot.tick,
                rows |-> CandidateRows, ledger |-> CandidateLedger,
                declared |-> {Candidate} ]
    /\ obs' = [obs EXCEPT !.last = job.shot, !.stage = AfterPublication]
    /\ job' = [job EXCEPT !.step = "none"]
    /\ UNCHANGED << world, late, record, held, faults >>

WriteFails ==
    /\ job.step \in {"snapshot", "ledger", "frames", "declaration"}
    /\ Fails
    /\ job' = [job EXCEPT !.step = "undo"]
    /\ UNCHANGED << world, obs, mem, disk, late, record, held >>

Undo ==
    /\ job.step = "undo"
    /\ disk' = [disk EXCEPT !.snaps = {e \in @ : e.number # Current}]
    /\ job' = [job EXCEPT !.step = "undoFiles"]
    /\ UNCHANGED << world, obs, mem, late, record, held, faults >>

(* The first publication leaves nothing behind. *)
UndoFirst ==
    /\ job.step = "undoFiles" /\ mem.count = 0
    /\ disk' = [NoFiles EXCEPT !.snaps = disk.snaps]
    /\ job' = [job EXCEPT !.step = "none"]
    /\ obs' = [obs EXCEPT !.stage = AfterPublication]
    /\ UNCHANGED << world, mem, late, record, held, faults >>

(* Ledger and frames are written back side by side; when one of the two    *)
(* fails, the other is not waited for.                                     *)
UndoFiles ==
    /\ job.step = "undoFiles" /\ mem.count > 0
    /\ \E o \in [{"ledger", "frames"} -> {"done", "failed", "late"}] :
          /\ IF \A f \in DOMAIN o : o[f] = "done" THEN UNCHANGED faults
             ELSE /\ \E f \in DOMAIN o : o[f] = "failed"
                  /\ Fails
          /\ disk' = [disk EXCEPT
                !.ledger = IF o["ledger"] = "done" THEN mem.ledger ELSE @,
                !.frames = IF o["frames"] = "done" THEN mem.rows ELSE @]
          /\ late' = late \union
                {[file |-> f, rows |-> mem.rows, ledger |-> mem.ledger] :
                    f \in {g \in DOMAIN o : o[g] = "late"}}
    /\ job' = [job EXCEPT !.step = "undoDeclaration"]
    /\ UNCHANGED << world, obs, mem, record, held >>

UndoDeclaration ==
    /\ job.step = "undoDeclaration"
    /\ \/ /\ disk' = [disk EXCEPT !.declaration = mem.declared]
          /\ UNCHANGED faults
       \/ Fails /\ UNCHANGED disk
    /\ job' = [job EXCEPT !.step = "none"]
    /\ obs' = [obs EXCEPT !.stage = AfterPublication]
    /\ UNCHANGED << world, mem, late, record, held >>

(* It may land at any time, also while the record is being sealed; what it *)
(* makes once the staging directory is gone is not in the record.          *)
LateWrite(w) ==
    /\ w \in late
    /\ late' = late \ {w}
    /\ disk' = IF record.stage \in {"sealed", "failed", "aborted"} THEN disk
               ELSE IF w.file = "ledger" THEN [disk EXCEPT !.ledger = w.ledger]
               ELSE [disk EXCEPT !.frames = w.rows]
    /\ record' = IF record.stage = "hashed"
                 THEN [record EXCEPT !.replaced = @ \union {w.file}] ELSE record
    /\ UNCHANGED << world, obs, mem, job, held, faults >>

-----------------------------------------------------------------------------
(* The record.                                                             *)

(* finalize() removes the declaration before what it names. *)
Finalize ==
    /\ obs.stage = "settled" /\ record.stage = "open"
    /\ disk' = [disk EXCEPT !.declaration = {}]
    /\ record' = [record EXCEPT !.stage = "removing"]
    /\ UNCHANGED << world, obs, mem, job, late, held, faults >>

RemoveTransientFiles ==
    /\ record.stage = "removing"
    /\ disk' = NoFiles
    /\ record' = [record EXCEPT !.stage =
                    IF mem.count = 0 THEN "ready" ELSE "writing"]
    /\ UNCHANGED << world, obs, mem, job, late, held, faults >>

(* What is recorded: ledger, snapshots and frames as they were committed.  *)
Recorded ==
    [stage |-> "ready", rows |-> mem.rows, ledger |-> mem.ledger,
     snaps |-> ToSet(mem.ledger), replaced |-> {}]

(* writeArtifacts() creates each file; one that is there fails the group,  *)
(* which is rolled back.                                                   *)
WriteArtifacts ==
    /\ record.stage = "writing"
    /\ \/ /\ disk.ledger = << >> /\ disk.frames = << >>
          /\ record' = Recorded
          /\ disk' = [disk EXCEPT !.ledger = mem.ledger, !.frames = mem.rows,
                                  !.snaps = ToSet(mem.ledger)]
          /\ UNCHANGED faults
       \/ /\ disk.ledger # << >> \/ disk.frames # << >>
          /\ record' = [record EXCEPT !.stage = "ready"]
          /\ UNCHANGED << disk, faults >>
       \/ /\ Fails
          /\ record' = [record EXCEPT !.stage = "ready"]
          /\ UNCHANGED disk
    /\ UNCHANGED << world, obs, mem, job, late, held >>

(* Faulty: what was written is taken to be there still. *)
FaultyUnchanged == TRUE

Unchanged ==
    record.ledger # << >> =>
        disk.ledger = record.ledger /\ disk.frames = record.rows

(* The artifacts are hashed once more; a seal that fails leaves the        *)
(* directory as it is.                                                     *)
HashArtifacts ==
    /\ record.stage = "ready"
    /\ record' = [record EXCEPT !.stage =
                    IF Unchanged THEN "hashed" ELSE "failed"]
    /\ UNCHANGED << world, obs, mem, job, disk, late, held, faults >>

(* They are listed under those hashes, and the staging directory renamed   *)
(* into place; by then nobody looks at them again.                         *)
SealRun ==
    /\ record.stage = "hashed"
    /\ record' = [record EXCEPT !.stage = "sealed"]
    /\ UNCHANGED << world, obs, mem, job, disk, late, held, faults >>

(* A lifecycle that fails closes the observer and discards the record.     *)
AbortRun ==
    /\ obs.stage \in {"polling", "settled"} /\ record.stage = "open"
    /\ record' = [record EXCEPT !.stage = "aborted"]
    /\ obs' = [obs EXCEPT !.stage = "settled"]
    /\ disk' = NoFiles
    /\ UNCHANGED << world, mem, job, late, held, faults >>

-----------------------------------------------------------------------------
(* The reader: readStagingViewerExtensionData.                             *)

ReadDeclaration ==
    /\ held = {} /\ disk.declaration # {}
    /\ held' = disk.declaration
    /\ UNCHANGED << world, obs, mem, job, disk, late, record, faults >>

ReadSnapshot ==
    /\ held # {}
    /\ held' = {}
    /\ UNCHANGED << world, obs, mem, job, disk, late, record, faults >>

-----------------------------------------------------------------------------
Observe == Capture \/ PauseWorld \/ TerminalCapture

Publish ==
    \/ Write \/ Commit \/ WriteFails
    \/ Undo \/ UndoFirst \/ UndoFiles \/ UndoDeclaration

Complete ==
    Finalize \/ RemoveTransientFiles \/ WriteArtifacts \/ HashArtifacts \/ SealRun

ProjectionNext ==
    \/ Tick \/ Terminal
    \/ Observe \/ Publish \/ Complete \/ AbortRun
    \/ \E w \in late : LateWrite(w)
    \/ ReadDeclaration \/ ReadSnapshot

ProjectionSpec == ProjectionInit /\ [][ProjectionNext]_projectionVars

(* The composed run goes on once its world has ended; captures are bounded *)
(* by their timeout and the file system answers.                           *)
FairProjection ==
    /\ ProjectionSpec
    /\ WF_projectionVars(PauseWorld) /\ WF_projectionVars(TerminalCapture) /\ WF_projectionVars(Publish)
    /\ WF_projectionVars(Complete)

-----------------------------------------------------------------------------
(* Properties.                                                             *)

(* What the declaration names is there, with that content, however far a   *)
(* publication, its undoing or the finalisation has come: a reader that    *)
(* finds none of it but ENOENT is always reading a generation that went    *)
(* away after it looked (publish, removeTransientFiles).                   *)
DeclarationResolves == disk.declaration \subseteq disk.snaps

(* A reader between its two reads finds the snapshot it was promised or    *)
(* none, never another one under the same name, although a publication     *)
(* that failed leaves its number to the next (`current` in publish).       *)
ReaderNeverMismatched ==
    \A e \in held, d \in disk.snaps : e.number = d.number => e = d

(* No reader of the staging directory is misled. *)
ReaderSafe ==
    /\ ProjectionTypeOK
    /\ DeclarationResolves
    /\ ReaderNeverMismatched

(* The frames a follower tails by byte offset only ever grow or shrink at  *)
(* the end, also when a publication is undone and another takes its place. *)
FramesOnlyExtend ==
    [][ LET t(rows) == [i \in DOMAIN rows |-> rows[i].tick] IN
        \/ IsPrefix(t(disk.frames), t(disk'.frames))
        \/ IsPrefix(t(disk'.frames), t(disk.frames)) ]_projectionVars

(* What is recorded is whole: every sample of every published tick once,   *)
(* each from a snapshot that is ledgered and kept.                         *)
RowsAccounted ==
    /\ \A i \in 1 .. Len(record.rows) : record.rows[i].tick = i - 1
    /\ Len(record.rows) - 1 = Last(record.ledger).shot.tick
    /\ \A i \in 1 .. Len(record.rows) :
          \E e \in record.snaps :
             /\ e.number = record.rows[i].source
             /\ e \in ToSet(record.ledger)
             /\ record.rows[i].tick <= e.shot.tick

(* The files are those that were hashed.  The exception: seal() hashes and *)
(* then awaits two writes and a sync before it renames, and an undoing     *)
(* write that nobody waited for may land in between; it puts a file back   *)
(* to an older generation of itself, and the manifest names another one.   *)
(* It takes two failures; with fewer the directory is what is listed.      *)
SealedAsHashed ==
    /\ record.ledger # << >> =>
          /\ "ledger" \notin record.replaced => disk.ledger = record.ledger
          /\ "frames" \notin record.replaced => disk.frames = record.rows
          /\ IsPrefix(disk.ledger, record.ledger)
          /\ IsPrefix(disk.frames, record.rows)
    /\ faults < 2 => disk.ledger = record.ledger /\ disk.frames = record.rows

(* A sealed projection is whole, its files are those that were hashed, and *)
(* unless something failed it reaches the end of the world, however the    *)
(* polling loop and the terminal capture meet (finalize, seal).            *)
SealedExact ==
    record.stage = "sealed" =>
        /\ record.ledger # << >> => RowsAccounted
        /\ SealedAsHashed
        /\ faults = 0 =>
              record.ledger # << >> /\ Last(record.ledger).shot = world

(* What a reader of the staging directory and a reader of the sealed record *)
(* are shown is one consistent projection of the world, at every moment.   *)
ProjectionExact == ReaderSafe /\ SealedExact
===============================================================================
