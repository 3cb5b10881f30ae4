# A verification development of Simfile

Simfile runs deterministic worlds for societies of agents. It keeps the world (clock,
mechanics, actions, decisions) in one process, serves it to agents over HTTP and MCP, and
composes it with an organization that Spawnfile starts in containers. This directory holds
TLA+ models of the parts of it whose correctness depends on the *order* in which things
happen, the TLC configurations that check them on small instances, and TLAPS proofs of the
properties that matter most for every value of the constants.

`PROJECT.json` maps every definition to the lines it follows. All paths below are relative
to `src/src/` unless they say otherwise.

Contents: [the system](#the-system) · [the modules](#the-modules) ·
[the runs](#the-runs) · [fairness](#fairness) · [the proofs](#the-proofs) ·
[findings](#findings) · [observations](#observations) ·
[what is not modelled](#what-is-not-modelled) · [the plan](#the-plan)

## The system

Simfile is a TypeScript program of one Node.js process per command. What is concurrent in
it is therefore: code that calls back into the object that called it (a world's surface, a
mechanics provider, an entropy source); `async` functions between two of their `await`s;
several processes on one file; processes, containers and commands elsewhere that go on when
Simfile dies; and clients, browser pages among them, that come and go.

### Inventory

| component | state it keeps | operations | talks to |
|---|---|---|---|
| decision registry `world/decisionRegistry*.ts` | decisions by token digest, index of active decisions by principal, admission phase, last tick, next sequence | mint, read, consume, reserve/commit/abort, phase transitions, snapshot, restore | called by act, reads, the wake sources; calls the entropy source |
| action ingress `world/act.ts`, `actionJournal.ts`, `requestLedger.ts` | audits per lane, action cells, request slots, reservations of each | act: admit, reserve four records, call the surface, queue, commit or deny and roll back; close | decision registry, surface, mechanics session |
| clock and mechanics step `world/clockAuthority.ts`, `actionResults.ts`, `controllerAuthority.ts` | tick, pending actions, sequence counter, controller lane | step, retry of an aborted step, commit of terminals, publication of results, projection, shutting the world | provider, journal, result ledger |
| result ledger `world/actionResultLedger.ts` | per principal the newest results, page numbers, what was evicted | reserve/publish/abort a batch, read with a cursor, export and import | clock, read admission, checkpoint |
| refusal journal and read ledger `world/actionRefusalJournal.ts`, `world/ledger.ts` | refusals and reads not yet drained | record, read, acknowledge | act, run recorder |
| world checkpoint `world/checkpoint*.ts` | nothing of its own | one snapshot of six stores and the relations between them; restore into a fresh runtime | all of the above |
| world surface and authority `world-surface/*.ts`, `world/grants.ts`, `capabilityManifest.ts`, `affordances.ts`, `senses.ts` | a registry of an author's definitions; per principal what was granted | define, grant, compile, compose, observe, list, act; accept a schema, check an input | an author's callbacks, the mechanics |
| world server `world-server/*.ts` | pool of MCP sessions: slots, leases, idle timers; per call what is under way | request, initialize, commit, release, dispose, idle, close; claim, act and read over JSON and MCP | MCP SDK (external), the runtime |
| dynamics `dynamics/*.ts` | evidence root of a build; the checked session's queue, retained actions, receipts | build, verify, publish, load; enqueue, step, observe, snapshot, restore | npm locks, file system, an author's provider |
| tick engine `runtime/*.ts` | variables, generators, rules, holds, journeys | one deterministic tick; the causal record and its replay; viewer trace and probes of a finished run | nothing |
| run recorder `run/*.ts` | frames, evidence files, staging directory | open/close a tick, drain ingress evidence, flush, acknowledge, seal, abort | world runtime, file system |
| composed run journal `compose/journal*.ts`, `operationJournal.ts` | one file: phase, operations with their intents and receipts, recoverability | transitions; replace = check, rename, confirm | file system; other processes on the same file |
| composed run lifecycle `compose/*.ts` | position in seventeen phases | the calls of each phase, append of the phase, supervision, recover | journal, Spawnfile ports |
| Spawnfile adapters `spawnfile/*.ts` | none beyond the journal | journal the intent, invoke, look up, verify and record the receipt | Spawnfile (external), child processes |
| composed run commands and credentials `cli/composedRun*.ts`, `spawnfile/journaledCredentialProvisioning.ts` | private support root, selected target | bootstrap, hand over, recover, seal, revoke | journal, file system |
| live viewer projection `compose/liveViewerProjection.ts`, `spawnfile/productionViewerProjection.ts`, `compose/runRecord.ts` | frontier, ledger, frames and declaration, in memory and on disk | capture, publish (four writes), undo, terminal capture, finalize, seal | the running world, file system, readers |
| viewer and live follow `view/runLiveFollow.ts`, `runSealFollower.ts` | byte offset, skip count, seal state | poll, stream frames, change over to the sealed file, reconcile, end | file system, HTTP client |
| viewer pages `src/web/src/viewer/**`, `store/*.ts` | the store of one run, the page's address, the playhead of the map | load, follow, seal, scrub, play, deep links; poll, smooth, drain, replay | viewer server, browser |
| world artifacts `world-artifact/*.ts` | content-addressed cache; evidence, readiness and activation of one sidecar | prepare, reuse, publish; prove, compose, listen, activate, close | file system, Spawnfile |
| Moltnet participant `moltnet/**` | requests under way in a child process; conversations | request, abort, cancel, close; post, read back | Moltnet (external) |
| pure parts `schema`, `report`, `observe`, `coverage`, `ledger`, `kernel` | none | parse, validate, score, format | files |

### What is hard in each, and what makes it correct

* **Decision registry.** Expiry, consumption, minting and restoring each maintain two maps
  by hand; an act holds a *prepared* post-state across calls of foreign code and installs it
  later; the entropy source may re-enter a half-done mint; a snapshot must come back as the
  very state it was taken from. Correct means: at most one active decision per principal,
  spent at most once and only in its window, and a prepared state that is never stale.
* **Ingress, clock and checkpoint.** One accepted request leaves records in four stores, each
  reserved before the surface is called and committed or given back after it; the surface may
  act again, throw, or mutate the session, which is restored, which may fail. A step commits
  terminals, then publishes results, then projects; any of these may fail or be re-entered.
  Correct means: the stores agree at every moment, every accepted action is settled exactly
  once in the tick it was accepted for or the world shuts, nothing that was answered changes,
  and a checkpoint of the six stores comes back as it was.
* **Result ledger.** Retention is bounded, batches may be aborted, the ledger may go back
  under readers that did not. Correct means: a reader is denied before it skips.
* **Surface and authority.** An author's callbacks throw, answer late, answer something else
  or touch the session. Correct means: nobody is offered or does what was not granted, and a
  refusal tells the first reason that applies.
* **World server.** A slot is held by a reservation, then a session; leases, idle timers,
  disposal by another request and closing race at every `await`; an answer may be lost after
  the act it answers. Correct means: no slot is lost or given back twice, no request is
  served by another client's session, a repeated act is one act, close ends.
* **Dynamics.** Sources are read one by one while somebody edits them; two loads publish into
  one root file by file; a provider mutates its state behind the session's back. Correct
  means: what was built is what lay on the disk at one moment, what is left as evidence is
  what was loaded, and a misbehaving provider is taken back to where it was.
* **Engine, recorder, record.** One pass per tick in a fixed order; records drained from
  owners that forget what was acknowledged. Correct means: the meaning of the simfile, and a
  record that lacks nothing and names its causes.
* **Composed run.** The process may die between any effect elsewhere and its receipt here;
  answers get lost; a target may answer with an older receipt; the operator's timeout races a
  child that does not die. Correct means: a durable phase stands on the effects of all its
  calls, no operation whose fate is unknown is repeated blindly, a receipt is this run's, and
  a run that is recovered often enough completes or stops at a named dead end.
* **Live projection, follow and pages.** Producer and readers share files and nothing else; a
  publication is four writes that may fail and be undone singly; the run directory is renamed
  under a reader that keeps a byte offset; answers to a page overtake each other. Correct
  means: a reader sees each frame once and in order or is told how many it missed, nothing
  shown is taken back, and its stream ends when the run does.
* **World artifacts.** Hashing, building and publishing read the inputs at different times;
  a sidecar is killed anywhere between its evidence and its activation. Correct means: an
  entry is what its digest says, and a world is served with its own evidence or not at all.
* **Moltnet.** Requests are aborted, blocked, cancelled, answered twice or never. Correct
  means: every caller gets its own answer, once.

## The modules

| module | lines | what it is |
|---|---|---|
| `DecisionRegistry` | 510 | the registry, with re-entrant minting, reservations, checkpoints and crashes |
| `ActionService` | 50 | *abstract*: what a world promises the agents that act on it |
| `WorldRuntime` | 600 | act and step over journal, ledger, registry, session; implements `ActionService` |
| `WorldCheckpoint` | 180 | capture of a world, the relations between its stores, the restore |
| `ResultLedger` | 270 | batches, retention, cursors, checkpoints |
| `WorldSurface`, `WorldAuthority`, `BoundedSchema` | 760 | what an author declares, who may do what of it, which inputs fit |
| `WorldCall` | 480 | a call from the wire to the runtime and back, over JSON or an MCP session |
| `McpListener` | 430 | the MCP request handler over its bounded pool of sessions |
| `ComposedPhases` | 100 | the seventeen phases and the calls that lead into each |
| `DurableRun` | 40 | *abstract*: effects in lifecycle order, one durable phase at a time |
| `ComposedRun` | 550 | processes, journal file, Spawnfile; implements `DurableRun` |
| `ComposedCommand` | 610 | `simfile run` and `simfile recover` around it |
| `ReceiptChain` | 390 | what a run believes of the answers it gets |
| `SupervisedCall` | 220 | the wait for a world's end: timeout, abort, child processes |
| `RunSlot` | 50 | *abstract*: a directory that runs take, seal or give back |
| `RunRecord` | 600 | the recorder of a dynamics run; implements `RunSlot` |
| `DynamicsLoad` | 630 | build, verification, publication and load of an authored provider |
| `DynamicsSession` | 310 | the checked session around a provider |
| `TickEngine`, `TraceView`, `CausalRecording` | 970 | a tick; what is told of a run; the causal record and its replay |
| `LiveFollow` | 330 | one stream of a run being recorded, sealed or aborted |
| `LiveProjection` | 430 | captures, publications, their undoing, the seal, a reader |
| `ReplayShell`, `SpatialPlayback` | 810 | the page of one run; the playhead of a map |
| `MachineClient`, `WorldDelivery` | 510 | the client of the Moltnet machine; the world's posts |
| `PreparedBundle`, `WorldSidecar` | 640 | the cache of bundles; the process that serves one world |
| `MC…` | 610 | seven modules that compose the above for TLC |
| `…Proofs` | 29,100 | eight modules of theorems, see [the proofs](#the-proofs) |

Conventions. A variable is a record named for the object it stands for, and an action is the
code from one point where something else may run (a call of foreign code, an `await`, an
effect another process sees) to the next. A call that is refused and changes nothing is a
stuttering step and has no action. Operators named `Faulty…` are plausible bugs, each defined
before the definition it would replace; no other definition uses them. They are there to show
that the properties can fail: each property in the table of runs is violated by one of them.

### The world

**DecisionRegistry.** `live` is the `LiveState` object the registry's pointer refers to:
`records` and `activeByPrincipal` are its two Maps, the ticks of its transitions and the next
sequence its fields. `reservation` is the outstanding act reservation with the
post-consumption graph it holds ready, `minting` a mint that has called the entropy source,
`checkpoint` the last snapshot kept outside the process. `Mint` is split into its start, each
draw and its end, because the entropy source may call any operation in between: the code
detects that by comparing its pointer, and so does the model. Token digests are identities,
so a collision is a draw of a token that is already recorded. `Recover` loses the process at
any moment and restores the checkpoint through the strict parser (`ParseSnapshot`).

**WorldRuntime, ActionService.** `op` is the operation holding the runtime with what its
stage keeps on the stack; `requests`, `journal`, `decisions` and `closed` are the request
ledger, the action journal, the registry (one status per decision: `DecisionRegistry` has the
rest) and the three closed flags; `results` the lanes of terminal results, each in ascending
order of sequences; `mechanics` the session with its queue and the counter that `restore`
takes back. An act is `BeginAct` (admission and the four reservations), any number of
callbacks (the surface re-enters or mutates the session), and one of `ActQueues`,
`ActDenied`, `ActFails`. `ReenterAct` is the whole re-entrant act. A step is `BeginStep`,
callbacks, then the provider's verdict: retryable, fatal, or an arbitrary set of sequences
applied, of which the join accepts only exactly the pending ones; then publication, then one
projection per terminal. `ActionService` has three actions (accept, settle the whole queue,
shut); the mapping is `RequestStatus`: a request is what its journal cell says.

**WorldCheckpoint.** `CaptureAndRestore` parses each store as its owner's parser does and
holds the relations of `checkpointRelations.ts` against all of them; what is restored is
re-derived from the snapshots as `checkpointRestore.ts` does (the result lanes, the closed
flags, the counters), not copied. `CheckpointSpec` is the world with any number of them.

**ResultLedger.** `ledger` is the closure state of `createActionResultLedger`; `history` all
results ever published on this timeline, which a restore takes back with the ledger;
`reader` holds each principal's cursor and all it was given; `ahead` marks a cursor from a
timeline that was given up.

**WorldSurface, WorldAuthority, BoundedSchema.** A reference is a pair of kind and id. What a
callback answers is one of the ways `Odd` names: it throws, is a promise, answers something
else, touches the session. `WorldAuthority` follows a grant over principals and manifests to
the composition, then observations, listings and acts, each refused with the first reason of
the code. `BoundedSchema` has schemas and values in small and computes which schema is
accepted and which input fits, with the first fault and its path. A schema, written out as
the JSON it is, and an input are cloned first, within the four budgets of
`dynamics/canonicalJson.ts` for the whole tree (nodes, code units, depth, one string); the
bounds inside a schema are held against the same limits one by one, as in the code. So an
accepted schema denotes something, and may still have no input that is within the budgets.

**WorldCall, McpListener.** The pool of `mcpSessionLifecycle.ts` is a record and its
operations are functions of it; the request handler is cut at its awaits: `body`,
`connecting`, `handling`, `reading`, `leaving`. `Interrupted` is any of the reasons an await
may end early. Session objects, identifiers and bearers are separate sets, so an identifier
may pass to another client's session. In `WorldCall` a call runs through the handler in one
step, since the handler does; what cuts it short does so before that step or after it.

### A composed run

**ComposedPhases, DurableRun, ComposedRun.** `ComposedPhases` is data: `Calls(k)` are the
calls between phase k-1 and phase k, in order. `target[op]` is what Spawnfile knows of each
call, `journal` the file, and each process has the journal it read or wrote last (`snap`),
what it is doing (`mode`), and a replacement under way, in three steps: `CheckReplace`,
`Rename`, `Confirm`. A call is made in one of five ways, by the kind of port: with a receipt
in the journal, journaled with lookup, the preparation, a lifecycle command with an
invocation id, a plain query. A delivered call takes effect later, whether or not its caller
lives. Every fault but a crash makes the process mark the journal recoverable and leave.
A receipt that is found in the journal is verified and materialised again; `spoilt` has the
operations whose outcome no process can use any more: one whose receipt is not accepted, and
evidence that was laid out and not committed when its process left. A process that comes to
such a call fails there, each time.
`DurableRun` is what is left of that for somebody who only sees effects and the phase.

**ComposedCommand** adds the private support root, the journal in it, the bootstrap
operations, the binding of the execution, the record and its seal, and the wall clock, which
may step back. One command works at a time there, so a replacement is one step. When the
record of a run cannot be created the root is removed whether or not the credentials could be
revoked before (`composedFailureCleanup.ts:11`); credentials that stay alive then are
`adrift`, with no journal that names them, and a root half removed is a torn one.

**ReceiptChain** has several runs on one target, each building its requests from the receipts
it holds and verifying each answer against them; the target may answer with a receipt it has
given before. A digest stands for what it digests. What survives a crash is in `ComposedRun`.

**SupervisedCall** has the loop that polls for a world's end, one child at a time, against
the timeout and the abort: SIGTERM, grace, SIGKILL, and looks at the process group. Nothing
is assumed of when a process dies; timers fire in any order once armed.

### A dynamics run

**RunSlot, RunRecord.** `outDir` is the output directory, which runs share; `pc` has one label
for each point at which a call may fail or the process die; `disk` a run's staging directory
with the number of lines of each file that have been synced; `log` what the recorder keeps in
memory. Draining is one action for the appended lines of an entry and one for their flush and
acknowledgement; `Caused` is `appendLedger` with the validator's refusal of a cause that is
not an earlier line. `RunSlot` is what a directory promises to the runs that are given it.

**DynamicsLoad** is a load from the walk over the sources to the import, each file read in a
step of its own while an editor changes files, and the publication of provider and receipt
into a root that loads share, one file operation at a time. A receipt looks for the bytes of a
package in every installed copy of its name, and they may move from one copy to another
between the import and the check after it: of a package that is installed twice `InUse` asks
no more than that. **DynamicsSession** is the checked session: a provider's state
is the tick it is about to make, a state it should not be in is `Spoilt`. `orphan` says that the
queue holds an action whose record found no room (`session.ts:198`).

**TickEngine** is written as the code is, as a chain of stages of one synchronous call, and
recursive where it recurses; so no theorem is about it. **TraceView** derives the sightings,
the scene and the probes from the events and samples alone; what a probe means is said apart
from how the code finds it, with a marker seen in the tick of its message. **CausalRecording** has the
recorder as a record that its operations take and return.

### What is shown, built and said

**LiveFollow.** `run` is the staging directory: complete lines, whether a torn line follows,
where the directory is. `follow` is what `sendRunFrames` keeps between polls and a poll
between its awaits; `client` the response with all that was written to it and whether it
pushed back; `seal` and `waiter` the seal follower and a caller of its `awaitTerminal`.

**LiveProjection.** `disk` has the four live files, `mem` what the projection has committed,
`job` the publication under way with the write it has come to, `late` the undoing writes
nobody waits for any more: `Promise.all` rejects with the first failure and leaves the other
going. `obs` is the observer's loop, `record` the run record from open to sealed. The seal is
two steps, the hash of the artifacts (`HashArtifacts`) and, after the inventory and the
manifest are written, the rename (`SealRun`); a late undoing write may land between them.

**ReplayShell** is the page of one run: store, following, address, scrub bar. React effects
run with the update that causes them. **SpatialPlayback** is the map's playhead: answers of a
server that overtake each other, a buffer while the run goes on, an idle drain, replay.

**PreparedBundle** has processes that hash, look up, build and publish, each file read in a
step of its own; processes and the machine may go down. **WorldSidecar** is one evidence root
and the processes that are started in it, one after the other. A start that fails waits for
its controller and its server to close, which nothing bounds; only a started sidecar closes
against a timeout.

**MachineClient** numbers requests in the order they were made, so that two of them under one
correlation can be told apart. **WorldDelivery** posts a run's messages and reads them back.

## The runs

`tlc -workers 2 -config X.cfg M` in this directory repeats one. All of them say
`CHECK_DEADLOCK FALSE`, because each system really stops: a finalized registry, a world that
has shut, a completed run, a closed listener, an ended stream, a sealed record.

Several runs explore more than one component. The components of one run share no variable;
each is explored while the others have not begun, so the state space is the sum and not the
product of theirs, and every property of the run is checked in all of it.

| run | module, cfg | distinct states | properties |
|---|---|---|---|
| `ledgers` | `MCWorldLedgers` | 796,174 | `ActiveIndexExact`, `ReservationCurrent`, `SnapshotFaithful`, `RetainedExact`, `Gapless`, `SurfaceExact` |
| `world` | `MCWorldService` | 191,280 | `StoresAgree`, `PoolExact`, `AlwaysRecoverable`, `HistoryExact`, `RecoversTheSame`, `ImplementsService`, `ServiceSettles` (liveness) |
| `composed` | `MCComposedCommand` | 115,762 | `ReceiptsKept`, `AuthorityExact`, `EffectBeforePhase`, `ReceiptsTied`, `NoBlindRetry`, `ImplementsDurableRun`, `RunsEnd` (liveness) |
| `clients` | `MCClients` | 543,394 | `StreamHonest`, `ProjectionExact`, `CallsHonest`, `MessagesHonest`, `SupervisionExact`, `ShellExact`, `PlayheadExact`, `FramesOnlyExtend`, `PlayheadForward`, `ClientsSettle` (liveness) |
| `trace_runtime` | `MCTraceRuntime` | 962,227 | `TraceExact`, `ReplayReproduces`, `RecordSound`, `SessionExact`, `SlotSpec` |
| `artifacts` | `MCArtifacts` | 452,153 | `SourcesCoexist`, `LoadsEvidenced`, `BundlesExact`, `SidecarExact`, `SidecarSettles` (liveness) |
| `composed_race` | `ComposedRun`, `MCComposedRunRace.cfg` | violated | `NeverOverwritesIntervening` |
| `follow_closing` | `LiveFollow`, `MCLiveFollowClosing.cfg` | violated | `FramesClose` |
| `engine_hold` | `MCTickEngine`, `MCTickEngineHold.cfg` | violated | `HoldIsContinuous` |
| `engine_results` | `MCTickEngine`, `MCTickEngineResults.cfg` | violated | `ResultsNameTheirEvents` |
| `causal_segments` | `CausalRecording`, `MCCausalRecording.cfg` | violated | `SegmentsOnce` |
| `evidence_recovery` | `ReceiptChain`, `MCReceiptChain.cfg` | violated | `EvidenceRecoverable` |

What they show, and why the bounds are enough:

* **ledgers.** *Registry*: two principals, three tokens, ticks 0..2, three decisions, two
  draws, one recovery. Two principals are needed for an index entry to name a foreign
  decision; three tokens for a re-entrant mint to add a decision while two others exist; three
  ticks for a decision to be issued, to be late and to be expired; a second draw for a
  collision to be tried again. `SnapshotFaithful` evaluates the snapshot parser and the
  restore in every quiet state. *Results*: two lanes of two retained results, batches of one
  or two, actions 1..4, one restore: a lane overflows by a whole retention, and a cursor can
  be at, one behind and two behind what was evicted. *Authority*: five surfaces of which three
  misbehave in every way an author's callback can, three authorings, two worlds; what a schema
  accepts is compared with a reference definition over its small values, with budgets for the
  whole tree (24 nodes, 32 code units, depth 6, strings of 16) that some of the schemas and
  some of the inputs go beyond.
* **world.** *Runtime and checkpoint*: two agents, two request identifiers, two decisions, two
  action sequences, four retained records, two ticks. Four records are few enough that
  re-entrant denials fill the journal while an act or a step is in progress, which is where
  the closed flags have to agree. `StoresAgree` is six named parts, the join of receipt,
  cell, audit and decision (`JoinExact`) being the central one; `AlwaysRecoverable` says that
  what a quiet world captures is accepted by the restore, `RecoversTheSame` that it comes
  back as it was, `HistoryExact` that answers stay answered, and `ImplementsService` is the
  refinement of `ActionService`. *Listener*: two requests of two clients over two slots, two
  session objects and two identifiers, which come back: the pool fills up, a session is used
  by two requests at once, disposed of by one under the other, and its identifier given to a
  session of the other client.
* **composed.** One process at a time, all seventeen phases, any two crashes, refusals,
  signals or failing writes, one mishap of the surroundings (a changed target, a clock that
  steps back), and for the receipts a chain of two runs on one target with one tick. Two
  faults are what it takes for a fault to hit the recovery from a fault. The walk visits every
  phase, so the data of `ComposedPhases` is not cut down. `RunsEnd` names the dead ends a run
  may reach. Among them are the receipt that every process refuses and the evidence that was
  laid out and not committed (`spoilt`), and credentials whose outcome is ambiguous;
  `AuthorityExact` has one exception, the credentials a failed creation of the record leaves
  `adrift`.
* **clients.** *Follow*: a header and four frames, a buffer of two events: a stream can skip
  frames twice and the run be sealed in between; extension data changes once. *Projection*: a
  world of three ticks gives up to four publications, and three faults are enough to break a
  write, the undoing of it and the write after that, and for the second of two parallel
  undoing writes to land late. *Calls*: two agents, one with an MCP user, one call at a time,
  two mints, one mishap. *Machine*: three requests under two correlations with two active at
  once, so that one waits, one shares a correlation and one is behind the limit. *Delivery*:
  four events posted twice over, read back in pages of two. *Supervision*: two children, one
  poll, one refused signal. *Page*: three records, two of them linked to, two touches, one
  reload, one trouble. *Map*: three samples, two answers under way, one lost.
* **trace_runtime.** *Engine*: three simfiles, one for holds and events, one for journeys, one
  for derived variables, every draw and every queue of at most two acts; six probes are judged
  on the trace and four more on a marker, by itself, within a window after an event, together
  with a variable, and at the end. *Causal*: two ports, three exchanges, ticks up to 2,
  every recording replayed from every checkpoint. *Record*: two runs given one directory, two
  ticks, two actions, one refusal and one read kept, so that an entry is dropped both in the
  tick it is recorded in, where the recorder has to notice, and after it was drained, where it
  must not. *Session*: two ticks, four attempts of three actions, two queued and two kept, one
  misbehaviour of the provider, a snapshot restored.
* **artifacts.** *Load*: one load while six inputs are edited twice, or two loads into one
  evidence root; the entry imports a helper whose other spelling does not exist yet, one
  package and the erased types. Two edits are what it takes to undo, in a later read, what an
  earlier read could have noticed. *Cache*: two callers of one cache, one edit, one loss of
  power. *Sidecar*: three starts in one root of two worlds.

## Fairness

Liveness is checked under the fairness the code's own scheduling provides. Every such formula
names single actions, not whole next-state relations, so that nothing which merely *may*
happen (a fault, an edit, a client that reads) is made to happen.

* `FairWorldService`: an operation in progress returns (weak: the surface and the provider are
  synchronous functions or promises the runtime awaits); the host keeps stepping an open world
  and a retryable step does not throw for ever (strong: `clockAuthority.ts` is called on every
  tick, whatever the one before did, and other operations come between); a request's awaits
  end, since they carry a deadline; idle timers fire; closing is bounded by a timeout.
* `FairComposed`, `CommandFairSpec`: a process runs on; the operator starts `simfile recover`
  after a run that stopped; delivered operations end; the world ends; a clock that stepped
  back catches up. Faults are finite by their bound.
* `FairClients`: the poll intervals of a follower and its seal keep firing and the file system
  answers; a composed run goes on to pause, capture and finalize once its world is terminal;
  the timers of a supervised call fire, and a child that outlives its signals is given up; a
  machine request times out; a browser keeps drawing frames. No fairness of a client is assumed: the stream of a
  client that never reads ends too; and the late writes of a projection may never land.
* `FairSidecar`: the host's own calls settle, the marker is polled, closing is bounded by its
  timeout. Nothing is assumed of the composer, of the controller it starts, of open
  connections, or of what a failed start waits for (`sidecarEntrypoint.ts:202`): these may
  never answer, and `SidecarSettles` allows a start that waits for one of them for ever.
* `FairChain`: the calls of a run go on and the world's clock ticks.


## The proofs

`tlapm M.tla` checks each; nothing is assumed but the named assumptions on constants. Most say
that a bound is a number, a flag a Boolean, a marker not a member of a set. The others say of
the environment what the code is built on: who calls tools is an agent (`CallersAssumption`),
a message has the fields every message has (`MessagesAssumption`), the samples of a map or a
record are numbered upwards (`PlaybackAssumption`, `ShellAssumption`: `view/runFrames.ts:340`
sorts captured frames and the runtime samples tick by tick; a projection that comes from
elsewhere is refused for two samples of a tick, `view/runViewerProjection.ts:26`, but its
order is taken on trust),
a source has one owner and one path below it (`SourcesAssumption`), specifiers resolve to
sources (`VersionsAssumption`), and each load has a scratch root of its own, apart from every
evidence root (`RootsAssumption`: `dynamics/loadCore.ts:86`, `dynamics/buildLoad.ts:47`), and
the events of a run have identities of their own (`DeliveryAssumption`: `createEventId` numbers
them, `ledger/stable.ts:102`).
All theorems hold for arbitrary, also infinite, sets of principals, tokens and processes
(requests and sessions of the listener are finite, since it counts them), and for every bound.

**`DecisionRegistryProofs`** proves `TypeOK`, `ActiveIndexExact`, `ReservationCurrent`, that
decisions only grow (`DecisionsGrow`), that a checkpoint stays in the past
(`CheckpointStaysPast`), that a decision is active only inside its window (`NeverStaleActive`)
and consumed only there (`ConsumedOnlyInWindow`). `ActiveIndexExact` is not inductive: expiry
removes an index entry only if it names the principal's own late decision, so one needs that
every active decision is indexed under its owner and is not past the last tick, that the
reserved post-state satisfies all of it too, and that it *is* the post-state of the present,
which in turn needs that nothing but commit and abort happens under a reservation. `Inv` is
the conjunction: a good live state, a good reservation, a good checkpoint. That a snapshot is
`SnapshotFaithful` needs more: what the strict parser demands of a snapshot must hold of every
state one can be taken from. `Parsable` says it of the live state, the reserved one and the
checkpoint: decisions are numbered without a gap (`Counted`), those of a principal follow one
another (`Succession`), lie in ticks that have been (`Dated`) behind the principal's frontier
(`Fronted`), and some call can have committed the last tick (`Reached`); each operator on
states keeps it, and from an index that is exact the restored one is the same. Lemmas say what
each operator on states (`CommitTick`, `ConsumedState`, `MintedState`, `RestoredState`) keeps,
one step per action uses them, and the action properties follow from `StepGrows`, which says
how two consecutive states compare. `CheckpointIsPast` is inductive relative to `Inv`.

**`WorldServiceProofs`** proves `StoresAgree`, `RecoversTheSame`, `HistoryExact` and the
refinement of `ActionService` for `CheckpointSpec`, the world with any number of captures and
recoveries. Its invariant adds to the six parts of `StoresAgree` what an operation in progress
may rely on: there is room for the act that is under way (`Fits`), the three closed flags
agree (`Uniform`), the numbers of journal, controller lane and session fit (`Numbered`,
`Ordered`), the reservations of an act are those of its request (`ReservationHeld`,
`ActHeld`), what a step may put the session back to still holds every accepted action
(`StepHeld`, `AcceptedIsPending`), and a principal's results are its terminal cells in
ascending order (`ResultsExact`). `RecoversTheSame` needs that the ascending order of a finite
set exists and is unique; the library's induction theorems take operators as parameters, which
the provers cannot instantiate, so `SmallestExists` and `EnumerationExists` prove it with the
library's well-founded recursion on sets instead. `HistoryStep` and `ServiceStep` take each
action under `Inv`; the captured world maps to the same abstract state (`QuietIs`), so that a
recovery is a stutter of the service.

**`ComposedRunProofs`** proves, for any number of processes that overlap, with any number of
faults, `TypeOK`, `EffectBeforePhase`, `ReceiptsKept` and that evidence comes first
(`EvidenceFirstAlways`). A journal is *founded* if its phase stands on effects and its receipts
on its phase. The file being founded is not inductive, because a rename makes a process's
replacement the file; so the invariant says that every journal anywhere (the file, each
session's, each replacement under way) is founded, that a process that stands before a call
has made the calls before it, and that effects are ordered. It is independent of who wins a
race: that is why a lost generation (see the findings) may cost a phase or a receipt of the
stage in progress, but never leaves a phase that does not stand on its effects.
The second half is about processes that do not overlap (`Overlap = FALSE`, a run and its
recoveries one after the other) and proves that the intent of a call is durable before the
call (`IntentDurableAlways`), `NoBlindRetry`, and the refinement of `DurableRun`
(`Implements`). Its invariant `Serial` says that at most one process works, that what it holds
is the file or the replacement it is about to make the file, and that the calls under way are
those whose intent is in it. With overlapping processes all three are false: the older
journal may win the race.
The third part is about the commands, which run one at a time, and proves `AuthorityExact`
(`AuthorityExactAlways`) and that what they add leaves the lifecycle's promises alone
(`LifecycleSafeAlways`). `CommandInv` says what a journal is bound to and what it has been
given (`Bound`: nothing was asked before the execution is bound, no credentials before their
intent, at most one set of them) and what a command may rely on where it is (`Relies`: from
the resolution on, its configuration is the receipt's; `run` has touched nothing before its
lifecycle starts, which is why it may take the journal away when its record cannot be
created). What it leaves behind then is `adrift`: the theorem ties credentials that live on to
a journal in every other case, and says that such a run has asked nothing of the target. `Serial` does not hold of the commands: a replacement that is told to have failed
after the rename leaves a process that no longer knows the file (`Stray`), which can only give
up.

The fourth part is about the answers, and proves `ReceiptsTied` (`ReceiptsTiedAlways`) for a
chain of runs of any number of ticks. `ChainInv` says that every answer that was given is one
to what the asking run must ask at that place, and one that suits it (`SuitsAsking`), so that
a stored receipt suits the state it is stored in; that nothing is committed that was not
answered; and that what was released stays released. The calls still to be made are a set of
places (`CallsLeft`) rather than a filtered sequence, of which the provers know nothing.

**`McpListenerProofs`** proves `PoolExact`. `PoolSound` is what every operation of the pool
keeps by itself (occupancy is reservations plus live sessions, identifiers are unique, a timer
runs exactly for a session that is live and not in use, a stopped pool is empty). The rest
ties the pool to the requests: the leases of a session are the requests that hold it
(`LeasesCounted`, a cardinality), a request uses a session of its own bearer (`OwnBearer`),
nothing of a request that has left remains (`NothingStranded`), what a request holds fits its
stage (`RequestKnown`), and sessions have one maker (`Makers`).

**`ReadersProofs`** proves, of the results, `TypeOK`, `RetainedExact` and `Gapless`. `RetainedExact` needs
itself for the saved ledger; `Gapless` needs `RetainedExact`, since a page is the next page
only because entry *i* of a lane is page `evicted + i`, and, across a restore, that a cursor
not ahead of the checkpoint has collected what the checkpoint's own timeline holds: the saved
history is a prefix of the present one (`Past`), there is one checkpoint at a time
(`OneCheckpoint`), and no cursor is behind where its reader began (`Began`).
Of the messages it proves `MessagesHonest` (`MessagesHonestAlways`, of `MessagesSpec`, the
machine's client and the world's posts side by side). A line that was written and one that
still waits are not told apart by what follows, so the invariant of the client is about both
as one list (`Due`): every line is there once, is of a request that was not refused, and a
cancel stands behind its request. A request that has no answer is the one its correlation
looks up (`AnswersOf`, `LookupsOf`), which is why a correlation that is free again never gets
the answer of the request before (`OwnAnswer`). These hold in the middle of a step too
(`Sound`), through the writing of a part of the queue, a full pipe and a failure; that the queue
is short and empty unless blocked, that at the end of the output everything is canceled, and
that the active are few is added when a step ends (`Good`). Of the posts, a message does not
lie in Moltnet before every earlier one does, and the results are those of the messages before
the next event: a delivery that is started again posts what lies there already, in the order
it lies in. That the ascending order of a finite set lists each member once (`OrderedIs`)
needs no induction: the number of smaller members is an injection into as many numbers.
Of the page of a run it proves `ShellExact` (`ShellExactAlways`, of `ShellSpec`). `ShellInv` has
four parts besides the types. `TimelineTold`: the timeline is none, that of the frames the
stream has told of, or the sealed record's. `ViewHeld`: the cursor is inside it, the address
names what the store shows unless a write of it is due (`mirror`), and a page nobody touched
stands at the newest frame while it follows. `KeptHeld`: what a page showed when it was
reloaded is what the address holds, and can be shown of the sealed timeline (`Showable`), so
that what the link restores is the same. `ClockHeld`: while the pacer runs, the cursor and the
map's tick are both functions of its anchor and of the time that has gone by since. Neither is
`ShellExact` inductive nor were these at first: the proof wanted that no write of the address
is due before a record is there, since it would overwrite the link the page was opened with.
Besides, it rests on what the cadence computes: samples of one tick each make the index of
simulated times ascend, among ascending numbers those that are not larger than another come
first (`SortedIs`, `FirstOnes`), so that the cursor is where the clock is, not before and not
after (`CursorOnClock`), and a pass from the first event takes no longer than the scrub bar
says (`PaceKept`).

**`RunRecordProofs`** proves `SlotSpec` (`SlotImplemented`: the recorder implements `RunSlot`)
and that the directory has one holder (`OneHolder`), for any runs, lengths and capacities.
Nearly every step of a run moves it between stages in which it holds the directory, or not at
all (`Inside`); `StepKinds` says so of the whole next-state relation and leaves four kinds of
step, each an action of the slot. `OneHolder` is proved of the slot's own steps and carried
over by the simulation. The same module proves `SessionExact` (`SessionExactAlways`) for any
provider that misbehaves, any number of ticks, attempts and snapshots. `SessionInv` says what
the session may rely on between two calls of the provider: the queue is what was accepted and
not issued (`IssuedUpTo`, a recursive function in the proof for what a filter is in the
model), sequences follow one another, what is kept back to be restored was the state of a
moment, and every action in the queue has its record. The last holds as long as no action was
queued that found no room for one (`session.ts:198`); the statement says so, and holds again
once the session has gone back to a state before that.

**`ClientsProofs`** proves what those are told who are outside a run: `SupervisionExact`,
`CallsHonest`, `ProjectionExact`, `FramesOnlyExtend`, `PlayheadExact` and `PlayheadForward`. In
the first, the wait
and each child are honest on their own (`Waited`, `Honest`); between them, a child that was
cancelled knows why the wait was, and a timer of a child is armed only while its group is
being waited for. In the second, an answer that is on its way owes its caller the truth
(`CallTrue`: its tokens are the caller's, its receipt is the ledger's, what it says was done
is on record), and nothing that happens takes back what an answer rests on (`Advances`,
`TrueStays`). As many acts stand in the ledger as decisions were spent (`PaidFor`, two
cardinalities), and a token is in one place: with its principal, with a session of the
principal's, or in one answer (`OwnTokens`, `OnePlace`), so that an active decision is held by
somebody exactly when it does not count as lost (`NoneForgotten`). The handler does one of
three things (`HandleDoes`: nothing new, a decision minted, an act made), and each kind of
step moves a token in one of four ways (`PlaceStays`, `PlaceMinted`, `PlaceArrives`,
`PlaceForgotten`). That what a tool asks for fits the operation behind it is a theorem about
constants (`ToolsAlwaysFit`). It assumes that those who call tools are agents
(`CallersAssumption`) and that a message has the fields every message has
(`MessagesAssumption`).

For the projection, `ProjectionInv` says that snapshots are published in the order they were
taken (each extends the one before it), that the memory of the projection accounts for every
tick it was told of, that the files stand on what was committed whichever of their writes or
of the undoing of these writes failed or lands late, and that at most one more snapshot is on
its way than was published; a run without a fault reaches its end in the files. The action
property follows: what is committed to readers is only ever extended. `SealInv` says of the
record what was true when it was hashed and what may have changed since: nothing is published
after the hash, so only the undoing writes that nobody waits for can change a file, and they
put back an older frontier or take away a snapshot no declaration names. For the map,
`PlaybackInv` says that the samples on the screen are the first so many of the recorded ones,
that the playhead is inside them, that the controls show what the screen plays, that the
timer of the idle drain runs only on a page that follows, and that a replay's clock starts on
a sample; so a playhead that is not moved by hand never goes back.

**`WorldSidecarProofs`** proves `SidecarExact`, `BundlesExact`, `SourcesCoexist` and
`LoadsEvidenced`. `EvidenceKnown` follows the evidence from what
the start found there to what it published and back, `PortKnown` says that the port is open to
others only over the process's own evidence and an unmoved world, `ActivationKnown` where the
activation comes from.
For the cache, `CacheInv` says three things of every call of the preparation: a call that
nobody disturbed has read what lies on disk (`ReadSoFar`), a snapshot that is not of one moment
has a file still to be verified that has changed since, because a file never returns to
earlier contents (`OneMoment`), so the verification must fail, and what a caller holds is the
cache's own entry (`HoldsEntry`), of which there is one for a digest since a link never
replaces.
For the loads, `DynamicsInv` has two halves. `SourcesInv` is about the reading: a version that
was lost never comes back, so either all that was retained still lies there together or one of
the files still to be verified is lost (`FindsOut`), and the verification fails; what is
bundled was bound by the walk before with the same bytes (`ReadBound`). `LoadsInv` is about
the rest. `PairInv` says for any number of loads in one root that what a load says it made is
there (`OwnIs`), that two loads never made the same directory and the place of the one receipt
is at most one load's (`Apart`, `Holds`), and that who made the artifact a sealed receipt names
also made the receipt (`RootIs`): that is why a cleanup, which takes the receipt first, never
leaves a receipt alone. It does not hold of the pair alone that a load takes away only its own:
one needs that two builds in one root differ or only one of them owns the directory. `ScriptIs`
says where a load is in its script and what it has by then; `CurrentIs` that after the import
either the sources were in use or a lost one is still to be looked at, so that the check after
the import finds out (`HoldsIsSame`: what the receipt accepts of an item is what was retained).

### What stays with TLC

* *Liveness* (`ServiceSettles`, `RunsEnd`, `ClientsSettle`, `SidecarSettles`): neither it nor
  `ENABLED` is in the prover's reach.
* *Recursive definitions*: the engine and what is told of it are recursive operators, as in
  the code, and so are schemas (`TickEngine`, `TraceView`, `BoundedSchema`): `TraceExact` and
  `SurfaceExact` are checked, never proved.
* *Filters and folds*: `StreamHonest`, `ReplayReproduces` and `RecordSound` compare sequences
  that the code filters or folds; the provers cannot expand `SelectSeq` or instantiate the
  library's lemmas about folds. `AlwaysRecoverable` adds up numbers of records.

## Findings

Six places where the code does other than the repository says, each with a run that TLC must
find violated:

* **A journal generation can be overwritten** (`composed_race`). `replace()`
  (`compose/journalSession.ts:120`) checks with `assertCurrent` and then renames, with no lock
  and no conditional rename. `simfile run` and `simfile recover` on one journal can both pass
  the check; the later rename discards the generation the earlier made durable. The test title
  `compose/journalSession.test.ts:41`, "journal replacement never overwrites a hostile
  intervening generation", covers only a generation that arrives before the last check. The
  proofs show what it cannot cost: phases stay founded and evidence comes first.
* **Skipped frames are counted twice** (`follow_closing`). `writeFrame`
  (`view/runLiveFollow.ts:135`) sends `skippedFrames` and resets it only if `write()` returned
  true; false means only that the buffer is now full, and the frame *will* be delivered. The
  same count goes out again, and the client adds them up
  (`web/src/viewer/RunReplayShell.tsx:109`). `view/serverRunLive.test.ts:131` asserts that
  "delivered plus explicitly skipped frames must close against the record". What does hold is
  that no frame is missing without a word (`StreamHonest`).
* **A broken hold fires** (`engine_hold`). `all` and `any` stop at the child that decides them
  (`runtime/condition.ts:190`), so a `for:` hold behind it is not evaluated in that tick and
  its timer is not reset; `docs/DESIGN.md:589` says "the condition must hold continuously for
  the duration, and any false tick resets the timer".
* **An accepted act never names its event** (`engine_results`). `resultsByActId.set`
  (`runtime/world-act.ts:134`) overwrites the accepted result of an act with the rejected one
  of a duplicate, against the comment at line 98.
* **A segment is injected twice** (`causal_segments`). A replayed segment starts at the first
  checkpoint of its tick (`runtime/causalReplay.ts:132`), so exchanges before a later
  checkpoint of tick 0 are injected again and a good recording is refused; line 112 says it
  "Replays every authenticated checkpoint interval exactly once".
* **An interrupted export cannot be resumed** (`evidence_recovery`).
  `materializeWorldEvidenceArchive` (`spawnfile/worldEvidenceArchive.ts:189`) refuses a
  directory that exists, also the one its own interrupted attempt left;
  `compose/finalize-world.ts:83` says the failed export "is recoverable".

## Observations

What the models made plain, without a line of the repository that says otherwise, or without
a run of its own. The first four are defects in our reading.

* `view/runTimeline.ts:38` repairs the causal order with at most 11 moves; a reversed chain of
  six records needs 15 and comes out of order.
* `dynamics/session.ts:198` pushes an action and takes its sequence before `#retainAction`,
  which may throw; the orphan is in the next snapshot, which `snapshotValidation.ts:188` then
  rejects. One rejected action also pins the accepted-sequence floor, so that after 10,000
  later acceptances every step that accepts one is rolled back for ever.
* "Replay" pressed while the map plays is undone by the next frame
  (`web/src/viewer/SpatialPlaybackControls.tsx:197`): `replay()` changes nothing the
  animation's effect depends on.
* A failed load, or the first empty timeline of a live page, makes the deep-link sync
  overwrite the pasted link 250 ms later (`web/src/store/deepLink.ts:102`); a run sealed
  between a page's two first requests leaves it with an error until it is reloaded.
* *Follow and pages.* The header event of a stream is never sent if the first read that finds
  anything is the one of the sealed file. The stream of a run that was aborted polls until its
  client leaves. Choosing an element while playing re-anchors the scrub bar at the cursor's
  event. Answers of `/api/world` can overtake each other, so that an older "live" leaves the
  page live with its stream closed. The completion of a world without a new tick is never
  announced, since `events.ts` tells answers apart by their tick. After the idle drain an
  answer without new samples takes the map back; a run shorter than the buffer stops it short
  of the last sample. The drain plays under reduced motion too.
* *Projection.* A rollback write that lands late can make the seal fail or, between the hash of
  the artifacts (`compose/runRecord.ts:140`) and the rename (line 173), put back a file that
  the sealed manifest's digest does not fit. The test `liveViewerProjection.test.ts:144` covers
  a rollback that has ended ("rolls back a rejected publication without sealing unledgered
  frame rows").
* *Trace and probes.* A `marker.seen` event is dated with the sample of the run's last tick
  (`report/probeArtifact.ts:169`), whatever the tick of the message, so `after` and `within`
  are judged as if every marker had been seen at the end. `docs/DESIGN.md:710` has such a
  probe ask whether "a marker landed within 3 ticks of the crossing", and line 594 has an
  event "true on the tick a matching ledger event occurs". A marker in the tick of the
  crossing counts as after it, and one tick after the crossing of a long run as outside every
  window. `TraceExact` states what the design says and leaves out, by name, the probes whose
  verdict turns on this date. A short-circuited `all` or `any` passes over holds
  in probes as it does in the engine. A rule never sees `marker.seen`, nor events of rules
  behind it.
* *World.* A world with a host controller's action queued cannot be checkpointed. A cursor
  that a restore left ahead is denied until the lane has caught up, and is then served again,
  past results its reader never saw (`ahead`). `world/ledger.ts` retains the last 256 reads
  and, unlike the refusal journal beside it, does not notice a loss. The refusal journal and
  the controller lane are not in a checkpoint.
* *Schemas.* An array with `minItems` and `maxItems` of 4096 is accepted and no input fits: its
  elements and itself are more nodes than an input may have (`world-surface/schema.ts:358`).
* *Authority.* One granted sense whose projection fails blocks every act and the whole listing
  of its holder; one failing `available` callback denies the whole listing.
* *Calls.* A replay is recognised before the token is looked at, so the same act gets its
  receipt with a used token or on a closed world. A claim whose answer is lost strands the
  principal's active decision until it expires.
* *Bundles and loads.* The digest of a bundle is computed before the build reads the sources
  and never compared again: an edit in between is published under the digest of what was
  there before (`BundlesExact` says what holds: the service's sources coexisted, and without
  an edit all is as hashed). Nothing is synced, so a loss of power may leave a torn entry that
  rejects its digest for good. A crash during a load leaves files that make later loads into
  that root fail.
* *Sidecar.* A start that fails waits for `controller.close()` and `server.close()` without a
  limit (`sidecarEntrypoint.ts:202`), and a signal only sets `stopping` and the exit code
  (`runnableBundle.ts:258`): a controller that never closes, or an open connection, keeps a
  failed process alive. A crash between `link` and `unlink` leaves a link count of two, and later starts
  fail although `sidecarFilesystem.ts:142` calls it recoverable. After a restart with the same
  run id the old marker activates a fresh world.
* *Composed run.* `recover` neither seals a record nor revokes credential sources. A crash
  between the support root and the journal blocks later runs. A run in which an agent acted
  before the first reading of the clock never commits `tick_1`: the receipt admits only an
  action count of zero (`spawnfile/targetWorldReceipts.ts:28`). An export or a removal that
  fell short is answered the same for ever, and a stored receipt that is not accepted again
  (`productionFinalizationPorts.ts:70`) stops every recovery at the same call. When the record
  cannot be created the root goes even if the credentials could not be revoked. The evidence inventory is sorted by locale and
  verified in code-unit order.
* *Supervision.* An output overflow during a termination overwrites the kill timer, which
  then fires at a process group that may be somebody else's.
* *Moltnet.* Answers still unread are lost when `exit` comes before the end of the output; a
  transcript reads one page of a conversation; a delivery started again posts its earlier
  events again.

## What is not modelled

Spawnfile, the MCP SDK, the file system, npm, esbuild, React and Moltnet are external. They are
modelled as the code relies on them: Spawnfile's lookup is authoritative and recognises a
repeated idempotency key; a receipt belongs to the request it answers or is rejected; a rename
is atomic and a link never replaces; esbuild reads what its plugin gives it; removing a
transient file succeeds. Two sidecars that share a root, and frames that are drawn between an
update and its effects, are left out.

Three branches of modelled code are left out as well. An action that the session answers with
`queued: false` (`dynamics/session.ts:168`) gets an attempt line and a
`dynamics.action.rejected_at_ingress` event (`run/dynamics-run-action-ticks.ts:122`) which the
replay skips (`run/dynamics-run-replay.ts:33`); `RunRecord` has only queued actions, as the
standard action sources queue for the next tick. The header line of the live frames
(`compose/liveViewerProjection.ts:292`) is not a frame there. `MachineClient` lets a child that
is sent SIGTERM after a failure end at once (`moltnet/machine/client.ts:93`); its requests are
answered before that in either case.

The disagreement about the dates of markers (see the observations) has no run of its own: the
exclusion in `ProbesExact` names it.

Parsing of simfiles, scoring, reports, ownership, coverage, the command line, the website,
examples and build tools are pure or generated and have no module. Digests stand for what they
digest. There is a wall clock only in `ComposedCommand`.

One hazard has no property: `activate_topology` (`spawnfile/productionTopologyPorts.ts:33`) is
not journaled and has no lookup, so that a crash sends it again while the first may still be
under way; what that does is Spawnfile's to say.

## The plan

Modelled first was what most of the system's promise rests on, then what is hardest to test:
registry → runtime ⊑ `ActionService` → composed run ⊑ `DurableRun` → listener → follow →
projection → results → record ⊑ `RunSlot` → commands, receipts, supervision → checkpoint,
authority, calls → engine, trace, causal record → loads, bundles, sidecar → Moltnet → pages.

Next in the model: the timeline's repair (`view/runTimeline.ts`), the orphan of the session, the dates of markers,
the playback controls as runs that show the defects above.

Next in the proofs, by what they would say:

1. `StreamHonest`, once the queue of `LiveFollow` is written as a function of positions, as
   `IssuedUpTo` was for the session.
