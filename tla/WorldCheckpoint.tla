-------------------------- MODULE WorldCheckpoint --------------------------
(***************************************************************************)
(* Capturing a world and restoring it into a fresh runtime                 *)
(* (checkpointRuntime.ts, checkpointSnapshot.ts, checkpointRelations.ts,   *)
(* checkpointRestore.ts and the snapshot parser of each store).            *)
(*                                                                         *)
(* A checkpoint is the snapshots of six stores that never write together.  *)
(* Each is parsed by its owner and then held against the others; one       *)
(* relation that a legal world does not satisfy and that world can never   *)
(* be saved.  What happens to a world after it was captured is lost with   *)
(* its process, so a capture and the restore that uses it are one step     *)
(* here.  A restore that throws half way publishes no runtime and spoils   *)
(* the stores it was given: the next attempt has fresh ones.               *)
(***************************************************************************)
EXTENDS WorldRuntime

(* The first retained sequence of the session: all before it are resolved. *)
Floor(m) == IF m.pending = {} THEN m.nextSequence ELSE Min(m.pending)

(* The snapshots, in the order they are taken.  The actions the session    *)
(* retains are the pending ones.                                           *)
Captured ==
  [dynamics  |-> [tick |-> mechanics.tick, next |-> mechanics.nextSequence,
                  floor |-> Floor(mechanics), pending |-> mechanics.pending],
   decisions |-> decisions,
   journal   |-> [closed |-> closed.journal, lanes |-> lanes, audited |-> audited,
                  cells |-> cells],
   requests  |-> [closed |-> closed.ledger,
                  records |-> [r \in Committed |-> requests[r]]],
   results   |-> results]

------------------------------------------------------------------------------
(* What the owners' parsers ask of a snapshot on its own. *)

(* The retained actions are contiguous up to the next sequence. *)
DynamicsParses(d) == d.pending = d.floor .. d.next - 1

(* Only an applied action can have been projected; an action belongs to    *)
(* one decision, of the agent the cell is for.                             *)
CellParses(cell) ==
  /\ cell.state # "applied" => cell.projection = "not_configured"
  /\ cell.decision \in Decisions /\ cell.principal \in Principals

CellsOf(j, p) == {s \in DOMAIN j.cells : j.cells[s].principal = p}

(* The audits of the lanes are all there are and no more than are kept,    *)
(* and a lane has one queued audit for each cell of its principal.         *)
JournalParses(j) ==
  /\ j.audited <= Limit
  /\ \A s \in DOMAIN j.cells : CellParses(j.cells[s])
  /\ j.audited = MapThenSumSet(LAMBDA p : j.lanes[p].queued + j.lanes[p].denied, Principals)
  /\ \A p \in Principals : j.lanes[p].queued = Cardinality(CellsOf(j, p))

(* A fresh ledger has room for all the requests. *)
RequestsParse(q) == Cardinality(DOMAIN q.records) < Limit

(* A lane's results are in the order of their actions, none twice. *)
ResultsParse(r) ==
  \A p \in Principals : InOrder(r[p])

Parses(c) ==
  /\ DynamicsParses(c.dynamics)
  /\ JournalParses(c.journal)
  /\ RequestsParse(c.requests)
  /\ ResultsParse(c.results)

------------------------------------------------------------------------------
(* What the stores' snapshots ask of each other. *)
Settling(c) == {s \in DOMAIN c.journal.cells : c.journal.cells[s].state = "authorized"}
TerminalCells(c) == DOMAIN c.journal.cells \ Settling(c)

(* No record is later than the clock. *)
StaticRelated(c) ==
  \A s \in DOMAIN c.journal.cells : c.journal.cells[s].tick <= c.dynamics.tick

(* Every action the session retains is the journal's, for the next tick;   *)
(* a cell waits exactly if the session will still settle it.               *)
DynamicsRelated(c) ==
  /\ \A s \in c.dynamics.pending : /\ s \in DOMAIN c.journal.cells
                                   /\ c.journal.cells[s].tick = c.dynamics.tick
  /\ Settling(c) = c.dynamics.pending
  /\ TerminalCells(c) = {s \in DOMAIN c.journal.cells : s < c.dynamics.floor}

(* Faulty: a request is held against the clock, not against its cell. *)
FaultyRequestRelated(c, r) ==
  LET receipt == c.requests.records[r]
  IN /\ receipt.sequence \in DOMAIN c.journal.cells
     /\ receipt.tick = c.dynamics.tick
     /\ c.journal.cells[receipt.sequence].decision = receipt.decision

RequestRelated(c, r) ==
  LET receipt == c.requests.records[r]
  IN /\ receipt.sequence \in DOMAIN c.journal.cells
     /\ LET cell == c.journal.cells[receipt.sequence]
        IN /\ cell.tick = receipt.tick
           /\ cell.decision = receipt.decision
           /\ cell.principal = receipt.principal

(* Each request has a cell of its own, and each cell a request. *)
RequestsRelated(c) ==
  /\ \A r \in DOMAIN c.requests.records : RequestRelated(c, r)
  /\ {c.requests.records[r].sequence : r \in DOMAIN c.requests.records} = DOMAIN c.journal.cells
  /\ Cardinality(DOMAIN c.requests.records) = Cardinality(DOMAIN c.journal.cells)

(* What was admitted as a result is what is terminal, in its agent's lane. *)
ResultsRelated(c) ==
  /\ UNION {Range(c.results[p]) : p \in Principals} = TerminalCells(c)
  /\ \A p \in Principals : \A s \in Range(c.results[p]) :
       c.journal.cells[s].principal = p

(* Every action was paid for with a decision of its agent. *)
DecisionsRelated(c) ==
  \A s \in DOMAIN c.journal.cells :
    LET cell == c.journal.cells[s]
    IN c.decisions[cell.decision] = "consumed" /\ Owner[cell.decision] = cell.principal

Related(c) ==
  /\ StaticRelated(c)
  /\ DynamicsRelated(c)
  /\ RequestsRelated(c)
  /\ ResultsRelated(c)
  /\ DecisionsRelated(c)

(* A capture answers when no operation holds the runtime, the session can  *)
(* still be asked, and the whole checkpoint is accepted.                   *)
Captures ==
  /\ Idle /\ ~mechanics.failed
  /\ Parses(Captured) /\ Related(Captured)

------------------------------------------------------------------------------
(* Faulty: only what waits for a tick is put back into the journal. *)
FaultyRestoredCells(c) == [s \in Settling(c) |-> c.journal.cells[s]]

RestoredCells(c) == c.journal.cells

(* A fresh runtime takes the checkpoint over, store by store; its          *)
(* controller lane is new, and it is closed if the journal was.            *)
RestoreWorld(c) ==
  /\ c.journal.closed = c.requests.closed
  /\ mechanics' = [tick |-> c.dynamics.tick, nextSequence |-> c.dynamics.next,
                   pending |-> c.dynamics.pending, failed |-> FALSE]
  /\ decisions' = c.decisions
  /\ lanes' = c.journal.lanes
  /\ audited' = c.journal.audited
  /\ cells' = RestoredCells(c)
  /\ requests' = [r \in Requests |-> IF r \in DOMAIN c.requests.records
                                     THEN c.requests.records[r] ELSE None]
  /\ results' = c.results
  /\ controller' = {}
  /\ closed' = IF c.journal.closed THEN AllClosed ELSE AllOpen
  /\ op' = None
  /\ reentered' = FALSE

(* The world is captured, its process ends, another takes it over.  What   *)
(* the session's provider, asked for its state, calls on the world is      *)
(* refused and not audited (runtime.ts:324): it changes nothing.           *)
Recover == Captures /\ RestoreWorld(Captured)

CheckpointNext ==
  \/ Next
  \/ Recover

CheckpointSpec == Init /\ [][CheckpointNext]_vars

------------------------------------------------------------------------------
(* A world that is open can be saved whenever nothing holds it, unless the *)
(* host has queued an action of its own for the coming tick: none of the   *)
(* relations refuses a state that agents, the clock and failures can       *)
(* reach.  And a world that shut can be saved if its last step had settled *)
(* (checkpointRelations.ts:160).                                       *)
AlwaysRecoverable ==
  Idle /\ ~mechanics.failed /\ mechanics.pending \subseteq DOMAIN cells =>
    \/ Captures
    \/ ~Open /\ (\/ Authorized # mechanics.pending
                 \/ \E p \in Principals : results[p] # Ascending(Of(p, Terminal)))

(* Nobody can tell a restored world from the one that was captured: every  *)
(* store holds what it held (checkpointRestore.ts:131-139).                *)
RecoversTheSame ==
  [][Recover => UNCHANGED <<closed, requests, journal, decisions, mechanics,
                            controller, results>>]_vars
=============================================================================
