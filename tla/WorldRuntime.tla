--------------------------- MODULE WorldRuntime ---------------------------
(***************************************************************************)
(* The action path of a world runtime: act.ts, requestLedger.ts,           *)
(* actionJournal.ts, clockAuthority.ts, controllerAuthority.ts,            *)
(* actionResults.ts and the operation gate of runtime.ts.                  *)
(*                                                                         *)
(* An act turns one agent request into one queued mechanics action; a      *)
(* clock step settles the queue.  Each holds the runtime while it calls    *)
(* the world's own code (surface callbacks, the mechanics provider), and   *)
(* that code may call back into the runtime, mutate the mechanics session  *)
(* or throw.  The stages of an operation between two such calls are one    *)
(* atomic step here, because JavaScript runs them without interruption.    *)
(*                                                                         *)
(* Three stores each have a closed flag and several records must agree:    *)
(* a request's receipt, its journal cell, its audit and its decision.      *)
(***************************************************************************)
EXTENDS Integers, FiniteSets, FiniteSetsExt, SequencesExt

CONSTANTS
  Principals,   \* agents with a capability manifest
  Requests,     \* request identifiers
  Decisions,    \* decisions that can be claimed, each belonging to ...
  Owner,        \* ... its principal
  Limit,        \* retained records: the bound on a journal lane and on all
  MaxSequence,  \* bound: action sequences the mechanics may issue
  MaxTick,      \* bound: the last tick the clock starts a step at
  None          \* no operation, no receipt

ASSUME OwnerAssumption == Owner \in [Decisions -> Principals]
ASSUME LimitAssumption == Limit \in Nat \ {0}
ASSUME BoundAssumption == MaxSequence \in Nat /\ MaxTick \in Nat

VARIABLES
  closed,     \* the closed flags of the runtime, request ledger and journal
  requests,   \* committed request slots: the receipt of each, or None
  lanes,      \* the journal's audits per principal, queued and denied
  audited,    \* how many audits the journal retains in all
  cells,      \* the journal's cells by action sequence
  decisions,  \* the registry's status of each decision
  mechanics,  \* the dynamics session
  controller, \* sequences the controller lane waits for
  results,    \* published action results per principal, in order
  op,         \* the operation holding the runtime, or None
  reentered   \* the operation gate's sticky re-entry flag

admission == <<requests, decisions>>
journal == <<lanes, audited, cells>>
vars == <<closed, requests, lanes, audited, cells, decisions, mechanics,
          controller, results, op, reentered>>

Sequences == 1 .. MaxSequence
AllClosed == [runtime |-> TRUE, ledger |-> TRUE, journal |-> TRUE]
AllOpen == [runtime |-> FALSE, ledger |-> FALSE, journal |-> FALSE]
Idle == op = None
Open == ~closed.runtime
Acting == op # None /\ op.kind = "act"
Reading == op # None /\ op.kind = "read"
Stepping(phase) == op # None /\ op.kind = "step" /\ op.phase = phase

Committed == {r \in Requests : requests[r] # None}
Authorized == {s \in DOMAIN cells : cells[s].state = "authorized"}
Terminal == {s \in DOMAIN cells : cells[s].state \in {"applied", "rejected"}}
Of(p, seqs) == {s \in seqs : cells[s].principal = p}
InOrder(numbers) == \A i, j \in DOMAIN numbers : i < j => numbers[i] < numbers[j]
Ascending(seqs) ==
  CHOOSE e \in [1 .. Cardinality(seqs) -> seqs] : InOrder(e) /\ Range(e) = seqs

------------------------------------------------------------------------------
(* Audit accounting.  The act in progress holds one active audit.          *)
Active(p) == IF Acting /\ op.principal = p THEN 1 ELSE 0
Lane(p) == lanes[p].queued + lanes[p].denied + Active(p)
InAll == audited + IF Acting THEN 1 ELSE 0

AuditFull(p) == Lane(p) >= Limit \/ InAll >= Limit
AuditLast(p) == Lane(p) = Limit - 1 \/ InAll = Limit - 1

Audit(p, result) ==
  /\ lanes' = [lanes EXCEPT ![p][result] = @ + 1]
  /\ audited' = audited + 1

(* What a denial leaves of the closed flags, exhausted being the reasons   *)
(* that deny() calls terminal.                                             *)
AfterDenial(flags, exhausted) ==
  IF exhausted \/ flags.ledger THEN AllClosed ELSE flags

(***************************************************************************)
(* The dynamics session.  restore() may fail in the provider: the session  *)
(* then stays as it was, or, if even the roll-back fails, shuts for good.  *)
(***************************************************************************)
Queue(m) == [m EXCEPT !.pending = @ \cup {m.nextSequence},
                      !.nextSequence = @ + 1]

Restored(m, pre) == pre

RestoreFailures(m) == {m, [m EXCEPT !.failed = TRUE]}

CanQueue(m) == ~m.failed /\ m.nextSequence <= MaxSequence

------------------------------------------------------------------------------
Init ==
  /\ closed = AllOpen
  /\ requests = [r \in Requests |-> None]
  /\ lanes = [p \in Principals |-> [queued |-> 0, denied |-> 0]]
  /\ audited = 0
  /\ cells = [s \in {} |-> None]
  /\ decisions = [d \in Decisions |-> "unissued"]
  /\ mechanics = [tick |-> 0, nextSequence |-> 1, pending |-> {}, failed |-> FALSE]
  /\ controller = {}
  /\ results = [p \in Principals |-> << >>]
  /\ op = None
  /\ reentered = FALSE

(* A wake claims a decision; the claim has a gate of its own, so it may    *)
(* happen inside an operation, but not while an act holds a reservation.   *)
Claim(d) ==
  /\ ~mechanics.failed
  /\ decisions[d] = "unissued"
  /\ \A e \in Decisions :
       /\ decisions[e] # "reserved"
       /\ Owner[e] = Owner[d] => decisions[e] # "active"
  /\ decisions' = [decisions EXCEPT ![d] = "active"]
  /\ UNCHANGED <<closed, requests, journal, mechanics, controller, results, op, reentered>>

(* The controller lane queues mechanics work of its own.  The session can  *)
(* refuse to retain an action it has already made pending; the lane then   *)
(* never learns the sequence, and the action is an orphan.                 *)
QueueController(retained) ==
  /\ Idle /\ Open /\ CanQueue(mechanics)
  /\ mechanics' = Queue(mechanics)
  /\ controller' = IF retained THEN controller \cup {mechanics.nextSequence}
                               ELSE controller
  /\ reentered' = FALSE
  /\ UNCHANGED <<closed, admission, journal, results, op>>

(* A read observes through the surface, on a closed world too.  Whatever   *)
(* the surface did to the session is undone and the read refused.          *)
BeginRead ==
  /\ Idle /\ ~mechanics.failed
  /\ op' = [kind |-> "read", pre |-> mechanics]
  /\ UNCHANGED <<closed, admission, journal, mechanics, controller, results, reentered>>

EndRead ==
  /\ Reading
  /\ mechanics' \in IF mechanics = op.pre THEN {mechanics}
                    ELSE {Restored(mechanics, op.pre)} \cup RestoreFailures(mechanics)
  /\ op' = None
  /\ UNCHANGED <<closed, admission, journal, controller, results, reentered>>

------------------------------------------------------------------------------
(* Ingress: every denial before the surface is called (malformed or        *)
(* conflicting request, bad token, nothing granted, undeclared resource).  *)
DenyAtIngress(p) ==
  /\ Idle /\ Open
  /\ IF closed.journal \/ AuditFull(p)
     THEN closed' = AllClosed /\ UNCHANGED <<lanes, audited>>
     ELSE Audit(p, "denied") /\ closed' = AfterDenial(closed, AuditLast(p))
  /\ reentered' = FALSE
  /\ UNCHANGED <<admission, cells, mechanics, controller, results, op>>

(* A request the ledger has no room for shuts the ledger, and the denial   *)
(* that follows shuts the rest.                                            *)
ExhaustRequests(p) ==
  /\ Idle /\ Open /\ ~closed.journal
  /\ IF AuditFull(p) THEN UNCHANGED <<lanes, audited>> ELSE Audit(p, "denied")
  /\ closed' = AfterDenial([closed EXCEPT !.ledger = TRUE], FALSE)
  /\ reentered' = FALSE
  /\ UNCHANGED <<admission, cells, mechanics, controller, results, op>>

(* An admissible act: the request slot is claimed, the audit is active,    *)
(* the decision reserved, and the surface is about to be called.           *)
BeginAct(p, r, d) ==
  /\ Idle /\ closed = AllOpen
  /\ mechanics.tick < MaxTick   \* bound: an act the clock can still settle
  /\ requests[r] = None
  /\ Cardinality(Committed) < Limit - 1
  /\ ~AuditFull(p) /\ ~AuditLast(p)
  /\ ~mechanics.failed
  /\ Owner[d] = p /\ decisions[d] = "active"
  /\ decisions' = [decisions EXCEPT ![d] = "reserved"]
  /\ op' = [kind |-> "act", principal |-> p, request |-> r, decision |-> d,
            pre |-> mechanics]
  /\ reentered' = FALSE
  /\ UNCHANGED <<closed, requests, journal, mechanics, controller, results>>

Unmutated == ~reentered /\ mechanics = op.pre

EndAct ==
  /\ op' = None
  /\ reentered' = FALSE
  /\ UNCHANGED <<controller, results>>

(* The commit chain: nothing in it calls out, so it is one step. *)
ActQueues ==
  LET s == mechanics.nextSequence
      receipt == [principal |-> op.principal, decision |-> op.decision,
                  sequence |-> s, tick |-> mechanics.tick]
  IN /\ Acting /\ Unmutated
     /\ closed = AllOpen
     /\ CanQueue(mechanics)
     /\ mechanics' = Queue(mechanics)
     /\ cells' = [x \in DOMAIN cells \cup {s} |->
                    IF x # s THEN cells[x]
                    ELSE [principal |-> op.principal, request |-> op.request,
                          decision |-> op.decision, tick |-> mechanics.tick,
                          state |-> "authorized", projection |-> "not_configured"]]
     /\ Audit(op.principal, "queued")
     /\ requests' = [requests EXCEPT ![op.request] = receipt]
     /\ decisions' = [decisions EXCEPT ![op.decision] = "consumed"]
     /\ UNCHANGED closed
     /\ EndAct

(* Faulty: a denial commits the decision it should abort. *)
FaultyDenyConsumes(attempt, exhausted) ==
  /\ Acting
  /\ mechanics' \in {Restored(attempt, op.pre)} \cup RestoreFailures(attempt)
  /\ decisions' = [decisions EXCEPT ![op.decision] = "consumed"]
  /\ Audit(op.principal, "denied")
  /\ closed' = AfterDenial(closed, exhausted)
  /\ UNCHANGED <<requests, cells>>
  /\ EndAct

(* deny() with the act's reservations: the slot and the cell go, the       *)
(* decision is active again, the session is restored if it can be.  attempt*)
(* is the session as the failure left it.                                  *)
DenyAct(attempt, exhausted) ==
  /\ Acting
  /\ mechanics' \in {Restored(attempt, op.pre)} \cup RestoreFailures(attempt)
  /\ decisions' = [decisions EXCEPT ![op.decision] = "active"]
  /\ Audit(op.principal, "denied")
  /\ closed' = AfterDenial(closed, exhausted)
  /\ UNCHANGED <<requests, cells>>
  /\ EndAct

(* The surface failed or refused, mutated the session or let a call in. *)
ActDenied == DenyAct(mechanics, FALSE)

(* The chain failed before the session took the action, or after it had:   *)
(* the session or the request ledger may be out of room.                   *)
ActFails(taken, exhausted) ==
  /\ Acting /\ Unmutated
  /\ taken => CanQueue(mechanics)
  /\ DenyAct(IF taken THEN Queue(mechanics) ELSE mechanics, exhausted)

------------------------------------------------------------------------------
(* What the world's code may do while an operation calls it. *)

(* Faulty: the reservation of terminals outlives the journal. *)
FaultyInvalidated(o) == o

(* A reservation of terminals does not survive the journal's closing. *)
Invalidated(o) == IF o.kind = "step" THEN [o EXCEPT !.live = FALSE] ELSE o

(* A re-entrant act is refused, and the refusal is audited. *)
ReenterAct(p) ==
  /\ ~Idle
  /\ reentered' = TRUE
  /\ IF closed.journal \/ AuditFull(p)
     THEN closed' = AllClosed /\ UNCHANGED <<lanes, audited>>
     ELSE /\ Audit(p, "denied")
          /\ closed' = IF AuditLast(p) THEN AllClosed ELSE closed
  /\ op' = IF closed'.journal THEN Invalidated(op) ELSE op
  /\ UNCHANGED <<admission, cells, mechanics, controller, results>>

(* A re-entrant read, step or controller call is refused. *)
ReenterOther ==
  /\ ~Idle /\ ~reentered
  /\ reentered' = TRUE
  /\ UNCHANGED <<closed, admission, journal, mechanics, controller, results, op>>

(* Surface code that holds the session queues an action directly. *)
SurfaceMutates ==
  /\ Acting \/ Reading \/ (Stepping("projecting") /\ ~reentered)
  /\ CanQueue(mechanics)
  /\ mechanics' = Queue(mechanics)
  /\ UNCHANGED <<closed, admission, journal, controller, results, op, reentered>>

------------------------------------------------------------------------------
(* The clock. *)
Bound(tick) == {s \in Authorized : cells[s].tick = tick}

EndStep ==
  /\ op' = None
  /\ reentered' = FALSE

StepClosesWorld ==
  /\ closed' = AllClosed
  /\ EndStep

BeginStep ==
  /\ Idle /\ Open
  /\ mechanics.tick < MaxTick
  /\ ~closed.journal /\ ~mechanics.failed
  /\ op' = [kind |-> "step", phase |-> "provider", live |-> TRUE,
            queued |-> Bound(mechanics.tick), todo |-> {}, post |-> None]
  /\ reentered' = FALSE
  /\ UNCHANGED <<closed, admission, journal, mechanics, controller, results>>

(* The step could not start: the session or the journal is shut. *)
StepCannotBegin ==
  /\ Idle /\ Open
  /\ closed.journal \/ mechanics.failed
  /\ StepClosesWorld
  /\ UNCHANGED <<admission, journal, mechanics, controller, results>>

(* The provider threw and was rolled back: the step may be retried, unless *)
(* the reservation of its terminals is gone.                               *)
StepRetryable ==
  /\ Stepping("provider")
  /\ closed' = IF op.live THEN closed ELSE AllClosed
  /\ EndStep
  /\ UNCHANGED <<admission, journal, mechanics, controller, results>>

(* The provider answered nonsense, or the roll-back failed. *)
StepFatal(rolledBack) ==
  /\ Stepping("provider")
  /\ mechanics' = [mechanics EXCEPT !.failed = ~rolledBack]
  /\ StepClosesWorld
  /\ UNCHANGED <<admission, journal, controller, results>>

(* Faulty: a result nobody asked for is ignored. *)
FaultyJoins(answered) == op.queued \subseteq answered /\ op.live

(* The provider's results are exactly those of the reserved actions. *)
Joins(answered) == answered = op.queued /\ op.live

(* Faulty: only accepted results become terminal. *)
FaultySettled(s, applied) ==
  IF s \in applied THEN [cells[s] EXCEPT !.state = "applied"] ELSE cells[s]

Settled(s, applied) ==
  [cells[s] EXCEPT !.state = IF s \in applied THEN "applied" ELSE "rejected"]

(* The provider resolved everything pending: the tick advances, the        *)
(* controller takes its own results, and the rest must join the journal.   *)
StepReturns(applied) ==
  LET answered == mechanics.pending \ controller
  IN /\ Stepping("provider")
     /\ applied \subseteq op.queued
     /\ mechanics' = [mechanics EXCEPT !.tick = @ + 1, !.pending = {}]
     /\ controller' = controller \ mechanics.pending
     /\ UNCHANGED <<admission, lanes, audited, results>>
     /\ \/ /\ ~Joins(answered)
           /\ applied = {}
           /\ StepClosesWorld
           /\ UNCHANGED cells
        \/ /\ Joins(answered)
           /\ cells' = [s \in DOMAIN cells |->
                          IF s \in op.queued THEN Settled(s, applied) ELSE cells[s]]
           /\ IF op.queued = {}
              THEN EndStep
              ELSE /\ op' = [op EXCEPT !.phase = "publishing", !.live = FALSE,
                                       !.todo = applied]
                   /\ UNCHANGED reentered
           /\ UNCHANGED closed

(* Faulty: publishes the applied actions only. *)
FaultyPublished ==
  [p \in Principals |-> results[p] \o Ascending(Of(p, op.todo))]

Published ==
  [p \in Principals |-> results[p] \o Ascending(Of(p, op.queued))]

(* Results are published, and the applied ones go on to projection. *)
PublishResults ==
  /\ Stepping("publishing")
  /\ results' = Published
  /\ IF op.todo = {}
     THEN EndStep
     ELSE /\ op' = [op EXCEPT !.phase = "projecting", !.post = mechanics]
          /\ UNCHANGED reentered
  /\ UNCHANGED <<closed, admission, journal, mechanics, controller>>

(* Building the results failed, or the snapshot after publishing them did: *)
(* the terminals stay, the world shuts.                                    *)
PublishFails ==
  /\ Stepping("publishing")
  /\ results' \in {results} \cup (IF op.todo = {} THEN {} ELSE {Published})
  /\ StepClosesWorld
  /\ UNCHANGED <<admission, journal, mechanics, controller>>

Project(seqs, projection) ==
  cells' = [s \in DOMAIN cells |->
              IF s \in seqs THEN [cells[s] EXCEPT !.projection = projection]
              ELSE cells[s]]

NextProjection ==
  IF op.todo = {Min(op.todo)}
  THEN EndStep
  ELSE /\ op' = [op EXCEPT !.todo = @ \ {Min(@)}]
       /\ UNCHANGED reentered

ProjectAction(projection) ==
  /\ Stepping("projecting") /\ ~reentered
  /\ mechanics = op.post
  /\ Project({Min(op.todo)}, projection)
  /\ NextProjection
  /\ UNCHANGED <<closed, admission, lanes, audited, mechanics, controller, results>>

(* The projection threw or mutated the session, which is restored. *)
ProjectionFails ==
  /\ Stepping("projecting") /\ ~reentered
  /\ mechanics' = Restored(mechanics, op.post)
  /\ Project({Min(op.todo)}, "failed")
  /\ NextProjection
  /\ UNCHANGED <<closed, admission, lanes, audited, controller, results>>

(* After a re-entrant call no further projection is asked for: all that    *)
(* remain fail, unless the journal has closed and cannot record it.        *)
ProjectionReentered ==
  /\ Stepping("projecting") /\ reentered
  /\ mechanics' = Restored(mechanics, op.post)
  /\ IF closed.journal
     THEN StepClosesWorld /\ UNCHANGED cells
     ELSE /\ Project(op.todo, "failed")
          /\ EndStep
          /\ UNCHANGED closed
  /\ UNCHANGED <<admission, lanes, audited, controller, results>>

ProjectionAbandoned ==
  /\ Stepping("projecting")
  /\ mechanics' \in RestoreFailures(mechanics)
  /\ StepClosesWorld
  /\ UNCHANGED <<admission, journal, controller, results>>

------------------------------------------------------------------------------
Ingress ==
  \/ BeginRead
  \/ EndRead
  \/ \E d \in Decisions : Claim(d)
  \/ \E retained \in BOOLEAN : QueueController(retained)
  \/ \E p \in Principals : DenyAtIngress(p) \/ ExhaustRequests(p)
  \/ \E p \in Principals, r \in Requests, d \in Decisions : BeginAct(p, r, d)

ActStage ==
  \/ ActQueues
  \/ ActDenied
  \/ \E taken, exhausted \in BOOLEAN : ActFails(taken, exhausted)

Callback ==
  \/ \E p \in Principals : ReenterAct(p)
  \/ ReenterOther
  \/ SurfaceMutates

StepStage ==
  \/ StepRetryable
  \/ \E rolledBack \in BOOLEAN : StepFatal(rolledBack)
  \/ \E applied \in SUBSET Sequences : StepReturns(applied)
  \/ PublishResults
  \/ PublishFails
  \/ \E projection \in {"projected", "not_configured"} : ProjectAction(projection)
  \/ ProjectionFails
  \/ ProjectionReentered
  \/ ProjectionAbandoned

Next == Ingress \/ ActStage \/ Callback \/ BeginStep \/ StepCannotBegin \/ StepStage

Spec == Init /\ [][Next]_vars

(* Every operation in progress returns, the host keeps stepping an open    *)
(* world, and a step that is retried does not throw for ever.              *)
Fairness ==
  /\ WF_vars(ActStage \/ EndRead)
  /\ SF_vars(BeginStep \/ StepCannotBegin)
  /\ WF_vars(StepStage)
  /\ SF_vars(\E applied \in SUBSET Sequences : StepReturns(applied))

FairSpec == Spec /\ Fairness

------------------------------------------------------------------------------
(* Types: the code's record shapes. *)
Counts == [queued : 0 .. Limit, denied : 0 .. Limit]
Receipt == [principal : Principals, decision : Decisions,
            sequence : Sequences, tick : 0 .. MaxTick]
Cell == [principal : Principals, request : Requests, decision : Decisions,
         tick : 0 .. MaxTick, state : {"authorized", "applied", "rejected"},
         projection : {"not_configured", "projected", "failed"}]
Session == [tick : 0 .. MaxTick, nextSequence : 1 .. MaxSequence + 1,
            pending : SUBSET Sequences, failed : BOOLEAN]
ActOperation == [kind : {"act"}, principal : Principals, request : Requests,
                 decision : Decisions, pre : Session]
ReadOperation == [kind : {"read"}, pre : Session]
StepOperation == [kind : {"step"}, phase : {"provider", "publishing", "projecting"},
                  live : BOOLEAN, queued : SUBSET Sequences, todo : SUBSET Sequences,
                  post : Session \cup {None}]

ASSUME NoneAssumption ==
  None \notin Receipt \cup Session \cup ActOperation \cup ReadOperation \cup StepOperation

(* Every variable keeps its shape; in particular no audit lane and no total *)
(* outgrows the retained record limit, re-entrant refusals included.       *)
TypeOK ==
  /\ closed \in [runtime : BOOLEAN, ledger : BOOLEAN, journal : BOOLEAN]
  /\ requests \in [Requests -> Receipt \cup {None}]
  /\ lanes \in [Principals -> Counts]
  /\ audited \in 0 .. Limit
  /\ DOMAIN cells \subseteq Sequences
  /\ \A s \in DOMAIN cells : cells[s] \in Cell
  /\ decisions \in [Decisions -> {"unissued", "active", "reserved", "consumed"}]
  /\ mechanics \in Session
  /\ controller \subseteq Sequences
  /\ results \in [Principals -> Seq(Sequences)]
  /\ op \in ActOperation \cup ReadOperation \cup StepOperation \cup {None}
  /\ reentered \in BOOLEAN

(* An audit is retained for every record that needs one, and there is      *)
(* always room left for the act in progress (actionJournal.ts:100-124).    *)
AuditsFit ==
  /\ InAll <= Limit
  /\ \A p \in Principals : Lane(p) <= Limit
  /\ Idle /\ Open => audited < Limit

(* The four records of an accepted act agree one to one: its receipt, its  *)
(* journal cell, its queued audit and its consumed decision (act.ts:213).  *)
JoinExact ==
  /\ \A r \in Committed :
       LET s == requests[r].sequence
       IN /\ s \in DOMAIN cells
          /\ cells[s].request = r
          /\ cells[s].principal = requests[r].principal
          /\ cells[s].decision = requests[r].decision
          /\ cells[s].tick = requests[r].tick
  /\ \A s \in DOMAIN cells : requests[cells[s].request] # None
  /\ \A p \in Principals :
       lanes[p].queued = Cardinality(Of(p, DOMAIN cells))
  /\ {d \in Decisions : decisions[d] = "consumed"} = {cells[s].decision : s \in DOMAIN cells}
  /\ \A s, t \in DOMAIN cells : cells[s].decision = cells[t].decision => s = t

(* Between operations the three closed flags agree: nothing half-closes a  *)
(* world (runtime.ts:240, act.ts:111-118).                                 *)
ClosedTogether == Idle => closed \in {AllOpen, AllClosed}

(* A decision is held reserved exactly while its act is in progress. *)
ReservationHeld ==
  {d \in Decisions : decisions[d] = "reserved"}
    = IF Acting THEN {op.decision} ELSE {}

(* In an open world whose session works, every accepted action is pending  *)
(* in the mechanics for the coming tick: none is stranded in an earlier    *)
(* tick or lost by a restore (act.ts:46-50, 80).                           *)
AcceptedIsPending ==
  Open /\ ~mechanics.failed /\ ~Stepping("publishing") /\ ~Stepping("projecting") =>
    \A s \in Authorized : s \in mechanics.pending /\ cells[s].tick = mechanics.tick

(* An open world has published the result of every terminal action, once,  *)
(* in sequence order, to the agent that asked (actionResultLedger.ts:130). *)
ResultsExact ==
  Open /\ ~Stepping("publishing") =>
    \A p \in Principals :
       InOrder(results[p]) /\ Range(results[p]) = Of(p, Terminal)

(* The stores of a world, each written by a separate commit, agree with     *)
(* each other at every moment another caller could look.                   *)
StoresAgree ==
  /\ TypeOK
  /\ AuditsFit
  /\ JoinExact
  /\ ClosedTogether
  /\ ReservationHeld
  /\ AcceptedIsPending
  /\ ResultsExact

(* A tick that leaves the world open resolved exactly the accepted and the *)
(* controller's actions: anything else the mechanics resolved shuts it.    *)
TickResolvesExactly ==
  mechanics'.tick > mechanics.tick /\ ~closed'.runtime =>
    /\ mechanics.pending = Authorized \cup controller
    /\ Terminal' = Terminal \cup Authorized
    /\ controller' = {}

(* What was answered stays answered: a receipt, a terminal outcome and a   *)
(* published result never change, and no store reopens.                    *)
NothingRewritten ==
  /\ \A r \in Committed : requests'[r] = requests[r]
  /\ \A s \in Terminal : s \in DOMAIN cells' /\ cells'[s].state = cells[s].state
  /\ \A p \in Principals : IsPrefix(results[p], results'[p])
  /\ \A store \in DOMAIN closed : closed[store] => closed'[store]

(* Every step of the world adds to its history what was accepted, and      *)
(* nothing else, and changes nothing that is history.                      *)
HistoryExact == [][TickResolvesExactly /\ NothingRewritten]_vars

(* An accepted action is settled, or the world shuts. *)
AcceptedIsSettled ==
  \A s \in Sequences : s \in Authorized ~> (s \in Terminal \/ ~Open)

(* The promise to the agents. *)
RequestStatus ==
  [r \in Requests |->
     IF requests[r] = None THEN "new"
     ELSE LET state == cells[requests[r].sequence].state
          IN IF state = "authorized" THEN "queued" ELSE state]

Service == INSTANCE ActionService WITH status <- RequestStatus, open <- Open

ImplementsService == Service!ServiceSpec
=============================================================================
