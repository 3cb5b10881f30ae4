----------------------------- MODULE McpListener -----------------------------
(***************************************************************************)
(* The MCP request listener (nodeMcpListener.ts) over its bounded pool of  *)
(* sessions (mcpSessionLifecycle.ts).                                      *)
(*                                                                         *)
(* The pool is a record, and its operations are functions of it.  A slot   *)
(* is taken by a reservation, handed on to the session it becomes, and     *)
(* given back once.  A session object lives on after it left the pool,     *)
(* while requests hold leases on it or its resource is closing; a          *)
(* candidate is a resource that is not in the pool yet.                    *)
(*                                                                         *)
(* Requests run concurrently; between two of their awaits a session may be *)
(* disposed of by another request, by its idle timer or by the listener    *)
(* closing.  Any await may also end because the client went away, the      *)
(* deadline passed or the protocol server failed.                          *)
(***************************************************************************)
EXTENDS Integers, FiniteSets

CONSTANTS
    Request,        \* what may reserve a slot or hold a lease
    McpSession,        \* session objects, re-used once nothing refers to them
    Id,             \* session identifiers
    Bearer,         \* bearer tokens
    MaxSessions,    \* how many slots there are
    Absent            \* no session, identifier or bearer

ASSUME RequestsAreFinite == IsFiniteSet(Request)
ASSUME SessionsAreFinite == IsFiniteSet(McpSession)
ASSUME SlotsArePositive == MaxSessions \in Nat \ {0}
ASSUME AbsentIsNothing == Absent \notin McpSession \union Id \union Bearer

Entry ==
    [ state  : {"unused", "candidate", "live", "closing", "closed"},
      id     : Id \union {Absent},
      bearer : Bearer \union {Absent},
      active : 0 .. Cardinality(Request),
      timer  : BOOLEAN ]

Pool ==
    [ entry    : [McpSession -> Entry],
      pending  : SUBSET Request,    \* reservations not yet committed
      occupied : 0 .. MaxSessions,
      stopped  : BOOLEAN ]

Live(p) == {s \in McpSession : p.entry[s].state = "live"}

Has(p, id) == \E s \in Live(p) : p.entry[s].id = id

-----------------------------------------------------------------------------

CanReserve(p) == ~p.stopped /\ p.occupied < MaxSessions

Reserved(p, r) ==
    [p EXCEPT !.pending = @ \union {r}, !.occupied = @ + 1]

(* reservation.release(): nothing once it was settled. *)
Unreserved(p, r) ==
    IF r \in p.pending
    THEN [p EXCEPT !.pending = @ \ {r}, !.occupied = @ - 1]
    ELSE p

ScheduleIdle(p, s) ==
    IF ~p.stopped /\ p.entry[s].active = 0 /\ p.entry[s].state = "live"
    THEN [p EXCEPT !.entry[s].timer = TRUE]
    ELSE p

Leased(p, s) ==
    [p EXCEPT !.entry[s].timer = FALSE, !.entry[s].active = @ + 1]

Released(p, s) == ScheduleIdle([p EXCEPT !.entry[s].active = @ - 1], s)

(* Faulty: a second disposal gives the slot back once more. *)
FaultyDisposed(p, s) ==
    [p EXCEPT !.entry[s].state = "closing",
              !.entry[s].timer = FALSE,
              !.occupied = @ - 1]

(* dispose(): only the first one counts; the resource is closing then.     *)
Disposed(p, s) ==
    IF s \in Live(p)
    THEN [p EXCEPT !.entry[s].state = "closing",
                   !.entry[s].timer = FALSE,
                   !.occupied = @ - 1]
    ELSE p

(* reservation.commit(): the slot passes to the session, which is leased   *)
(* to whoever reserved it, unless the pool stopped or the id is taken.     *)
CanCommit(p, r, id) == r \in p.pending /\ ~p.stopped /\ ~Has(p, id)

SessionCommitted(p, r, s, id) ==
    Leased([p EXCEPT !.pending = @ \ {r},
                     !.entry[s].state = "live",
                     !.entry[s].id = id], s)

(* close(): every reservation is released and every session disposed of.   *)
PoolClosed(p) ==
    [p EXCEPT !.stopped  = TRUE,
              !.pending  = {},
              !.occupied = @ - Cardinality(p.pending) - Cardinality(Live(p)),
              !.entry    = [s \in McpSession |->
                 IF s \in Live(p)
                 THEN [p.entry[s] EXCEPT !.state = "closing", !.timer = FALSE]
                 ELSE p.entry[s]]]

(* The resource's close() settled, or its timeout ran out. *)
CloseSettled(p, s) == [p EXCEPT !.entry[s].state = "closed"]

-----------------------------------------------------------------------------
VARIABLES
    pool,       \* the session lifecycle
    req,        \* what each request holds and what it is waiting for
    stopping    \* the listener was closed

listenerVars == << pool, req, stopping >>

Stage == {"off", "body", "connecting", "handling", "reading", "leaving"}

RequestState ==
    [ pc        : Stage,
      bearer    : Bearer \union {Absent},
      session   : McpSession \union {Absent},
      existing  : BOOLEAN,      \* existingLease on session
      candidate : BOOLEAN,      \* session is a resource of its own making
      fresh     : BOOLEAN,      \* freshLease on session
      deletes   : BOOLEAN ]     \* the method is DELETE

IdleRequest ==
    [ pc |-> "off", bearer |-> Absent, session |-> Absent,
      existing |-> FALSE, candidate |-> FALSE, fresh |-> FALSE,
      deletes |-> FALSE ]

Blank ==
    [ state |-> "unused", id |-> Absent, bearer |-> Absent,
      active |-> 0, timer |-> FALSE ]

ListenerTypeOK ==
    /\ pool \in Pool
    /\ req \in [Request -> RequestState]
    /\ stopping \in BOOLEAN

ListenerInit ==
    /\ pool = [ entry |-> [s \in McpSession |-> Blank], pending |-> {},
                occupied |-> 0, stopped |-> FALSE ]
    /\ req = [r \in Request |-> IdleRequest]
    /\ stopping = FALSE

-----------------------------------------------------------------------------
(* An object nothing refers to any more. *)
Unreferenced(s) ==
    /\ pool.entry[s].state \in {"unused", "closed"}
    /\ \A r \in Request : req[r].session # s

Moves(r, pc) == req' = [req EXCEPT ![r].pc = pc]

(* The finally block: an existing lease is given back.                     *)
Leaves(r) ==
    /\ pool' = IF req[r].existing THEN Released(pool, req[r].session) ELSE pool
    /\ req' = [req EXCEPT ![r] = IdleRequest]

(* Faulty: the reservation of an abandoned request is forgotten. *)
FaultyAbandonedPool(r) ==
    LET s == req[r].session IN
    IF req[r].fresh
    THEN Disposed(Released(pool, s), s)
    ELSE [pool EXCEPT !.entry[s].state = "closing"]

(* What abandonFresh makes of the pool: the reservation and the lease are  *)
(* given up, then the session is disposed of if it was committed, or else  *)
(* its resource closed.                                                    *)
AbandonedPool(r) ==
    LET s == req[r].session
        p == Unreserved(pool, r) IN
    IF req[r].fresh
    THEN Disposed(Released(p, s), s)
    ELSE [p EXCEPT !.entry[s].state = "closing"]

AbandonFresh(r) ==
    /\ pool' = AbandonedPool(r)
    /\ req' = [req EXCEPT ![r].pc = "leaving", ![r].candidate = FALSE,
                          ![r].fresh = FALSE]

(* disposeCurrent: what the request made, or the session it came for. *)
DisposeCurrent(r) ==
    \/ req[r].candidate /\ AbandonFresh(r)
    \/ /\ req[r].existing
       /\ pool' = Disposed(pool, req[r].session)
       /\ Moves(r, "leaving")
    \/ ~req[r].candidate /\ ~req[r].existing /\ Leaves(r)

-----------------------------------------------------------------------------
(* A request without a session. *)
ArriveFresh(r) ==
    /\ req[r].pc = "off"
    /\ ~stopping
    /\ \E b \in Bearer :
          req' = [req EXCEPT ![r] = [IdleRequest EXCEPT !.pc = "body", !.bearer = b]]
    /\ UNCHANGED << pool, stopping >>

(* The session a client means: its id, and the bearer that opened it. *)
Names(id, b, s) ==
    s \in Live(pool) /\ pool.entry[s].id = id /\ pool.entry[s].bearer = b

(* A request of a session: a POST goes on to its body, a DELETE has none.  *)
ArriveForSession(r, id, b) ==
    /\ req[r].pc = "off"
    /\ ~stopping
    /\ \E s \in McpSession, d \in BOOLEAN :
          /\ Names(id, b, s)
          /\ pool' = Leased(pool, s)
          /\ req' = [req EXCEPT ![r] =
                        [IdleRequest EXCEPT !.pc = IF d THEN "handling" ELSE "body",
                                     !.bearer = b, !.session = s,
                                     !.existing = TRUE, !.deletes = d]]
    /\ UNCHANGED stopping

(* The handler no longer accepts the bearer: its session is disposed of.   *)
ArriveRevoked(r, id, b) ==
    /\ req[r].pc = "off"
    /\ ~stopping
    /\ \E s \in McpSession :
          /\ Names(id, b, s)
          /\ pool' = Disposed(pool, s)
          /\ req' = [req EXCEPT ![r] =
                        [IdleRequest EXCEPT !.pc = "leaving", !.bearer = b,
                                     !.session = s]]
    /\ UNCHANGED stopping

(* The body was read; a request without a session initialises one, for     *)
(* which it reserves a slot and makes a resource.                          *)
BodyRead(r) ==
    /\ req[r].pc = "body"
    /\ \/ /\ req[r].existing
          /\ Moves(r, "handling")
          /\ UNCHANGED pool
       \/ /\ ~req[r].existing
          /\ CanReserve(pool)
          /\ \E s \in McpSession :
                /\ Unreferenced(s)
                /\ pool' = [Reserved(pool, r) EXCEPT
                              !.entry[s] = [Blank EXCEPT
                                  !.state = "candidate",
                                  !.bearer = req[r].bearer]]
                /\ req' = [req EXCEPT ![r].pc = "connecting",
                                      ![r].session = s,
                                      ![r].candidate = TRUE]
    /\ UNCHANGED stopping

(* A request that is refused before it made anything: its body is too      *)
(* large or invalid, it is no initialisation, or there is no slot left.    *)
Refused(r) ==
    /\ req[r].pc = "body"
    /\ Leaves(r)
    /\ UNCHANGED stopping

Connected(r) ==
    /\ req[r].pc = "connecting"
    /\ Moves(r, "handling")
    /\ UNCHANGED << pool, stopping >>

(* onsessioninitialized: the candidate is committed under its new id; a    *)
(* refused commit settles the reservation all the same.                    *)
Initialized(r, id) ==
    /\ req[r].pc = "handling"
    /\ req[r].candidate /\ ~req[r].fresh
    /\ \/ /\ CanCommit(pool, r, id)
          /\ pool' = SessionCommitted(pool, r, req[r].session, id)
          /\ req' = [req EXCEPT ![r].fresh = TRUE]
       \/ /\ r \in pool.pending
          /\ ~CanCommit(pool, r, id)
          /\ pool' = Unreserved(pool, r)
          /\ UNCHANGED req
    /\ UNCHANGED stopping

(* The protocol server answered with a success. *)
Handled(r) ==
    /\ req[r].pc = "handling"
    /\ Moves(r, "reading")
    /\ UNCHANGED << pool, stopping >>

(* It answered with a failure, which costs a new session its life. *)
Declined(r) ==
    /\ req[r].pc = "handling"
    /\ IF req[r].candidate THEN AbandonFresh(r) ELSE Leaves(r)
    /\ UNCHANGED stopping

(* The client went away, the deadline passed or a promise failed. *)
Interrupted(r) ==
    /\ req[r].pc \in {"body", "connecting", "handling", "reading"}
    /\ DisposeCurrent(r)
    /\ UNCHANGED stopping

(* The whole answer was read.  It is delivered or it is not; a DELETE      *)
(* disposes of its session, and a new session stays only if its client got *)
(* to know it.                                                             *)
Answered(r) ==
    /\ req[r].pc = "reading"
    /\ \/ /\ req[r].candidate /\ req[r].fresh
          /\ pool' = Released(pool, req[r].session)
          /\ req' = [req EXCEPT ![r] = IdleRequest]
       \/ req[r].candidate /\ AbandonFresh(r)
       \/ req[r].existing /\ ~req[r].deletes /\ Leaves(r)
       \/ req[r].existing /\ req[r].deletes /\ DisposeCurrent(r)
    /\ UNCHANGED stopping

(* The closing resource the request waited for has settled. *)
Left(r) ==
    /\ req[r].pc = "leaving"
    /\ pool.entry[req[r].session].state # "closing"
    /\ Leaves(r)
    /\ UNCHANGED stopping

IdleFires(s) ==
    /\ pool.entry[s].timer
    /\ pool' = Disposed(pool, s)
    /\ UNCHANGED << req, stopping >>

(* Faulty: a resource is waited for until its close() settles by itself. *)
FaultyCloseSettles(s) ==
    /\ pool.entry[s].state = "closing"
    /\ \A r \in Request : req[r].pc = "leaving" => req[r].session # s
    /\ pool' = CloseSettled(pool, s)
    /\ UNCHANGED << req, stopping >>

(* close() of the resource settled or took longer than its timeout. *)
CloseSettles(s) ==
    /\ pool.entry[s].state = "closing"
    /\ pool' = CloseSettled(pool, s)
    /\ UNCHANGED << req, stopping >>

(* listener.close() stops the pool and aborts every request. *)
Close ==
    /\ ~stopping
    /\ stopping' = TRUE
    /\ pool' = PoolClosed(pool)
    /\ UNCHANGED req

-----------------------------------------------------------------------------
Arrive(r) ==
    \/ ArriveFresh(r)
    \/ \E id \in Id, b \in Bearer :
          ArriveForSession(r, id, b) \/ ArriveRevoked(r, id, b)

Proceed(r) ==
    \/ BodyRead(r)
    \/ Refused(r)
    \/ Connected(r)
    \/ \E id \in Id : Initialized(r, id)
    \/ Handled(r)
    \/ Declined(r)
    \/ Interrupted(r)
    \/ Answered(r)
    \/ Left(r)

ListenerNext ==
    \/ \E r \in Request : Arrive(r) \/ Proceed(r)
    \/ \E s \in McpSession : IdleFires(s) \/ CloseSettles(s)
    \/ Close

ListenerSpec == ListenerInit /\ [][ListenerNext]_listenerVars

(* Deadlines end every wait of a request, idle timers fire, and closing is *)
(* bounded by its timeout.                                                 *)
FairListener ==
    /\ ListenerSpec
    /\ \A r \in Request : WF_listenerVars(Proceed(r))
    /\ \A s \in McpSession : WF_listenerVars(IdleFires(s)) /\ WF_listenerVars(CloseSettles(s))

-----------------------------------------------------------------------------
(* Properties.                                                             *)

(* A slot is held by exactly one pending reservation or live session:      *)
(* however disposals, releases, timers and closing race, none is given     *)
(* back twice and none is lost (occupied in createMcpSessionLifecycle).    *)
OccupancyExact ==
    pool.occupied = Cardinality(pool.pending) + Cardinality(Live(pool))

Holders(s) ==
    {r \in Request : req[r].session = s /\ (req[r].existing \/ req[r].fresh)}

(* The lease count of a session object is the number of requests that hold *)
(* one, also while it is closing and after its identifier was given away   *)
(* (entry.active).                                                         *)
LeasesCounted ==
    \A s \in McpSession : pool.entry[s].active = Cardinality(Holders(s))

(* A session in the pool is either in use or about to be reaped, and no    *)
(* timer runs for any other (scheduleIdle, lease).                         *)
IdleExact ==
    \A s \in McpSession :
        pool.entry[s].timer <=> s \in Live(pool) /\ Holders(s) = {}

(* Once the pool is stopped nothing gets in, whatever was half way         *)
(* (commit and reserve after close).                                       *)
StaysClosed ==
    pool.stopped => pool.pending = {} /\ Live(pool) = {}

(* A request is only ever served by a session its own client opened, also   *)
(* when the identifier it knows has passed on to another client's session; *)
(* an identifier names one session at a time.                              *)
OwnSession ==
    /\ \A r \in Request :
          req[r].existing => pool.entry[req[r].session].bearer = req[r].bearer
    /\ \A s, t \in Live(pool) : pool.entry[s].id = pool.entry[t].id => s = t

(* No reservation and no resource outlives the request that made it,       *)
(* unless it became a session (abandonFresh).                              *)
NothingStranded ==
    /\ \A r \in pool.pending :
          req[r].pc \in {"connecting", "handling", "reading"}
    /\ \A s \in McpSession :
          pool.entry[s].state = "candidate" =>
              \E r \in Request : req[r].candidate /\ req[r].session = s

(* The pool's counters, leases and timers tell the truth about the         *)
(* requests that use it, at every interleaving of them.                    *)
PoolExact ==
    /\ ListenerTypeOK
    /\ OccupancyExact
    /\ LeasesCounted
    /\ IdleExact
    /\ StaysClosed
    /\ OwnSession
    /\ NothingStranded

(* Closing the listener comes to an end: every request leaves and every    *)
(* resource is closed (Promise.allSettled in listener.close).              *)
CloseCompletes ==
    stopping ~> /\ \A r \in Request : req[r].pc = "off"
                /\ \A s \in McpSession :
                      pool.entry[s].state \in {"unused", "closed"}
===============================================================================
