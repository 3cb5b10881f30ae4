-------------------------- MODULE McpListenerProofs --------------------------
(***************************************************************************)
(* Proofs about McpListener: however requests, idle timers and the closing *)
(* of the listener interleave, the pool's slots, leases and timers tell    *)
(* the truth, for any number of requests, sessions and slots.              *)
(*                                                                         *)
(* PoolSound is what the pool keeps by itself: every operation of it       *)
(* preserves PoolSound.  The rest of the inductive invariant ties the pool *)
(* to the requests that use it.                                            *)
(***************************************************************************)
EXTENDS McpListener, FiniteSetTheorems, TLAPS

(* What holds of the pool alone. *)
PoolSound(p) ==
    /\ p \in Pool
    /\ p.occupied = Cardinality(p.pending) + Cardinality(Live(p))
    /\ p.stopped => p.pending = {} /\ Live(p) = {}
    /\ \A s, t \in Live(p) : p.entry[s].id = p.entry[t].id => s = t
    /\ \A s \in McpSession :
          p.entry[s].timer <=> (p.entry[s].state = "live" /\ p.entry[s].active = 0)

(* Nothing of the pool but the session s changed. *)
OnlyEntry(p, q, s) ==
    \A t \in McpSession : t # s => q.entry[t] = p.entry[t]

(* The request holds a lease on the session. *)
Holds(r, s) == req[r].session = s /\ (req[r].existing \/ req[r].fresh)

(* What a request holds fits the stage it is in, and the state of its      *)
(* session.                                                                *)
RequestKnown(r) ==
    /\ req[r].pc = "off" => ~req[r].existing
    /\ req[r].candidate =>
         /\ req[r].pc \in {"connecting", "handling", "reading"}
         /\ req[r].session \in McpSession
         /\ ~req[r].existing
         /\ IF req[r].fresh
            THEN pool.entry[req[r].session].state \in {"live", "closing", "closed"}
            ELSE pool.entry[req[r].session].state = "candidate"
    /\ req[r].fresh => req[r].candidate
    /\ req[r].existing =>
         /\ req[r].session \in McpSession
         /\ pool.entry[req[r].session].state \in {"live", "closing", "closed"}
    /\ r \in pool.pending => req[r].candidate /\ ~req[r].fresh

(* No two requests have made the same session. *)
Makers ==
    \A r, q \in Request :
        req[r].candidate /\ req[q].candidate /\ req[r].session = req[q].session => r = q

(* A lease is held on a session the request's own bearer opened. *)
OwnBearer ==
    \A r \in Request :
        req[r].existing => pool.entry[req[r].session].bearer = req[r].bearer

Inv ==
    /\ PoolSound(pool)
    /\ req \in [Request -> RequestState]
    /\ stopping \in BOOLEAN
    /\ LeasesCounted
    /\ OwnBearer
    /\ NothingStranded
    /\ \A r \in Request : RequestKnown(r)
    /\ Makers

-----------------------------------------------------------------------------
(* Cardinalities.                                                          *)

(* The sets the pool counts are finite, and so are their sizes. *)
LEMMA PoolFinite ==
    ASSUME NEW p \in Pool
    PROVE  /\ IsFiniteSet(p.pending) /\ Cardinality(p.pending) \in Nat
           /\ IsFiniteSet(Live(p)) /\ Cardinality(Live(p)) \in Nat
<1>1. p.pending \subseteq Request
  BY DEF Pool
<1>2. Live(p) \subseteq McpSession
  BY DEF Live
<1> QED BY <1>1, <1>2, FS_Subset, FS_CardinalityType, RequestsAreFinite, SessionsAreFinite

(* A session that is live is one of those counted, and its slot is taken. *)
LEMMA LiveIsOccupied ==
    ASSUME NEW p \in Pool, NEW s \in Live(p),
           p.occupied = Cardinality(p.pending) + Cardinality(Live(p))
    PROVE  p.occupied >= 1
<1>1. Cardinality(Live(p)) # 0
  BY PoolFinite, FS_EmptySet
<1> QED BY <1>1, PoolFinite

(* A pending reservation is counted, and its slot is taken. *)
LEMMA PendingIsOccupied ==
    ASSUME NEW p \in Pool, NEW r \in p.pending,
           p.occupied = Cardinality(p.pending) + Cardinality(Live(p))
    PROVE  p.occupied >= 1
<1>1. Cardinality(p.pending) # 0
  BY PoolFinite, FS_EmptySet
<1> QED BY <1>1, PoolFinite

(* The leases counted on a session are those of finitely many requests. *)
LEMMA HoldersFinite ==
    ASSUME NEW s \in McpSession
    PROVE  /\ IsFiniteSet(Holders(s))
           /\ Cardinality(Holders(s)) \in Nat
           /\ Cardinality(Holders(s)) <= Cardinality(Request)
<1>1. Holders(s) \subseteq Request
  BY DEF Holders
<1> QED BY <1>1, FS_Subset, FS_CardinalityType, RequestsAreFinite

(* A request that holds no lease of the session leaves room for one. *)
LEMMA RoomForLease ==
    ASSUME LeasesCounted, NEW r \in Request, NEW s \in McpSession, ~Holds(r, s)
    PROVE  /\ pool.entry[s].active + 1 <= Cardinality(Request)
           /\ pool.entry[s].active \in Nat
<1>1. Holders(s) \union {r} \subseteq Request
  BY DEF Holders
<1>2. r \notin Holders(s)
  BY DEF Holders, Holds
<1>3. Cardinality(Holders(s) \union {r}) = Cardinality(Holders(s)) + 1
  BY <1>2, HoldersFinite, FS_AddElement
<1>4. Cardinality(Holders(s) \union {r}) <= Cardinality(Request)
  BY <1>1, FS_Subset, RequestsAreFinite
<1> QED BY <1>3, <1>4, HoldersFinite DEF LeasesCounted

(* A request that holds a lease is counted. *)
LEMMA LeaseIsCounted ==
    ASSUME LeasesCounted, NEW r \in Request, NEW s \in McpSession, Holds(r, s)
    PROVE  /\ pool.entry[s].active >= 1
           /\ pool.entry[s].active \in Nat
<1>1. r \in Holders(s)
  BY DEF Holders, Holds
<1>2. Cardinality(Holders(s)) # 0
  BY <1>1, HoldersFinite, FS_EmptySet
<1> QED BY <1>2, HoldersFinite DEF LeasesCounted

(* No lease is counted exactly if there is none. *)
LEMMA NoLeaseNoCount ==
    ASSUME LeasesCounted, NEW s \in McpSession
    PROVE  pool.entry[s].active = 0 <=> Holders(s) = {}
BY HoldersFinite, FS_EmptySet DEF LeasesCounted

-----------------------------------------------------------------------------
(* The operations of the pool.                                             *)

(* Replacing the entry of one session. *)
WithEntry(p, s, e) ==
    [p EXCEPT !.entry = [p.entry EXCEPT ![s] = e]]

(* What replacing an entry does to the fields of the pool. *)
LEMMA WithEntryFields ==
    ASSUME NEW p \in Pool, NEW s \in McpSession, NEW e \in Entry
    PROVE  /\ WithEntry(p, s, e) \in Pool
           /\ WithEntry(p, s, e).entry[s] = e
           /\ OnlyEntry(p, WithEntry(p, s, e), s)
           /\ WithEntry(p, s, e).pending = p.pending
           /\ WithEntry(p, s, e).occupied = p.occupied
           /\ WithEntry(p, s, e).stopped = p.stopped
BY DEF WithEntry, Pool, OnlyEntry

(* Replacing an entry whose session is live before and after, or neither,  *)
(* leaves the live sessions as they are.                                   *)
LEMMA LiveKept ==
    ASSUME NEW p, NEW q, NEW s \in McpSession, OnlyEntry(p, q, s),
           p.entry[s].state = "live" <=> q.entry[s].state = "live"
    PROVE  Live(q) = Live(p)
BY DEF Live, OnlyEntry

(* A session that stops being live is the only one that does. *)
LEMMA LiveLost ==
    ASSUME NEW p \in Pool, NEW q, NEW s \in McpSession, OnlyEntry(p, q, s),
           p.entry[s].state = "live", q.entry[s].state # "live"
    PROVE  /\ Live(q) = Live(p) \ {s}
           /\ Cardinality(Live(q)) = Cardinality(Live(p)) - 1
<1>1. Live(q) = Live(p) \ {s}
  BY DEF Live, OnlyEntry
<1>2. s \in Live(p)
  BY DEF Live
<1> QED BY <1>1, <1>2, PoolFinite, FS_RemoveElement

(* A session that becomes live is the only one that does. *)
LEMMA LiveGained ==
    ASSUME NEW p \in Pool, NEW q, NEW s \in McpSession, OnlyEntry(p, q, s),
           p.entry[s].state # "live", q.entry[s].state = "live"
    PROVE  /\ Live(q) = Live(p) \union {s}
           /\ Cardinality(Live(q)) = Cardinality(Live(p)) + 1
<1>1. Live(q) = Live(p) \union {s}
  BY DEF Live, OnlyEntry
<1>2. s \notin Live(p)
  BY DEF Live
<1> QED BY <1>1, <1>2, PoolFinite, FS_AddElement

(* A lease: no timer runs, and one more is counted. *)
LEMMA LeasedSound ==
    ASSUME NEW p \in Pool, NEW s \in McpSession, PoolSound(p),
           p.entry[s].active + 1 <= Cardinality(Request)
    PROVE  /\ PoolSound(Leased(p, s))
           /\ OnlyEntry(p, Leased(p, s), s)
           /\ Leased(p, s).pending = p.pending
           /\ Leased(p, s).entry[s].state = p.entry[s].state
           /\ Leased(p, s).entry[s].bearer = p.entry[s].bearer
           /\ Leased(p, s).entry[s].active = p.entry[s].active + 1
<1> DEFINE e == [p.entry[s] EXCEPT !.timer = FALSE, !.active = p.entry[s].active + 1]
           q == Leased(p, s)
<1>1. p.entry[s] \in Entry /\ p.entry[s].active \in Nat
  BY RequestsAreFinite, FS_CardinalityType DEF Pool, Entry
<1>2. /\ e \in Entry
      /\ e.timer = FALSE /\ e.active = p.entry[s].active + 1
      /\ e.state = p.entry[s].state /\ e.id = p.entry[s].id
      /\ e.bearer = p.entry[s].bearer
  <2>1. p.entry[s].active + 1 \in 0 .. Cardinality(Request)
    BY <1>1, RequestsAreFinite, FS_CardinalityType
  <2> QED BY <1>1, <2>1 DEF Entry
<1>3. q = WithEntry(p, s, e)
  BY DEF Leased, WithEntry, Pool, Entry
<1> HIDE DEF e, q
<1>4. /\ q \in Pool /\ q.entry[s] = e /\ OnlyEntry(p, q, s)
      /\ q.pending = p.pending /\ q.occupied = p.occupied /\ q.stopped = p.stopped
  BY <1>2, <1>3, WithEntryFields
<1>5. Live(q) = Live(p)
  BY <1>2, <1>4, LiveKept
<1>6. \A t \in McpSession : q.entry[t].id = p.entry[t].id
  BY <1>2, <1>4 DEF OnlyEntry
<1>7. \A t \in McpSession :
          q.entry[t].timer <=> (q.entry[t].state = "live" /\ q.entry[t].active = 0)
  BY <1>1, <1>2, <1>4 DEF OnlyEntry, PoolSound
<1>8. PoolSound(q)
  BY <1>4, <1>5, <1>6, <1>7 DEF PoolSound, Live
<1> QED BY <1>2, <1>4, <1>8 DEF q

(* A lease given back: the idle timer starts if it was the last. *)
LEMMA ReleasedSound ==
    ASSUME NEW p \in Pool, NEW s \in McpSession, PoolSound(p),
           p.entry[s].active >= 1
    PROVE  /\ PoolSound(Released(p, s))
           /\ OnlyEntry(p, Released(p, s), s)
           /\ Released(p, s).pending = p.pending
           /\ Released(p, s).entry[s].state = p.entry[s].state
           /\ Released(p, s).entry[s].bearer = p.entry[s].bearer
           /\ Released(p, s).entry[s].active = p.entry[s].active - 1
<1> DEFINE idle == p.entry[s].active - 1 = 0 /\ p.entry[s].state = "live" /\ ~p.stopped
           e0 == [p.entry[s] EXCEPT !.active = p.entry[s].active - 1]
           e1 == [e0 EXCEPT !.timer = TRUE]
           e == IF idle THEN e1 ELSE e0
           p0 == [p EXCEPT !.entry[s].active = @ - 1]
           q == Released(p, s)
<1>1. p.entry[s] \in Entry /\ p.entry[s].active \in Nat
  BY RequestsAreFinite, FS_CardinalityType DEF Pool, Entry
<1>2. /\ e0 \in Entry
      /\ e0.timer = p.entry[s].timer /\ e0.active = p.entry[s].active - 1
      /\ e0.state = p.entry[s].state /\ e0.id = p.entry[s].id
      /\ e0.bearer = p.entry[s].bearer
  BY <1>1, RequestsAreFinite, FS_CardinalityType DEF Entry
<1>3. /\ e1 \in Entry
      /\ e1.timer = TRUE /\ e1.active = p.entry[s].active - 1
      /\ e1.state = p.entry[s].state /\ e1.id = p.entry[s].id
      /\ e1.bearer = p.entry[s].bearer
  BY <1>2 DEF Entry
<1>4. p0 = WithEntry(p, s, e0)
  BY DEF WithEntry, Pool, Entry
<1>5. /\ p0 \in Pool /\ p0.entry[s] = e0 /\ OnlyEntry(p, p0, s)
      /\ p0.pending = p.pending /\ p0.occupied = p.occupied /\ p0.stopped = p.stopped
  <2> HIDE DEF e0, p0
  <2> QED BY <1>2, <1>4, WithEntryFields
<1>6. q = ScheduleIdle(p0, s)
  BY DEF Released
<1>7. [p0 EXCEPT !.entry[s].timer = TRUE] = WithEntry(p0, s, e1)
  <2> HIDE DEF e0, p0
  <2> QED BY <1>5 DEF WithEntry, Pool, Entry
<1> HIDE DEF e0, e1, p0, q
<1>8. /\ q \in Pool /\ q.entry[s] = e /\ OnlyEntry(p, q, s)
      /\ q.pending = p.pending /\ q.occupied = p.occupied /\ q.stopped = p.stopped
  <2>1. CASE idle
    <3>1. q = WithEntry(p0, s, e1)
      BY <2>1, <1>2, <1>5, <1>6, <1>7 DEF ScheduleIdle
    <3> QED BY <2>1, <3>1, <1>3, <1>5, WithEntryFields DEF OnlyEntry
  <2>2. CASE ~idle
    <3>1. q = p0
      BY <2>2, <1>2, <1>5, <1>6 DEF ScheduleIdle
    <3> QED BY <2>2, <3>1, <1>5
  <2> QED BY <2>1, <2>2
<1>9. /\ e.active = p.entry[s].active - 1
      /\ e.state = p.entry[s].state /\ e.id = p.entry[s].id
      /\ e.bearer = p.entry[s].bearer
      /\ e.timer = (IF idle THEN TRUE ELSE p.entry[s].timer)
  BY <1>2, <1>3
<1>10. p.entry[s].timer <=> FALSE
  BY <1>1 DEF PoolSound
<1>11. p.stopped => p.entry[s].state # "live"
  BY DEF PoolSound, Live
<1> HIDE DEF e
<1>12. Live(q) = Live(p)
  BY <1>8, <1>9, LiveKept
<1>13. \A t \in McpSession : q.entry[t].id = p.entry[t].id
  BY <1>8, <1>9 DEF OnlyEntry
<1>14. \A t \in McpSession :
          q.entry[t].timer <=> (q.entry[t].state = "live" /\ q.entry[t].active = 0)
  <2>1. q.entry[s].timer <=> (q.entry[s].state = "live" /\ q.entry[s].active = 0)
    BY <1>1, <1>8, <1>9, <1>10, <1>11
  <2> QED BY <2>1, <1>8 DEF OnlyEntry, PoolSound
<1>15. PoolSound(q)
  BY <1>8, <1>12, <1>13, <1>14 DEF PoolSound, Live
<1> QED BY <1>8, <1>9, <1>15 DEF q

(* A disposal: the session is closing, and its slot is given back; a       *)
(* second disposal does nothing.                                           *)
LEMMA DisposedSound ==
    ASSUME NEW p \in Pool, NEW s \in McpSession, PoolSound(p)
    PROVE  /\ PoolSound(Disposed(p, s))
           /\ OnlyEntry(p, Disposed(p, s), s)
           /\ Disposed(p, s).pending = p.pending
           /\ Disposed(p, s).entry[s].state =
                  IF p.entry[s].state = "live" THEN "closing" ELSE p.entry[s].state
           /\ Disposed(p, s).entry[s].bearer = p.entry[s].bearer
           /\ Disposed(p, s).entry[s].active = p.entry[s].active
<1>1. CASE s \notin Live(p)
  BY <1>1 DEF Disposed, OnlyEntry, Live
<1>2. CASE s \in Live(p)
  <2> DEFINE e == [p.entry[s] EXCEPT !.state = "closing", !.timer = FALSE]
             q0 == WithEntry(p, s, e)
             q == Disposed(p, s)
  <2>1. p.entry[s] \in Entry /\ p.entry[s].state = "live"
    BY <1>2 DEF Pool, Live
  <2>2. /\ e \in Entry /\ e.state = "closing" /\ e.timer = FALSE
        /\ e.active = p.entry[s].active /\ e.id = p.entry[s].id
        /\ e.bearer = p.entry[s].bearer
    BY <2>1 DEF Entry
  <2>3. /\ q0 \in Pool /\ q0.entry[s] = e /\ OnlyEntry(p, q0, s)
        /\ q0.pending = p.pending /\ q0.occupied = p.occupied /\ q0.stopped = p.stopped
    BY <2>2, WithEntryFields
  <2>4. q = [q0 EXCEPT !.occupied = p.occupied - 1]
    BY <1>2 DEF Disposed, WithEntry, Pool, Entry
  <2>5. p.occupied >= 1 /\ p.occupied \in 0 .. MaxSessions
    BY <1>2, LiveIsOccupied DEF PoolSound, Pool
  <2> HIDE DEF e, q0, q
  <2>6. /\ q \in Pool /\ q.entry[s] = e /\ OnlyEntry(p, q, s)
        /\ q.pending = p.pending /\ q.occupied = p.occupied - 1 /\ q.stopped = p.stopped
    BY <2>3, <2>4, <2>5, SlotsArePositive DEF Pool, OnlyEntry
  <2>7. Live(q) = Live(p) \ {s} /\ Cardinality(Live(q)) = Cardinality(Live(p)) - 1
    BY <2>1, <2>2, <2>6, LiveLost
  <2>8. \A t \in McpSession : q.entry[t].id = p.entry[t].id
    BY <2>2, <2>6 DEF OnlyEntry
  <2>9. \A t \in McpSession :
          q.entry[t].timer <=> (q.entry[t].state = "live" /\ q.entry[t].active = 0)
    BY <2>2, <2>6 DEF OnlyEntry, PoolSound
  <2>10. q.occupied = Cardinality(q.pending) + Cardinality(Live(q))
    BY <2>5, <2>6, <2>7, PoolFinite DEF PoolSound
  <2>11. PoolSound(q)
    BY <2>6, <2>7, <2>8, <2>9, <2>10 DEF PoolSound, Live
  <2> QED BY <2>1, <2>2, <2>6, <2>11 DEF q
<1> QED BY <1>1, <1>2

(* The pool with other reservations and another count. *)
WithSlots(p, P, n) == [p EXCEPT !.pending = P, !.occupied = n]

(* What replacing the reservations and their count does to the fields. *)
LEMMA WithSlotsFields ==
    ASSUME NEW p \in Pool, NEW P \in SUBSET Request, NEW n \in 0 .. MaxSessions
    PROVE  /\ WithSlots(p, P, n) \in Pool
           /\ WithSlots(p, P, n).entry = p.entry
           /\ WithSlots(p, P, n).pending = P
           /\ WithSlots(p, P, n).occupied = n
           /\ WithSlots(p, P, n).stopped = p.stopped
BY DEF WithSlots, Pool

(* The pool with a reservation of r and the resource s it makes. *)
WithCandidate(p, r, s, b) ==
    [Reserved(p, r) EXCEPT
        !.entry[s] = [Blank EXCEPT !.state = "candidate", !.bearer = b]]

(* A reservation takes a slot, and its request makes a resource that is    *)
(* not in the pool yet.                                                    *)
LEMMA ReservedSound ==
    ASSUME NEW p \in Pool, NEW r \in Request, NEW s \in McpSession,
           NEW b \in Bearer \union {Absent},
           PoolSound(p), CanReserve(p), r \notin p.pending,
           p.entry[s].state # "live"
    PROVE  /\ PoolSound(WithCandidate(p, r, s, b))
           /\ OnlyEntry(p, WithCandidate(p, r, s, b), s)
           /\ WithCandidate(p, r, s, b).pending = p.pending \union {r}
           /\ WithCandidate(p, r, s, b).entry[s].state = "candidate"
           /\ WithCandidate(p, r, s, b).entry[s].bearer = b
           /\ WithCandidate(p, r, s, b).entry[s].active = 0
<1> DEFINE q == WithCandidate(p, r, s, b)
           e == [Blank EXCEPT !.state = "candidate", !.bearer = b]
           q0 == WithEntry(p, s, e)
<1>1. /\ e \in Entry /\ e.state = "candidate" /\ e.timer = FALSE
      /\ e.active = 0 /\ e.bearer = b
  <2>1. 0 \in 0 .. Cardinality(Request)
    BY RequestsAreFinite, FS_CardinalityType
  <2> QED BY <2>1 DEF Blank, Entry
<1>2. q = WithSlots(q0, p.pending \union {r}, p.occupied + 1)
  <2>1. q = [Reserved(p, r) EXCEPT !.entry[s] = e]
    BY DEF WithCandidate
  <2> HIDE DEF e, q
  <2> QED BY <2>1, <1>1 DEF Reserved, WithEntry, WithSlots, Pool
<1> HIDE DEF e, q
<1>3. /\ q0 \in Pool /\ q0.entry[s] = e /\ OnlyEntry(p, q0, s)
      /\ q0.pending = p.pending /\ q0.occupied = p.occupied /\ q0.stopped = p.stopped
  BY <1>1, WithEntryFields
<1> HIDE DEF q0
<1>4. p.occupied + 1 \in 0 .. MaxSessions /\ ~p.stopped /\ p.pending \subseteq Request
  BY SlotsArePositive DEF CanReserve, Pool
<1>5. /\ q \in Pool /\ q.entry[s] = e /\ OnlyEntry(p, q, s)
      /\ q.pending = p.pending \union {r} /\ q.occupied = p.occupied + 1
      /\ q.stopped = p.stopped
  BY <1>2, <1>3, <1>4, WithSlotsFields DEF OnlyEntry
<1>6. Live(q) = Live(p)
  BY <1>1, <1>5, LiveKept
<1>7. Cardinality(q.pending) = Cardinality(p.pending) + 1
  BY <1>5, PoolFinite, FS_AddElement, ZenonT(60)
<1>8. q.occupied = Cardinality(q.pending) + Cardinality(Live(q))
  BY <1>5, <1>6, <1>7, PoolFinite DEF PoolSound
<1>9. \A t \in Live(q) : q.entry[t] = p.entry[t]
  BY <1>1, <1>5 DEF OnlyEntry, Live
<1>10. \A t \in McpSession :
          q.entry[t].timer <=> (q.entry[t].state = "live" /\ q.entry[t].active = 0)
  BY <1>1, <1>5 DEF OnlyEntry, PoolSound
<1>11. PoolSound(q)
  <2>1. \A t, u \in Live(q) : q.entry[t].id = q.entry[u].id => t = u
    BY <1>6, <1>9 DEF PoolSound
  <2> QED BY <2>1, <1>4, <1>5, <1>8, <1>10 DEF PoolSound
<1> QED BY <1>1, <1>5, <1>11 DEF q

(* A reservation that is released gives its slot back, once. *)
LEMMA UnreservedSound ==
    ASSUME NEW p \in Pool, NEW r \in Request, PoolSound(p)
    PROVE  /\ PoolSound(Unreserved(p, r))
           /\ Unreserved(p, r).entry = p.entry
           /\ Unreserved(p, r).pending = p.pending \ {r}
<1>1. CASE r \notin p.pending
  BY <1>1 DEF Unreserved
<1>2. CASE r \in p.pending
  <2> DEFINE q == Unreserved(p, r)
  <2>1. p.occupied >= 1 /\ p.occupied \in 0 .. MaxSessions
    BY <1>2, PendingIsOccupied DEF PoolSound, Pool
  <2>2. /\ q \in Pool /\ q.entry = p.entry /\ q.pending = p.pending \ {r}
        /\ q.occupied = p.occupied - 1 /\ q.stopped = p.stopped
    <3>1. q = WithSlots(p, p.pending \ {r}, p.occupied - 1)
      BY <1>2 DEF Unreserved, WithSlots
    <3>2. p.occupied - 1 \in 0 .. MaxSessions /\ p.pending \ {r} \in SUBSET Request
      BY <2>1, SlotsArePositive DEF Pool
    <3> HIDE DEF q
    <3> QED BY <3>1, <3>2, WithSlotsFields
  <2> HIDE DEF q
  <2>3. Live(q) = Live(p)
    BY <2>2 DEF Live
  <2>4. Cardinality(q.pending) = Cardinality(p.pending) - 1
    BY <1>2, <2>2, PoolFinite, FS_RemoveElement
  <2>5. q.occupied = Cardinality(q.pending) + Cardinality(Live(q))
    BY <2>1, <2>2, <2>3, <2>4, PoolFinite DEF PoolSound
  <2>6. PoolSound(q)
    BY <2>2, <2>3, <2>5 DEF PoolSound
  <2> QED BY <2>2, <2>6 DEF q
<1> QED BY <1>1, <1>2

(* The pool with another state of one of its entries. *)
WithState(p, s, state) == [p EXCEPT !.entry[s].state = state]

(* A resource that is not in the pool starts or ends its closing without   *)
(* touching what the pool counts.                                          *)
LEMMA OutsideSound ==
    ASSUME NEW p \in Pool, NEW s \in McpSession, PoolSound(p),
           p.entry[s].state # "live",
           NEW state \in {"closing", "closed"}
    PROVE  /\ PoolSound(WithState(p, s, state))
           /\ OnlyEntry(p, WithState(p, s, state), s)
           /\ WithState(p, s, state).pending = p.pending
           /\ WithState(p, s, state).entry[s].state = state
           /\ WithState(p, s, state).entry[s].bearer = p.entry[s].bearer
           /\ WithState(p, s, state).entry[s].active = p.entry[s].active
<1> DEFINE q == WithState(p, s, state)
           e == [p.entry[s] EXCEPT !.state = state]
<1>1. p.entry[s] \in Entry
  BY DEF Pool
<1>2. /\ e \in Entry /\ e.state = state /\ e.timer = p.entry[s].timer
      /\ e.active = p.entry[s].active /\ e.id = p.entry[s].id
      /\ e.bearer = p.entry[s].bearer
  BY <1>1 DEF Entry
<1>3. q = WithEntry(p, s, e)
  BY DEF WithState, WithEntry, Pool, Entry
<1> HIDE DEF e, q
<1>4. /\ q \in Pool /\ q.entry[s] = e /\ OnlyEntry(p, q, s)
      /\ q.pending = p.pending /\ q.occupied = p.occupied /\ q.stopped = p.stopped
  BY <1>2, <1>3, WithEntryFields
<1>5. Live(q) = Live(p)
  BY <1>2, <1>4, LiveKept
<1>6. \A t \in McpSession : q.entry[t].id = p.entry[t].id
  BY <1>2, <1>4 DEF OnlyEntry
<1>7. \A t \in McpSession :
          q.entry[t].timer <=> (q.entry[t].state = "live" /\ q.entry[t].active = 0)
  BY <1>2, <1>4 DEF OnlyEntry, PoolSound
<1>8. PoolSound(q)
  BY <1>4, <1>5, <1>6, <1>7, ZenonT(60) DEF PoolSound, Live
<1> QED BY <1>2, <1>4, <1>8 DEF q

(* A commit hands the slot of the reservation to the session.              *)
LEMMA CommittedSound ==
    ASSUME NEW p \in Pool, NEW r \in Request, NEW s \in McpSession, NEW id \in Id,
           PoolSound(p), CanCommit(p, r, id),
           p.entry[s].state = "candidate",
           p.entry[s].active + 1 <= Cardinality(Request)
    PROVE  /\ PoolSound(SessionCommitted(p, r, s, id))
           /\ OnlyEntry(p, SessionCommitted(p, r, s, id), s)
           /\ SessionCommitted(p, r, s, id).pending = p.pending \ {r}
           /\ SessionCommitted(p, r, s, id).entry[s].state = "live"
           /\ SessionCommitted(p, r, s, id).entry[s].bearer = p.entry[s].bearer
           /\ SessionCommitted(p, r, s, id).entry[s].active = p.entry[s].active + 1
<1> DEFINE e == [p.entry[s] EXCEPT !.state = "live", !.id = id, !.timer = FALSE,
                                   !.active = p.entry[s].active + 1]
           e1 == [p.entry[s] EXCEPT !.state = "live", !.id = id]
           p1 == WithSlots(p, p.pending \ {r}, p.occupied)
           q == SessionCommitted(p, r, s, id)
<1>1. p.entry[s] \in Entry /\ p.entry[s].active \in Nat
  BY RequestsAreFinite, FS_CardinalityType DEF Pool, Entry
<1>2. /\ e \in Entry
      /\ e.timer = FALSE /\ e.active = p.entry[s].active + 1
      /\ e.state = "live" /\ e.id = id
      /\ e.bearer = p.entry[s].bearer
  <2>1. p.entry[s].active + 1 \in 0 .. Cardinality(Request)
    BY <1>1, RequestsAreFinite, FS_CardinalityType
  <2> QED BY <1>1, <2>1 DEF Entry
<1>3. q = WithEntry(p1, s, e)
  <2>1. [p EXCEPT !.pending = @ \ {r}, !.entry[s].state = "live", !.entry[s].id = id]
          = WithEntry(p1, s, e1)
    BY <1>1 DEF WithEntry, WithSlots, Pool, Entry
  <2>2. q = Leased(WithEntry(p1, s, e1), s)
    BY <2>1 DEF SessionCommitted
  <2>3. p1 \in Pool
    BY WithSlotsFields DEF Pool
  <2>4. e1 \in Entry
    BY <1>1 DEF Entry
  <2> DEFINE p2 == WithEntry(p1, s, e1)
  <2>5. p2 \in Pool /\ p2.entry[s] = e1
    <3> HIDE DEF p1, e1
    <3> QED BY <2>3, <2>4, WithEntryFields
  <2>6. [p2 EXCEPT !.entry[s].timer = FALSE, !.entry[s].active = @ + 1]
          = WithEntry(p2, s, [e1 EXCEPT !.timer = FALSE, !.active = e1.active + 1])
    <3> HIDE DEF p2, e1
    <3> QED BY <2>4, <2>5 DEF WithEntry, Pool, Entry
  <2>7. e = [e1 EXCEPT !.timer = FALSE, !.active = e1.active + 1]
    BY <1>1 DEF Entry
  <2>8. WithEntry(p2, s, e) = WithEntry(p1, s, e)
    <3> HIDE DEF p1, e1, e
    <3> QED BY <2>3 DEF WithEntry, Pool
  <2>9. q = WithEntry(p2, s, e)
    <3> HIDE DEF p1, e1, e
    <3> QED BY <2>2, <2>6, <2>7 DEF Leased
  <2> QED BY <2>8, <2>9
<1> HIDE DEF e, e1, q
<1>4. /\ p1 \in Pool /\ p1.entry = p.entry
      /\ p1.pending = p.pending \ {r} /\ p1.occupied = p.occupied /\ p1.stopped = p.stopped
  BY WithSlotsFields DEF Pool
<1> HIDE DEF p1
<1>5. /\ q \in Pool /\ q.entry[s] = e /\ OnlyEntry(p, q, s)
      /\ q.pending = p.pending \ {r} /\ q.occupied = p.occupied /\ q.stopped = p.stopped
  BY <1>2, <1>3, <1>4, WithEntryFields DEF OnlyEntry
<1>6. Live(q) = Live(p) \union {s} /\ Cardinality(Live(q)) = Cardinality(Live(p)) + 1
  BY <1>2, <1>5, LiveGained
<1>7. Cardinality(q.pending) = Cardinality(p.pending) - 1
  <2>1. r \in p.pending
    BY DEF CanCommit
  <2>2. IsFiniteSet(p.pending)
    BY PoolFinite
  <2>3. Cardinality(p.pending \ {r}) = Cardinality(p.pending) - 1
    BY <2>1, <2>2, FS_RemoveElement
  <2> QED BY <2>3, <1>5
<1>8. q.occupied = Cardinality(q.pending) + Cardinality(Live(q))
  BY <1>5, <1>6, <1>7, PoolFinite DEF PoolSound
<1>9. \A t, u \in Live(q) : q.entry[t].id = q.entry[u].id => t = u
  BY <1>2, <1>5, <1>6 DEF OnlyEntry, CanCommit, Has, PoolSound, Live
<1>10. \A t \in McpSession :
          q.entry[t].timer <=> (q.entry[t].state = "live" /\ q.entry[t].active = 0)
  BY <1>1, <1>2, <1>5 DEF OnlyEntry, PoolSound
<1>11. ~q.stopped
  BY <1>5 DEF CanCommit
<1>12. PoolSound(q)
  BY <1>5, <1>8, <1>9, <1>10, <1>11 DEF PoolSound
<1> QED BY <1>2, <1>5, <1>12 DEF q

(* The stopped pool with other entries and another count. *)
WithAll(p, E, n) ==
    [p EXCEPT !.stopped = TRUE, !.pending = {}, !.occupied = n, !.entry = E]

(* It is a pool. *)
LEMMA WithAllFields ==
    ASSUME NEW p \in Pool, NEW E \in [McpSession -> Entry], NEW n \in 0 .. MaxSessions
    PROVE  WithAll(p, E, n) \in Pool
BY DEF WithAll, Pool

(* Closing the pool releases every reservation and disposes of every       *)
(* session: no slot is left taken.                                         *)
LEMMA PoolClosedSound ==
    ASSUME NEW p \in Pool, PoolSound(p)
    PROVE  /\ PoolSound(PoolClosed(p))
           /\ PoolClosed(p).pending = {}
           /\ \A t \in McpSession :
                 /\ PoolClosed(p).entry[t].state =
                        IF p.entry[t].state = "live" THEN "closing" ELSE p.entry[t].state
                 /\ PoolClosed(p).entry[t].bearer = p.entry[t].bearer
                 /\ PoolClosed(p).entry[t].active = p.entry[t].active
<1> DEFINE e(t) == [p.entry[t] EXCEPT !.state = "closing", !.timer = FALSE]
           q == PoolClosed(p)
<1>1. ASSUME NEW t \in McpSession
      PROVE  /\ p.entry[t] \in Entry
             /\ e(t) \in Entry /\ e(t).state = "closing" /\ e(t).timer = FALSE
             /\ e(t).active = p.entry[t].active
             /\ e(t).bearer = p.entry[t].bearer
  BY DEF Pool, Entry
<1>2. /\ q.stopped = TRUE /\ q.pending = {}
      /\ q.occupied = p.occupied - Cardinality(p.pending) - Cardinality(Live(p))
      /\ q.entry = [t \in McpSession |-> IF t \in Live(p) THEN e(t) ELSE p.entry[t]]
  BY DEF PoolClosed, Pool
<1>3. q = WithAll(p, q.entry, q.occupied)
  <2>1. q = [p EXCEPT !.stopped = TRUE, !.pending = {},
                      !.occupied = p.occupied - Cardinality(p.pending) - Cardinality(Live(p)),
                      !.entry = [t \in McpSession |-> IF t \in Live(p) THEN e(t) ELSE p.entry[t]]]
    BY DEF PoolClosed
  <2> HIDE DEF q, e
  <2> QED BY <1>2, <2>1 DEF WithAll
<1> HIDE DEF e, q
<1>4. q.occupied = 0
  BY <1>2, PoolFinite DEF PoolSound
<1>5. q.entry \in [McpSession -> Entry]
  BY <1>1, <1>2
<1>6. q \in Pool
  <2>1. q.occupied \in 0 .. MaxSessions
    BY <1>4, SlotsArePositive
  <2> QED BY <1>3, <1>5, <2>1, WithAllFields
<1>7. \A t \in McpSession :
          /\ q.entry[t].state = IF p.entry[t].state = "live" THEN "closing" ELSE p.entry[t].state
          /\ q.entry[t].bearer = p.entry[t].bearer
          /\ q.entry[t].active = p.entry[t].active
          /\ q.entry[t].timer <=> FALSE
  <2> TAKE t \in McpSession
  <2>1. CASE p.entry[t].state = "live"
    BY <2>1, <1>1, <1>2 DEF Live
  <2>2. CASE p.entry[t].state # "live"
    <3>1. q.entry[t] = p.entry[t]
      BY <2>2, <1>2 DEF Live
    <3>2. p.entry[t].timer <=> FALSE
      BY <2>2 DEF PoolSound
    <3> QED BY <2>2, <3>1, <3>2
  <2> QED BY <2>1, <2>2
<1>8. Live(q) = {}
  BY <1>7 DEF Live
<1>9. PoolSound(q)
  BY <1>2, <1>4, <1>6, <1>7, <1>8, FS_EmptySet DEF PoolSound
<1> QED BY <1>2, <1>7, <1>9 DEF q

-----------------------------------------------------------------------------
(* Leases.                                                                 *)

(* The counts stay right if nobody takes or gives a lease. *)
LEMMA LeasesKept ==
    ASSUME LeasesCounted,
           \A t \in McpSession : pool'.entry[t].active = pool.entry[t].active,
           \A q \in Request, t \in McpSession : Holds(q, t)' <=> Holds(q, t)
    PROVE  LeasesCounted'
<1> SUFFICES ASSUME NEW t \in McpSession
             PROVE  pool'.entry[t].active = Cardinality(Holders(t)')
  BY DEF LeasesCounted
<1>1. Holders(t)' = Holders(t)
  BY DEF Holders, Holds
<1> QED BY <1>1 DEF LeasesCounted

(* One request takes a lease on one session. *)
LEMMA LeaseTaken ==
    ASSUME LeasesCounted, NEW r \in Request, NEW s \in McpSession,
           pool'.entry[s].active = pool.entry[s].active + 1,
           \A t \in McpSession : t # s => pool'.entry[t].active = pool.entry[t].active,
           ~Holds(r, s), Holds(r, s)',
           \A q \in Request, t \in McpSession :
               (q # r \/ t # s) => (Holds(q, t)' <=> Holds(q, t))
    PROVE  LeasesCounted'
<1> SUFFICES ASSUME NEW t \in McpSession
             PROVE  pool'.entry[t].active = Cardinality(Holders(t)')
  BY DEF LeasesCounted
<1>1. CASE t # s
  <2>1. Holders(t)' = Holders(t)
    BY <1>1 DEF Holders, Holds
  <2> QED BY <1>1, <2>1 DEF LeasesCounted
<1>2. CASE t = s
  <2>1. Holders(s)' = Holders(s) \union {r}
    BY DEF Holders, Holds
  <2>2. r \notin Holders(s)
    BY DEF Holders, Holds
  <2>3. IsFiniteSet(Holders(s))
    BY HoldersFinite
  <2>4. Cardinality(Holders(s) \union {r}) = Cardinality(Holders(s)) + 1
    BY <2>2, <2>3, FS_AddElement
  <2> QED BY <1>2, <2>1, <2>4 DEF LeasesCounted
<1> QED BY <1>1, <1>2

(* One request gives a lease on one session back. *)
LEMMA LeaseGiven ==
    ASSUME LeasesCounted, NEW r \in Request, NEW s \in McpSession,
           pool'.entry[s].active = pool.entry[s].active - 1,
           \A t \in McpSession : t # s => pool'.entry[t].active = pool.entry[t].active,
           Holds(r, s), ~Holds(r, s)',
           \A q \in Request, t \in McpSession :
               (q # r \/ t # s) => (Holds(q, t)' <=> Holds(q, t))
    PROVE  LeasesCounted'
<1> SUFFICES ASSUME NEW t \in McpSession
             PROVE  pool'.entry[t].active = Cardinality(Holders(t)')
  BY DEF LeasesCounted
<1>1. CASE t # s
  <2>1. Holders(t)' = Holders(t)
    BY <1>1 DEF Holders, Holds
  <2> QED BY <1>1, <2>1 DEF LeasesCounted
<1>2. CASE t = s
  <2>1. Holders(s)' = Holders(s) \ {r}
    BY DEF Holders, Holds
  <2>2. r \in Holders(s)
    BY DEF Holders, Holds
  <2>3. IsFiniteSet(Holders(s))
    BY HoldersFinite
  <2>4. Cardinality(Holders(s) \ {r}) = Cardinality(Holders(s)) - 1
    BY <2>2, <2>3, FS_RemoveElement
  <2> QED BY <1>2, <2>1, <2>4 DEF LeasesCounted
<1> QED BY <1>1, <1>2

-----------------------------------------------------------------------------
(* One step of the listener.                                               *)

Opened == {"live", "closing", "closed"}

(* A step of one request, which may change one session, preserves the      *)
(* invariant if the request still tells the truth about itself and the     *)
(* session does not fall back.                                             *)
LEMMA RequestStep ==
    ASSUME Inv, NEW r \in Request, NEW s,
           PoolSound(pool'), OnlyEntry(pool, pool', s),
           pool'.pending \subseteq pool.pending \union {r},
           req' \in [Request -> RequestState],
           \A q \in Request : q # r => req'[q] = req[q],
           stopping' = stopping,
           LeasesCounted',
           RequestKnown(r)',
           req'[r].existing => pool'.entry[req'[r].session].bearer = req'[r].bearer,
           req'[r].candidate =>
               \/ req[r].candidate /\ req[r].session = req'[r].session
               \/ \A q \in Request : req[q].session # req'[r].session,
           req[r].candidate => req[r].session = s,
           s \in McpSession =>
               /\ pool.entry[s].state \in Opened =>
                     \/ \A q \in Request : req[q].session # s
                     \/ /\ pool'.entry[s].state \in Opened
                        /\ pool'.entry[s].bearer = pool.entry[s].bearer
               /\ pool.entry[s].state = "candidate" =>
                     \/ req[r].candidate
                     \/ pool'.entry[s].state = "candidate"
               /\ pool'.entry[s].state = "candidate" =>
                     \/ req'[r].candidate /\ req'[r].session = s
                     \/ pool.entry[s].state = "candidate" /\ ~req[r].candidate
    PROVE  Inv'
<1>1. ASSUME NEW q \in Request, q # r
      PROVE  RequestKnown(q)'
  <2>1. RequestKnown(q) /\ req'[q] = req[q]
    BY <1>1 DEF Inv
  <2>2. req[q].session \in McpSession /\ req[q].session # s
            => pool'.entry[req[q].session] = pool.entry[req[q].session]
    BY DEF OnlyEntry
  <2>3. ~(req[q].candidate /\ req[r].candidate /\ req[q].session = s)
    BY <1>1 DEF Inv, Makers
  <2>4. q \in pool'.pending => q \in pool.pending
    BY <1>1
  <2> QED BY <2>1, <2>2, <2>3, <2>4 DEF RequestKnown, Opened
<1>2. \A q \in Request : RequestKnown(q)'
  BY <1>1
<1>3. Makers'
  BY DEF Makers, Inv
<1>4. OwnBearer'
  <2> SUFFICES ASSUME NEW q \in Request, q # r, req'[q].existing
               PROVE  pool'.entry[req'[q].session].bearer = req'[q].bearer
    BY DEF OwnBearer
  <2>1. /\ req'[q] = req[q] /\ RequestKnown(q)
        /\ pool.entry[req[q].session].bearer = req[q].bearer
    BY DEF Inv, OwnBearer
  <2>2. req[q].session \in McpSession /\ pool.entry[req[q].session].state \in Opened
    BY <2>1 DEF RequestKnown, Opened
  <2>3. CASE req[q].session = s
    BY <2>1, <2>2, <2>3
  <2>4. CASE req[q].session # s
    BY <2>1, <2>2, <2>4 DEF OnlyEntry
  <2> QED BY <2>3, <2>4
<1>5. NothingStranded'
  <2>1. ASSUME NEW q \in pool'.pending
        PROVE  req'[q].pc \in {"connecting", "handling", "reading"}
    <3>1. q \in Request
      BY DEF PoolSound, Pool
    <3> QED BY <3>1, <1>2 DEF RequestKnown
  <2>2. ASSUME NEW t \in McpSession, pool'.entry[t].state = "candidate"
        PROVE  \E q \in Request : req'[q].candidate /\ req'[q].session = t
    <3>1. CASE t = s /\ req'[r].candidate /\ req'[r].session = s
      BY <3>1
    <3>2. CASE ~(t = s /\ req'[r].candidate /\ req'[r].session = s)
      <4>1. pool.entry[t].state = "candidate" /\ (t = s => ~req[r].candidate)
        BY <2>2, <3>2 DEF OnlyEntry
      <4>2. PICK q \in Request : req[q].candidate /\ req[q].session = t
        BY <4>1 DEF Inv, NothingStranded
      <4>3. q # r
        BY <4>1, <4>2
      <4> QED BY <4>2, <4>3
    <3> QED BY <3>1, <3>2
  <2> QED BY <2>1, <2>2 DEF NothingStranded
<1> QED BY <1>2, <1>3, <1>4, <1>5 DEF Inv

(* A step of the pool alone preserves the invariant if it only shuts       *)
(* sessions or settles their closing, or gives up reservations.            *)
LEMMA PoolStep ==
    ASSUME Inv, PoolSound(pool'), req' = req, stopping' \in BOOLEAN,
           pool'.pending \subseteq pool.pending,
           \A t \in McpSession :
               /\ pool'.entry[t].active = pool.entry[t].active
               /\ pool'.entry[t].bearer = pool.entry[t].bearer
               /\ pool'.entry[t].state = "candidate" <=> pool.entry[t].state = "candidate"
               /\ pool.entry[t].state \in Opened => pool'.entry[t].state \in Opened
    PROVE  Inv'
<1>1. LeasesCounted'
  BY LeasesKept DEF Inv, Holds
<1>2. \A q \in Request : RequestKnown(q)'
  <2> TAKE q \in Request
  <2>1. RequestKnown(q)
    BY DEF Inv
  <2> QED BY <2>1 DEF RequestKnown, Opened
<1>3. Makers'
  BY DEF Makers, Inv
<1>4. OwnBearer'
  BY DEF OwnBearer, Inv, RequestKnown
<1>5. NothingStranded'
  BY DEF NothingStranded, Inv
<1> QED BY <1>1, <1>2, <1>3, <1>4, <1>5 DEF Inv

-----------------------------------------------------------------------------
(* The actions.                                                            *)

(* What a request may become keeps its type. *)
LEMMA RequestTyped ==
    ASSUME NEW r \in Request, NEW x \in RequestState, req \in [Request -> RequestState],
           req' = [req EXCEPT ![r] = x]
    PROVE  /\ req' \in [Request -> RequestState]
           /\ req'[r] = x
           /\ \A q \in Request : q # r => req'[q] = req[q]
OBVIOUS

(* A request goes on to another stage with all it holds. *)
LEMMA MovesInv ==
    ASSUME Inv, NEW r \in Request, NEW pc \in {"handling", "reading"},
           Moves(r, pc), UNCHANGED pool, UNCHANGED stopping
    PROVE  Inv'
<1> DEFINE x == [req[r] EXCEPT !.pc = pc]
<1>1. req[r] \in RequestState /\ RequestKnown(r)
  BY DEF Inv
<1>2. /\ x \in RequestState /\ x.pc = pc /\ x.session = req[r].session
      /\ x.bearer = req[r].bearer /\ x.existing = req[r].existing
      /\ x.candidate = req[r].candidate /\ x.fresh = req[r].fresh
  BY <1>1 DEF RequestState, Stage
<1>3. req' = [req EXCEPT ![r] = x]
  BY DEF Moves
<1> HIDE DEF x
<1>4. /\ req' \in [Request -> RequestState] /\ req'[r] = x
      /\ \A q \in Request : q # r => req'[q] = req[q]
  BY <1>2, <1>3, RequestTyped DEF Inv
<1>5. LeasesCounted'
  BY <1>2, <1>4, LeasesKept DEF Inv, Holds
<1>6. RequestKnown(r)'
  BY <1>1, <1>2, <1>4 DEF RequestKnown
<1>7. req'[r].existing => pool'.entry[req'[r].session].bearer = req'[r].bearer
  BY <1>2, <1>4 DEF Inv, OwnBearer
<1> DEFINE s == req[r].session
<1>8. PoolSound(pool') /\ OnlyEntry(pool, pool', s)
  BY DEF Inv, OnlyEntry
<1>9. s \in McpSession =>
               /\ pool.entry[s].state \in Opened =>
                     /\ pool'.entry[s].state \in Opened
                     /\ pool'.entry[s].bearer = pool.entry[s].bearer
               /\ pool.entry[s].state = "candidate" =>
                     \/ req[r].candidate
                     \/ pool'.entry[s].state = "candidate"
               /\ pool'.entry[s].state = "candidate" =>
                     \/ req'[r].candidate /\ req'[r].session = s
                     \/ pool.entry[s].state = "candidate" /\ ~req[r].candidate
  BY <1>2, <1>4
<1>10. req'[r].candidate =>
               \/ req[r].candidate /\ req[r].session = req'[r].session
               \/ \A q \in Request : req[q].session # req'[r].session
  BY <1>2, <1>4
<1>11. pool'.pending \subseteq pool.pending \union {r} /\ stopping' = stopping
  OBVIOUS
<1> HIDE DEF s
<1> QED BY <1>4, <1>5, <1>6, <1>7, <1>8, <1>9, <1>10, <1>11, RequestStep DEF s

(* A request that made nothing leaves, with its lease if it had one. *)
LEMMA LeavesInv ==
    ASSUME Inv, NEW r \in Request, ~req[r].candidate,
           Leaves(r), UNCHANGED stopping
    PROVE  Inv'
<1>0. PICK s : s = req[r].session
  OBVIOUS
<1>1. req[r] \in RequestState /\ RequestKnown(r) /\ PoolSound(pool) /\ pool \in Pool
  BY DEF Inv, PoolSound
<1>2. /\ IdleRequest \in RequestState /\ IdleRequest.pc = "off"
      /\ ~IdleRequest.existing /\ ~IdleRequest.candidate /\ ~IdleRequest.fresh
  BY DEF IdleRequest, RequestState, Stage
<1>3. /\ req' \in [Request -> RequestState] /\ req'[r] = IdleRequest
      /\ \A q \in Request : q # r => req'[q] = req[q]
  BY <1>2, RequestTyped DEF Inv, Leaves
<1>4. ~req[r].fresh /\ r \notin pool.pending
  BY <1>1 DEF RequestKnown
<1>5. /\ PoolSound(pool') /\ OnlyEntry(pool, pool', s)
      /\ pool'.pending = pool.pending
      /\ LeasesCounted'
      /\ s \in McpSession =>
            /\ pool'.entry[s].state = pool.entry[s].state
            /\ pool'.entry[s].bearer = pool.entry[s].bearer
  <2>1. CASE req[r].existing
    <3>1. s \in McpSession /\ Holds(r, s)
      BY <1>0, <1>1, <2>1 DEF RequestKnown, Holds
    <3>2. pool.entry[s].active >= 1
      BY <3>1, LeaseIsCounted DEF Inv
    <3>3. pool' = Released(pool, s)
      BY <1>0, <2>1 DEF Leaves
    <3>4. /\ PoolSound(pool') /\ OnlyEntry(pool, pool', s)
          /\ pool'.pending = pool.pending
          /\ pool'.entry[s].state = pool.entry[s].state
          /\ pool'.entry[s].bearer = pool.entry[s].bearer
          /\ pool'.entry[s].active = pool.entry[s].active - 1
      BY <1>1, <3>1, <3>2, <3>3, ReleasedSound
    <3>5. \A t \in McpSession : t # s => pool'.entry[t].active = pool.entry[t].active
      BY <3>4 DEF OnlyEntry
    <3>6. ~Holds(r, s)'
      BY <1>2, <1>3 DEF Holds
    <3>7. \A q \in Request, t \in McpSession :
               (q # r \/ t # s) => (Holds(q, t)' <=> Holds(q, t))
      BY <1>0, <1>2, <1>3 DEF Holds
    <3>8. LeasesCounted'
      BY <3>1, <3>4, <3>5, <3>6, <3>7, LeaseGiven DEF Inv
    <3> QED BY <3>4, <3>8
  <2>2. CASE ~req[r].existing
    <3>1. pool' = pool
      BY <2>2 DEF Leaves
    <3>2. LeasesCounted'
      BY <1>2, <1>3, <1>4, <2>2, <3>1, LeasesKept DEF Inv, Holds
    <3> QED BY <1>1, <3>1, <3>2 DEF OnlyEntry
  <2> QED BY <2>1, <2>2
<1>6. RequestKnown(r)'
  BY <1>2, <1>3, <1>4, <1>5 DEF RequestKnown
<1> QED BY <1>2, <1>3, <1>5, <1>6, RequestStep

(* A request gives up the session it made. *)
LEMMA AbandonInv ==
    ASSUME Inv, NEW r \in Request, req[r].candidate,
           AbandonFresh(r), UNCHANGED stopping
    PROVE  Inv'
<1>0. PICK s : s = req[r].session
  OBVIOUS
<1> DEFINE x == [req[r] EXCEPT !.pc = "leaving", !.candidate = FALSE, !.fresh = FALSE]
           p == Unreserved(pool, r)
<1>1. req[r] \in RequestState /\ RequestKnown(r) /\ PoolSound(pool) /\ pool \in Pool
  BY DEF Inv, PoolSound
<1>2. /\ x \in RequestState /\ x.pc = "leaving" /\ x.session = s
      /\ x.existing = req[r].existing /\ ~x.candidate /\ ~x.fresh
  BY <1>0, <1>1 DEF RequestState, Stage
<1>3. req' = [req EXCEPT ![r] = x]
  BY DEF AbandonFresh
<1>4. s \in McpSession /\ ~req[r].existing
  BY <1>0, <1>1 DEF RequestKnown
<1> HIDE DEF x
<1>5. /\ req' \in [Request -> RequestState] /\ req'[r] = x
      /\ \A q \in Request : q # r => req'[q] = req[q]
  BY <1>2, <1>3, RequestTyped DEF Inv
<1>6. /\ PoolSound(p) /\ p \in Pool /\ p.entry = pool.entry
      /\ p.pending = pool.pending \ {r}
  BY <1>1, UnreservedSound DEF PoolSound
<1> HIDE DEF p
<1>7. pool' = IF req[r].fresh THEN Disposed(Released(p, s), s)
                              ELSE WithState(p, s, "closing")
  BY <1>0 DEF AbandonFresh, AbandonedPool, WithState, p
<1>8. ~Holds(r, s)'
  BY <1>2, <1>4, <1>5 DEF Holds
<1>9. \A q \in Request, t \in McpSession :
               (q # r \/ t # s) => (Holds(q, t)' <=> Holds(q, t))
  BY <1>0, <1>2, <1>4, <1>5 DEF Holds
<1>10. /\ PoolSound(pool') /\ OnlyEntry(pool, pool', s)
       /\ pool'.pending = pool.pending \ {r}
       /\ LeasesCounted'
       /\ pool'.entry[s].state \in {"closing", "closed"}
       /\ pool'.entry[s].bearer = pool.entry[s].bearer
  <2>1. CASE req[r].fresh
    <3> DEFINE p1 == Released(p, s)
    <3>1. Holds(r, s)
      BY <1>0, <2>1 DEF Holds
    <3>2. pool.entry[s].active >= 1
      BY <1>4, <3>1, LeaseIsCounted DEF Inv
    <3>3. /\ PoolSound(p1) /\ OnlyEntry(p, p1, s)
          /\ p1.pending = p.pending
          /\ p1.entry[s].state = p.entry[s].state
          /\ p1.entry[s].bearer = p.entry[s].bearer
          /\ p1.entry[s].active = p.entry[s].active - 1
      BY <1>4, <1>6, <3>2, ReleasedSound
    <3>4. p1 \in Pool
      BY <3>3 DEF PoolSound
    <3>5. pool' = Disposed(p1, s)
      BY <1>7, <2>1
    <3> HIDE DEF p1
    <3>6. /\ PoolSound(pool') /\ OnlyEntry(p1, pool', s)
          /\ pool'.pending = p1.pending
          /\ pool'.entry[s].state =
                 IF p1.entry[s].state = "live" THEN "closing" ELSE p1.entry[s].state
          /\ pool'.entry[s].bearer = p1.entry[s].bearer
          /\ pool'.entry[s].active = p1.entry[s].active
      BY <1>4, <3>3, <3>4, <3>5, DisposedSound
    <3>7. \A t \in McpSession : t # s => pool'.entry[t] = pool.entry[t]
      BY <1>6, <3>3, <3>6 DEF OnlyEntry
    <3>8. pool'.entry[s].active = pool.entry[s].active - 1
      BY <1>6, <3>3, <3>6
    <3>9. LeasesCounted'
      BY <1>4, <1>8, <1>9, <3>1, <3>7, <3>8, LeaseGiven DEF Inv
    <3>10. pool.entry[s].state \in Opened
      BY <1>0, <1>1, <2>1 DEF RequestKnown, Opened
    <3> QED BY <1>6, <3>3, <3>6, <3>7, <3>9, <3>10 DEF OnlyEntry, Opened
  <2>2. CASE ~req[r].fresh
    <3>1. pool.entry[s].state = "candidate"
      BY <1>0, <1>1, <2>2 DEF RequestKnown
    <3>2. pool' = WithState(p, s, "closing")
      BY <1>7, <2>2
    <3>3. /\ PoolSound(pool') /\ OnlyEntry(p, pool', s)
          /\ pool'.pending = p.pending
          /\ pool'.entry[s].state = "closing"
          /\ pool'.entry[s].bearer = p.entry[s].bearer
          /\ pool'.entry[s].active = p.entry[s].active
      BY <1>4, <1>6, <3>1, <3>2, OutsideSound
    <3>4. \A t \in McpSession : t # s => pool'.entry[t] = pool.entry[t]
      BY <1>6, <3>3 DEF OnlyEntry
    <3>5. ~Holds(r, s)
      BY <1>0, <1>4, <2>2 DEF Holds
    <3>6. LeasesCounted'
      <4>1. \A t \in McpSession : pool'.entry[t].active = pool.entry[t].active
        BY <1>6, <3>3, <3>4
      <4>2. \A q \in Request, t \in McpSession : Holds(q, t)' <=> Holds(q, t)
        BY <1>8, <1>9, <3>5
      <4> QED BY <4>1, <4>2, LeasesKept DEF Inv
    <3> QED BY <1>6, <3>3, <3>4, <3>6 DEF OnlyEntry
  <2> QED BY <2>1, <2>2
<1>11. RequestKnown(r)'
  BY <1>2, <1>4, <1>5, <1>10 DEF RequestKnown
<1>12. s \in McpSession =>
               /\ pool.entry[s].state \in Opened =>
                     /\ pool'.entry[s].state \in Opened
                     /\ pool'.entry[s].bearer = pool.entry[s].bearer
               /\ pool'.entry[s].state # "candidate"
  BY <1>10 DEF Opened
<1>13. ~req'[r].existing /\ ~req'[r].candidate
  BY <1>2, <1>4, <1>5
<1>14. req[r].candidate => req[r].session = s
  BY <1>0, ZenonT(60)
<1> QED BY <1>5, <1>10, <1>11, <1>12, <1>13, <1>14, RequestStep

(* A request disposes of the session it came for. *)
LEMMA DisposesInv ==
    ASSUME Inv, NEW r \in Request, req[r].existing,
           pool' = Disposed(pool, req[r].session), Moves(r, "leaving"),
           UNCHANGED stopping
    PROVE  Inv'
<1>0. PICK s : s = req[r].session
  OBVIOUS
<1> DEFINE x == [req[r] EXCEPT !.pc = "leaving"]
<1>1. req[r] \in RequestState /\ RequestKnown(r) /\ PoolSound(pool) /\ pool \in Pool
  BY DEF Inv, PoolSound
<1>2. /\ x \in RequestState /\ x.pc = "leaving" /\ x.session = s
      /\ x.bearer = req[r].bearer /\ x.existing = req[r].existing
      /\ x.candidate = req[r].candidate /\ x.fresh = req[r].fresh
  BY <1>0, <1>1 DEF RequestState, Stage
<1>3. req' = [req EXCEPT ![r] = x]
  BY DEF Moves
<1> HIDE DEF x
<1>4. /\ s \in McpSession /\ ~req[r].candidate /\ ~req[r].fresh
      /\ r \notin pool.pending /\ pool.entry[s].state \in Opened
  BY <1>0, <1>1 DEF RequestKnown, Opened
<1>5. /\ req' \in [Request -> RequestState] /\ req'[r] = x
      /\ \A q \in Request : q # r => req'[q] = req[q]
  BY <1>2, <1>3, RequestTyped DEF Inv
<1>6. /\ PoolSound(pool') /\ OnlyEntry(pool, pool', s)
      /\ pool'.pending = pool.pending
      /\ pool'.entry[s].state \in Opened
      /\ pool'.entry[s].state # "candidate"
      /\ pool'.entry[s].bearer = pool.entry[s].bearer
      /\ pool'.entry[s].active = pool.entry[s].active
  BY <1>0, <1>1, <1>4, DisposedSound DEF Opened
<1>7. LeasesCounted'
  <2>1. \A t \in McpSession : pool'.entry[t].active = pool.entry[t].active
    BY <1>6 DEF OnlyEntry
  <2>2. \A q \in Request, t \in McpSession : Holds(q, t)' <=> Holds(q, t)
    BY <1>0, <1>2, <1>5 DEF Holds
  <2> QED BY <2>1, <2>2, LeasesKept DEF Inv
<1>8. RequestKnown(r)'
  BY <1>2, <1>4, <1>5, <1>6 DEF RequestKnown, Opened
<1>9. pool'.entry[req'[r].session].bearer = req'[r].bearer
  BY <1>0, <1>2, <1>5, <1>6 DEF Inv, OwnBearer
<1>10. ~req'[r].candidate
  BY <1>2, <1>4, <1>5
<1>11. pool.entry[s].state # "candidate"
  BY <1>4 DEF Opened
<1> QED BY <1>4, <1>5, <1>6, <1>7, <1>8, <1>9, <1>10, <1>11, RequestStep

(* disposeCurrent, whatever the request holds. *)
LEMMA DisposeCurrentInv ==
    ASSUME Inv, NEW r \in Request, DisposeCurrent(r), UNCHANGED stopping
    PROVE  Inv'
<1>1. CASE req[r].candidate /\ AbandonFresh(r)
  BY <1>1, AbandonInv
<1>2. CASE req[r].existing /\ pool' = Disposed(pool, req[r].session) /\ Moves(r, "leaving")
  BY <1>2, DisposesInv
<1>3. CASE ~req[r].candidate /\ ~req[r].existing /\ Leaves(r)
  BY <1>3, LeavesInv
<1> QED BY <1>1, <1>2, <1>3 DEF DisposeCurrent

(* A request that was not there arrives: what it holds, and what its       *)
(* arrival does to the session it names.                                   *)
LEMMA ArrivalInv ==
    ASSUME Inv, NEW r \in Request, req[r].pc = "off",
           NEW s, NEW x \in RequestState,
           req' = [req EXCEPT ![r] = x], UNCHANGED stopping,
           PoolSound(pool'), OnlyEntry(pool, pool', s), pool'.pending = pool.pending,
           ~x.candidate, ~x.fresh, x.pc # "off",
           s \in McpSession =>
               /\ pool'.entry[s].state = "candidate" <=> pool.entry[s].state = "candidate"
               /\ pool.entry[s].state \in Opened => pool'.entry[s].state \in Opened
               /\ pool'.entry[s].bearer = pool.entry[s].bearer
               /\ ~x.existing => pool'.entry[s].active = pool.entry[s].active,
           x.existing =>
               /\ s \in McpSession /\ x.session = s
               /\ pool'.entry[s].state \in Opened
               /\ pool'.entry[s].bearer = x.bearer
               /\ pool'.entry[s].active = pool.entry[s].active + 1
    PROVE  Inv'
<1>1. RequestKnown(r)
  BY DEF Inv
<1>2. /\ req' \in [Request -> RequestState] /\ req'[r] = x
      /\ \A q \in Request : q # r => req'[q] = req[q]
  BY RequestTyped DEF Inv
<1>3. ~req[r].candidate /\ ~req[r].fresh /\ ~req[r].existing /\ r \notin pool.pending
  BY <1>1 DEF RequestKnown
<1>4. LeasesCounted'
  <2>1. CASE x.existing
    <3>1. ~Holds(r, s)
      BY <1>3 DEF Holds
    <3>2. Holds(r, s)'
      BY <1>2, <2>1 DEF Holds
    <3>3. \A q \in Request, t \in McpSession :
               (q # r \/ t # s) => (Holds(q, t)' <=> Holds(q, t))
      BY <1>2, <1>3, <2>1 DEF Holds
    <3>4. \A t \in McpSession : t # s => pool'.entry[t].active = pool.entry[t].active
      BY DEF OnlyEntry
    <3> QED BY <2>1, <3>1, <3>2, <3>3, <3>4, LeaseTaken DEF Inv
  <2>2. CASE ~x.existing
    <3>1. \A q \in Request, t \in McpSession : Holds(q, t)' <=> Holds(q, t)
      BY <1>2, <1>3, <2>2 DEF Holds
    <3>2. \A t \in McpSession : pool'.entry[t].active = pool.entry[t].active
      BY <2>2 DEF OnlyEntry
    <3> QED BY <3>1, <3>2, LeasesKept DEF Inv
  <2> QED BY <2>1, <2>2
<1>5. RequestKnown(r)'
  BY <1>2, <1>3 DEF RequestKnown, Opened
<1> QED BY <1>2, <1>3, <1>4, <1>5, RequestStep

(* Arrivals keep the invariant. *)
LEMMA ArriveInv ==
    ASSUME Inv, NEW r \in Request, Arrive(r)
    PROVE  Inv'
<1>0. PoolSound(pool) /\ pool \in Pool
  BY DEF Inv, PoolSound
<1>1. CASE ArriveFresh(r)
  <2>1. PICK b \in Bearer :
           req' = [req EXCEPT ![r] = [IdleRequest EXCEPT !.pc = "body", !.bearer = b]]
    BY <1>1 DEF ArriveFresh
  <2> DEFINE x == [IdleRequest EXCEPT !.pc = "body", !.bearer = b]
  <2>2. /\ x \in RequestState /\ ~x.candidate /\ ~x.fresh /\ ~x.existing /\ x.pc = "body"
    BY DEF IdleRequest, RequestState, Stage
  <2>3. req' = [req EXCEPT ![r] = x]
    BY <2>1
  <2> HIDE DEF x
  <2>4. req[r].pc = "off" /\ UNCHANGED pool /\ UNCHANGED stopping
    BY <1>1 DEF ArriveFresh
  <2>5. PICK s : s \notin McpSession
    BY AbsentIsNothing
  <2>6. OnlyEntry(pool, pool', s) /\ PoolSound(pool') /\ pool'.pending = pool.pending
    BY <1>0, <2>4 DEF OnlyEntry
  <2> QED BY <2>2, <2>3, <2>4, <2>5, <2>6, ArrivalInv
<1>2. ASSUME NEW id \in Id, NEW b \in Bearer, ArriveForSession(r, id, b)
      PROVE  Inv'
  <2>1. PICK s \in McpSession, d \in BOOLEAN :
          /\ Names(id, b, s)
          /\ pool' = Leased(pool, s)
          /\ req' = [req EXCEPT ![r] =
                        [IdleRequest EXCEPT !.pc = IF d THEN "handling" ELSE "body",
                                     !.bearer = b, !.session = s,
                                     !.existing = TRUE, !.deletes = d]]
    BY <1>2 DEF ArriveForSession
  <2> DEFINE x == [IdleRequest EXCEPT !.pc = IF d THEN "handling" ELSE "body",
                                     !.bearer = b, !.session = s,
                                     !.existing = TRUE, !.deletes = d]
  <2>2. /\ x \in RequestState /\ ~x.candidate /\ ~x.fresh /\ x.existing /\ x.pc # "off"
        /\ x.bearer = b /\ x.session = s
    BY DEF IdleRequest, RequestState, Stage
  <2>3. req' = [req EXCEPT ![r] = x]
    BY <2>1
  <2> HIDE DEF x
  <2>4. /\ pool.entry[s].state = "live" /\ pool.entry[s].bearer = b
        /\ pool' = Leased(pool, s)
    BY <2>1 DEF Names, Live
  <2>5. req[r].pc = "off" /\ UNCHANGED stopping /\ RequestKnown(r)
    BY <1>2 DEF ArriveForSession, Inv
  <2>6. ~Holds(r, s)
    BY <2>5 DEF RequestKnown, Holds
  <2>7. pool.entry[s].active + 1 <= Cardinality(Request)
    BY <2>6, RoomForLease DEF Inv
  <2>8. /\ PoolSound(pool') /\ OnlyEntry(pool, pool', s)
        /\ pool'.pending = pool.pending
        /\ pool'.entry[s].state = pool.entry[s].state
        /\ pool'.entry[s].bearer = pool.entry[s].bearer
        /\ pool'.entry[s].active = pool.entry[s].active + 1
    BY <1>0, <2>4, <2>7, LeasedSound
  <2> QED BY <2>2, <2>3, <2>4, <2>5, <2>8, ArrivalInv DEF Opened
<1>3. ASSUME NEW id \in Id, NEW b \in Bearer, ArriveRevoked(r, id, b)
      PROVE  Inv'
  <2>1. PICK s \in McpSession :
          /\ Names(id, b, s)
          /\ pool' = Disposed(pool, s)
          /\ req' = [req EXCEPT ![r] =
                        [IdleRequest EXCEPT !.pc = "leaving", !.bearer = b,
                                     !.session = s]]
    BY <1>3 DEF ArriveRevoked
  <2> DEFINE x == [IdleRequest EXCEPT !.pc = "leaving", !.bearer = b, !.session = s]
  <2>2. /\ x \in RequestState /\ ~x.candidate /\ ~x.fresh /\ ~x.existing /\ x.pc # "off"
    BY DEF IdleRequest, RequestState, Stage
  <2>3. req' = [req EXCEPT ![r] = x]
    BY <2>1
  <2> HIDE DEF x
  <2>4. pool.entry[s].state = "live" /\ pool' = Disposed(pool, s)
    BY <2>1 DEF Names, Live
  <2>5. req[r].pc = "off" /\ UNCHANGED stopping
    BY <1>3 DEF ArriveRevoked
  <2>6. /\ PoolSound(pool') /\ OnlyEntry(pool, pool', s)
        /\ pool'.pending = pool.pending
        /\ pool'.entry[s].state = "closing"
        /\ pool'.entry[s].bearer = pool.entry[s].bearer
        /\ pool'.entry[s].active = pool.entry[s].active
    BY <1>0, <2>4, DisposedSound
  <2> QED BY <2>2, <2>3, <2>4, <2>5, <2>6, ArrivalInv DEF Opened
<1> QED BY <1>1, <1>2, <1>3 DEF Arrive

(* Reserving a slot and making a resource keeps the invariant. *)
LEMMA BodyReadInv ==
    ASSUME Inv, NEW r \in Request, BodyRead(r)
    PROVE  Inv'
<1>1. /\ req[r] \in RequestState /\ RequestKnown(r) /\ PoolSound(pool) /\ pool \in Pool
      /\ req[r].pc = "body" /\ stopping' = stopping
  BY DEF Inv, PoolSound, BodyRead
<1>2. CASE req[r].existing /\ Moves(r, "handling") /\ UNCHANGED pool
  BY <1>1, <1>2, MovesInv
<1>3. ASSUME ~req[r].existing, CanReserve(pool), NEW s \in McpSession, Unreferenced(s),
             pool' = WithCandidate(pool, r, s, req[r].bearer),
             req' = [req EXCEPT ![r].pc = "connecting", ![r].session = s,
                                ![r].candidate = TRUE]
      PROVE  Inv'
  <2> DEFINE x == [req[r] EXCEPT !.pc = "connecting", !.session = s, !.candidate = TRUE]
  <2>1. ~req[r].candidate /\ ~req[r].fresh /\ r \notin pool.pending
    BY <1>1 DEF RequestKnown
  <2>2. /\ x \in RequestState /\ x.pc = "connecting" /\ x.session = s
        /\ ~x.existing /\ x.candidate /\ ~x.fresh
    BY <1>1, <1>3, <2>1 DEF RequestState, Stage
  <2>3. req' = [req EXCEPT ![r] = x]
    BY <1>3
  <2> HIDE DEF x
  <2>4. /\ req' \in [Request -> RequestState] /\ req'[r] = x
        /\ \A q \in Request : q # r => req'[q] = req[q]
    BY <2>2, <2>3, RequestTyped DEF Inv
  <2>5. pool.entry[s].state \in {"unused", "closed"} /\ \A q \in Request : req[q].session # s
    BY <1>3 DEF Unreferenced
  <2>6. req[r].bearer \in Bearer \union {Absent}
    BY <1>1 DEF RequestState
  <2>7. /\ PoolSound(pool') /\ OnlyEntry(pool, pool', s)
        /\ pool'.pending = pool.pending \union {r}
        /\ pool'.entry[s].state = "candidate"
        /\ pool'.entry[s].active = 0
    BY <1>1, <1>3, <2>1, <2>5, <2>6, ReservedSound
  <2>8. Holders(s) = {}
    BY <2>5 DEF Holders
  <2>9. LeasesCounted'
    <3>1. pool.entry[s].active = 0
      BY <2>8, NoLeaseNoCount DEF Inv
    <3>2. \A t \in McpSession : pool'.entry[t].active = pool.entry[t].active
      BY <2>7, <3>1 DEF OnlyEntry
    <3>3. \A q \in Request, t \in McpSession : Holds(q, t)' <=> Holds(q, t)
      BY <1>3, <2>1, <2>2, <2>4 DEF Holds
    <3> QED BY <3>2, <3>3, LeasesKept DEF Inv
  <2>10. RequestKnown(r)'
    BY <2>2, <2>4, <2>7 DEF RequestKnown
  <2>11. pool.entry[s].state # "candidate"
    BY <2>5
  <2> QED BY <1>1, <2>1, <2>2, <2>4, <2>5, <2>7, <2>9, <2>10, <2>11, RequestStep
<1> QED BY <1>2, <1>3 DEF BodyRead, WithCandidate

(* Committing a candidate, or being refused the commit, keeps the invariant. *)
LEMMA InitializedInv ==
    ASSUME Inv, NEW r \in Request, NEW id \in Id, Initialized(r, id)
    PROVE  Inv'
<1>0. PICK s : s = req[r].session
  OBVIOUS
<1>1. /\ req[r] \in RequestState /\ RequestKnown(r) /\ PoolSound(pool) /\ pool \in Pool
      /\ req[r].pc = "handling" /\ req[r].candidate /\ ~req[r].fresh
      /\ stopping' = stopping
  BY DEF Inv, PoolSound, Initialized
<1>2. /\ s \in McpSession /\ ~req[r].existing /\ pool.entry[s].state = "candidate"
  BY <1>0, <1>1 DEF RequestKnown
<1>3. ~Holds(r, s)
  BY <1>1, <1>2 DEF Holds
<1>4. CASE /\ CanCommit(pool, r, id)
           /\ pool' = SessionCommitted(pool, r, req[r].session, id)
           /\ req' = [req EXCEPT ![r].fresh = TRUE]
  <2> DEFINE x == [req[r] EXCEPT !.fresh = TRUE]
  <2>1. /\ x \in RequestState /\ x.pc = "handling" /\ x.session = s
        /\ ~x.existing /\ x.candidate /\ x.fresh
    BY <1>0, <1>1, <1>2 DEF RequestState, Stage
  <2>2. req' = [req EXCEPT ![r] = x]
    BY <1>4
  <2> HIDE DEF x
  <2>3. /\ req' \in [Request -> RequestState] /\ req'[r] = x
        /\ \A q \in Request : q # r => req'[q] = req[q]
    BY <2>1, <2>2, RequestTyped DEF Inv
  <2>4. pool.entry[s].active + 1 <= Cardinality(Request)
    BY <1>2, <1>3, RoomForLease DEF Inv
  <2>5. /\ PoolSound(pool') /\ OnlyEntry(pool, pool', s)
        /\ pool'.pending = pool.pending \ {r}
        /\ pool'.entry[s].state = "live"
        /\ pool'.entry[s].bearer = pool.entry[s].bearer
        /\ pool'.entry[s].active = pool.entry[s].active + 1
    BY <1>0, <1>1, <1>2, <1>4, <2>4, CommittedSound
  <2>6. LeasesCounted'
    <3>1. \A t \in McpSession : t # s => pool'.entry[t].active = pool.entry[t].active
      BY <2>5 DEF OnlyEntry
    <3>2. Holds(r, s)'
      BY <2>1, <2>3 DEF Holds
    <3>3. \A q \in Request, t \in McpSession :
               (q # r \/ t # s) => (Holds(q, t)' <=> Holds(q, t))
      BY <1>0, <2>1, <2>3 DEF Holds
    <3> QED BY <1>2, <1>3, <2>5, <3>1, <3>2, <3>3, LeaseTaken DEF Inv
  <2>7. RequestKnown(r)'
    BY <1>2, <2>1, <2>3, <2>5 DEF RequestKnown
  <2>8. ~req'[r].existing /\ req'[r].candidate /\ req'[r].session = s
    BY <1>2, <2>1, <2>3
  <2>9. pool.entry[s].state \notin Opened /\ pool'.entry[s].state # "candidate"
    BY <1>2, <2>5 DEF Opened
  <2> QED BY <1>0, <1>1, <1>2, <2>3, <2>5, <2>6, <2>7, <2>8, <2>9, RequestStep
<1>5. CASE /\ pool' = Unreserved(pool, r)
           /\ UNCHANGED req
  <2>1. /\ PoolSound(pool') /\ pool'.entry = pool.entry
        /\ pool'.pending = pool.pending \ {r}
    BY <1>1, <1>5, UnreservedSound, ZenonT(60)
  <2> QED BY <1>5, <1>1, <2>1, PoolStep DEF Inv
<1> QED BY <1>4, <1>5 DEF Initialized

(* A new session whose client got to know it stays, and its maker leaves. *)
LEMMA DeliveredInv ==
    ASSUME Inv, NEW r \in Request, req[r].candidate, req[r].fresh,
           pool' = Released(pool, req[r].session),
           req' = [req EXCEPT ![r] = IdleRequest], UNCHANGED stopping
    PROVE  Inv'
<1>0. PICK s : s = req[r].session
  OBVIOUS
<1>1. req[r] \in RequestState /\ RequestKnown(r) /\ PoolSound(pool) /\ pool \in Pool
  BY DEF Inv, PoolSound
<1>2. /\ s \in McpSession /\ ~req[r].existing /\ pool.entry[s].state \in Opened
      /\ r \notin pool.pending
  BY <1>0, <1>1 DEF RequestKnown, Opened
<1>3. /\ IdleRequest \in RequestState /\ IdleRequest.pc = "off"
      /\ ~IdleRequest.existing /\ ~IdleRequest.candidate /\ ~IdleRequest.fresh
  BY DEF IdleRequest, RequestState, Stage
<1>4. /\ req' \in [Request -> RequestState] /\ req'[r] = IdleRequest
      /\ \A q \in Request : q # r => req'[q] = req[q]
  BY <1>3, RequestTyped DEF Inv
<1>5. Holds(r, s)
  BY <1>0 DEF Holds
<1>6. pool.entry[s].active >= 1
  BY <1>2, <1>5, LeaseIsCounted DEF Inv
<1>7. /\ PoolSound(pool') /\ OnlyEntry(pool, pool', s)
      /\ pool'.pending = pool.pending
      /\ pool'.entry[s].state = pool.entry[s].state
      /\ pool'.entry[s].bearer = pool.entry[s].bearer
      /\ pool'.entry[s].active = pool.entry[s].active - 1
  BY <1>0, <1>1, <1>2, <1>6, ReleasedSound
<1>8. LeasesCounted'
  <2>1. \A t \in McpSession : t # s => pool'.entry[t].active = pool.entry[t].active
    BY <1>7 DEF OnlyEntry
  <2>2. ~Holds(r, s)'
    BY <1>3, <1>4 DEF Holds
  <2>3. \A q \in Request, t \in McpSession :
             (q # r \/ t # s) => (Holds(q, t)' <=> Holds(q, t))
    BY <1>0, <1>3, <1>4 DEF Holds
  <2> QED BY <1>2, <1>5, <1>7, <2>1, <2>2, <2>3, LeaseGiven DEF Inv
<1>9. RequestKnown(r)'
  BY <1>2, <1>3, <1>4, <1>7 DEF RequestKnown
<1>10. pool.entry[s].state # "candidate"
  BY <1>2 DEF Opened
<1> QED BY <1>0, <1>2, <1>3, <1>4, <1>7, <1>8, <1>9, <1>10, RequestStep

(* What a request does next keeps the invariant. *)
LEMMA ProceedInv ==
    ASSUME Inv, NEW r \in Request, Proceed(r)
    PROVE  Inv'
<1>0. RequestKnown(r)
  BY DEF Inv
<1>1. CASE BodyRead(r)
  BY <1>1, BodyReadInv
<1>2. CASE Refused(r)
  BY <1>0, <1>2, LeavesInv DEF Refused, RequestKnown
<1>3. CASE Connected(r)
  BY <1>3, MovesInv DEF Connected
<1>4. ASSUME NEW id \in Id, Initialized(r, id) PROVE Inv'
  BY <1>4, InitializedInv
<1>5. CASE Handled(r)
  BY <1>5, MovesInv DEF Handled
<1>6. CASE Declined(r)
  BY <1>6, AbandonInv, LeavesInv DEF Declined
<1>7. CASE Interrupted(r)
  BY <1>7, DisposeCurrentInv DEF Interrupted
<1>8. CASE Answered(r)
  <2>1. CASE /\ req[r].candidate /\ req[r].fresh
             /\ pool' = Released(pool, req[r].session)
             /\ req' = [req EXCEPT ![r] = IdleRequest]
    BY <1>8, <2>1, DeliveredInv DEF Answered
  <2>2. CASE req[r].candidate /\ AbandonFresh(r)
    BY <1>8, <2>2, AbandonInv DEF Answered
  <2>3. CASE req[r].existing /\ ~req[r].deletes /\ Leaves(r)
    BY <1>0, <1>8, <2>3, LeavesInv DEF Answered, RequestKnown
  <2>4. CASE req[r].existing /\ req[r].deletes /\ DisposeCurrent(r)
    BY <1>8, <2>4, DisposeCurrentInv DEF Answered
  <2> QED BY <1>8, <2>1, <2>2, <2>3, <2>4 DEF Answered
<1>9. CASE Left(r)
  BY <1>0, <1>9, LeavesInv DEF Left, RequestKnown
<1> QED BY <1>1, <1>2, <1>3, <1>4, <1>5, <1>6, <1>7, <1>8, <1>9 DEF Proceed

-----------------------------------------------------------------------------
(* Invariance.                                                             *)

(* An empty pool and idle requests satisfy the invariant. *)
LEMMA InitInv == ListenerInit => Inv
<1> SUFFICES ASSUME ListenerInit PROVE Inv
  OBVIOUS
<1>1. /\ Blank \in Entry /\ Blank.state = "unused" /\ Blank.active = 0
      /\ Blank.timer = FALSE
  <2>1. 0 \in 0 .. Cardinality(Request)
    BY RequestsAreFinite, FS_CardinalityType
  <2> QED BY <2>1 DEF Blank, Entry
<1>2. /\ IdleRequest \in RequestState /\ IdleRequest.pc = "off"
      /\ ~IdleRequest.existing /\ ~IdleRequest.candidate /\ ~IdleRequest.fresh
  BY DEF IdleRequest, RequestState, Stage
<1>3. /\ pool.entry = [s \in McpSession |-> Blank] /\ pool.pending = {}
      /\ pool.occupied = 0 /\ pool.stopped = FALSE
      /\ req = [r \in Request |-> IdleRequest] /\ stopping = FALSE
  BY DEF ListenerInit
<1>4. pool \in Pool
  <2>1. 0 \in 0 .. MaxSessions
    BY SlotsArePositive
  <2> QED BY <1>1, <2>1 DEF Pool, ListenerInit
<1>5. Live(pool) = {}
  BY <1>1, <1>3 DEF Live
<1>6. PoolSound(pool)
  BY <1>1, <1>3, <1>4, <1>5, FS_EmptySet DEF PoolSound
<1>7. LeasesCounted
  <2>1. \A s \in McpSession : Holders(s) = {}
    BY <1>2, <1>3 DEF Holders
  <2> QED BY <1>1, <1>3, <2>1, FS_EmptySet DEF LeasesCounted
<1>8. \A r \in Request : RequestKnown(r)
  BY <1>2, <1>3 DEF RequestKnown
<1>9. Makers /\ OwnBearer
  BY <1>2, <1>3 DEF Makers, OwnBearer
<1>10. NothingStranded
  BY <1>1, <1>3 DEF NothingStranded
<1> QED BY <1>2, <1>3, <1>6, <1>7, <1>8, <1>9, <1>10 DEF Inv

(* Every step preserves the invariant. *)
LEMMA NextInv == Inv /\ [ListenerNext]_listenerVars => Inv'
<1> SUFFICES ASSUME Inv, [ListenerNext]_listenerVars PROVE Inv'
  OBVIOUS
<1>0. PoolSound(pool) /\ pool \in Pool
  BY DEF Inv, PoolSound
<1>1. ASSUME NEW r \in Request, Arrive(r) PROVE Inv'
  BY <1>1, ArriveInv
<1>2. ASSUME NEW r \in Request, Proceed(r) PROVE Inv'
  BY <1>2, ProceedInv
<1>3. ASSUME NEW s \in McpSession, IdleFires(s) PROVE Inv'
  <2>1. pool' = Disposed(pool, s) /\ req' = req /\ stopping' = stopping
    BY <1>3 DEF IdleFires
  <2>2. /\ PoolSound(pool') /\ OnlyEntry(pool, pool', s)
        /\ pool'.pending = pool.pending
        /\ pool'.entry[s].state =
               IF pool.entry[s].state = "live" THEN "closing" ELSE pool.entry[s].state
        /\ pool'.entry[s].bearer = pool.entry[s].bearer
        /\ pool'.entry[s].active = pool.entry[s].active
    BY <1>0, <2>1, DisposedSound
  <2>3. \A t \in McpSession :
               /\ pool'.entry[t].active = pool.entry[t].active
               /\ pool'.entry[t].bearer = pool.entry[t].bearer
               /\ pool'.entry[t].state = "candidate" <=> pool.entry[t].state = "candidate"
               /\ pool.entry[t].state \in Opened => pool'.entry[t].state \in Opened
    BY <2>2 DEF OnlyEntry, Opened
  <2>4. stopping' \in BOOLEAN
    BY <2>1 DEF Inv
  <2> QED BY <2>1, <2>2, <2>3, <2>4, PoolStep
<1>4. ASSUME NEW s \in McpSession, CloseSettles(s) PROVE Inv'
  <2>1. /\ pool' = WithState(pool, s, "closed") /\ req' = req /\ stopping' = stopping
        /\ pool.entry[s].state = "closing"
    BY <1>4 DEF CloseSettles, CloseSettled, WithState
  <2>2. /\ PoolSound(pool') /\ OnlyEntry(pool, pool', s)
        /\ pool'.pending = pool.pending
        /\ pool'.entry[s].state = "closed"
        /\ pool'.entry[s].bearer = pool.entry[s].bearer
        /\ pool'.entry[s].active = pool.entry[s].active
    BY <1>0, <2>1, OutsideSound
  <2>3. \A t \in McpSession :
               /\ pool'.entry[t].active = pool.entry[t].active
               /\ pool'.entry[t].bearer = pool.entry[t].bearer
               /\ pool'.entry[t].state = "candidate" <=> pool.entry[t].state = "candidate"
               /\ pool.entry[t].state \in Opened => pool'.entry[t].state \in Opened
    BY <2>1, <2>2 DEF OnlyEntry, Opened
  <2>4. stopping' \in BOOLEAN
    BY <2>1 DEF Inv
  <2> QED BY <2>1, <2>2, <2>3, <2>4, PoolStep
<1>5. CASE Close
  <2>1. pool' = PoolClosed(pool) /\ req' = req /\ stopping' \in BOOLEAN
    BY <1>5 DEF Close
  <2>2. /\ PoolSound(pool') /\ pool'.pending = {}
        /\ \A t \in McpSession :
              /\ pool'.entry[t].state =
                     IF pool.entry[t].state = "live" THEN "closing" ELSE pool.entry[t].state
              /\ pool'.entry[t].bearer = pool.entry[t].bearer
              /\ pool'.entry[t].active = pool.entry[t].active
    BY <1>0, <2>1, PoolClosedSound
  <2>3. \A t \in McpSession :
               /\ pool'.entry[t].active = pool.entry[t].active
               /\ pool'.entry[t].bearer = pool.entry[t].bearer
               /\ pool'.entry[t].state = "candidate" <=> pool.entry[t].state = "candidate"
               /\ pool.entry[t].state \in Opened => pool'.entry[t].state \in Opened
    BY <2>2 DEF Opened
  <2> QED BY <2>1, <2>2, <2>3, PoolStep
<1>6. CASE UNCHANGED listenerVars
  <2>1. pool' = pool /\ req' = req /\ stopping' = stopping
    BY <1>6 DEF listenerVars
  <2> QED BY <1>0, <2>1, PoolStep DEF Inv
<1> QED BY <1>1, <1>2, <1>3, <1>4, <1>5, <1>6 DEF ListenerNext

(* The invariant says what the pool promises. *)
LEMMA InvPoolExact == Inv => PoolExact
<1> SUFFICES ASSUME Inv PROVE PoolExact
  OBVIOUS
<1>1. ListenerTypeOK
  BY DEF Inv, PoolSound, ListenerTypeOK
<1>2. OccupancyExact /\ StaysClosed
  BY DEF Inv, PoolSound, OccupancyExact, StaysClosed
<1>3. IdleExact
  <2> SUFFICES ASSUME NEW s \in McpSession
               PROVE  pool.entry[s].timer <=> s \in Live(pool) /\ Holders(s) = {}
    BY DEF IdleExact
  <2>1. pool.entry[s].timer <=> (pool.entry[s].state = "live" /\ pool.entry[s].active = 0)
    BY DEF Inv, PoolSound
  <2>2. pool.entry[s].active = 0 <=> Holders(s) = {}
    BY NoLeaseNoCount DEF Inv
  <2> QED BY <2>1, <2>2 DEF Live
<1>4. OwnSession
  BY DEF Inv, OwnBearer, PoolSound, OwnSession
<1> QED BY <1>1, <1>2, <1>3, <1>4 DEF Inv, PoolExact

(* The inductive invariant holds in every state of the listener. *)
THEOREM InvAlways == ListenerSpec => []Inv
<1>1. ListenerInit => Inv
  BY InitInv
<1>2. Inv /\ [ListenerNext]_listenerVars => Inv'
  BY NextInv
<1> QED BY <1>1, <1>2, PTL DEF ListenerSpec

(* For any number of requests, sessions, identifiers, bearers and slots,   *)
(* and however arrivals, interruptions, idle timers and the closing of the *)
(* listener interleave: no slot of the pool (createMcpSessionLifecycle) is *)
(* lost or given back twice, every lease is counted, a timer runs exactly  *)
(* for the sessions nobody uses, nothing gets into a stopped pool, and a   *)
(* request is served only by a session its own bearer opened.              *)
THEOREM PoolExactAlways == ListenerSpec => []PoolExact
<1>1. Inv => PoolExact
  BY InvPoolExact
<1> QED BY <1>1, InvAlways, PTL

=============================================================================
