------------------------- MODULE WorldServiceProofs -------------------------
(***************************************************************************)
(* Proofs about WorldRuntime and WorldCheckpoint: the stores of a world    *)
(* agree, its history is only added to, a recovered world is the one that  *)
(* was captured, and the world keeps its promise to the agents, for any    *)
(* agents, requests, decisions and retained record limit.                  *)
(***************************************************************************)
EXTENDS WorldCheckpoint, FiniteSetTheorems, WellFoundedInduction, TLAPS

\* There is room for the act in progress, and in an open world for one record more.
Fits ==
  /\ InAll <= Limit
  /\ \A p \in Principals : Lane(p) <= Limit
  /\ Open => InAll < Limit

Uniform == closed \in {AllOpen, AllClosed}

Joined ==
  /\ JoinExact
  /\ \A s \in DOMAIN cells : requests[cells[s].request].sequence = s

\* The journal and the controller lane know different actions of the session, and
\* what is terminal came before what is not.
Numbered(session) ==
  /\ \A s \in DOMAIN cells \cup controller : s < session.nextSequence
  /\ controller \subseteq session.pending

Ordered ==
  /\ DOMAIN cells \cap controller = {}
  /\ \A s \in Terminal, t \in Authorized : s < t

\* Every accepted action waits in the session for its next tick.
Waiting(session) ==
  \A s \in Authorized : s \in session.pending /\ cells[s].tick = session.tick

\* What an operation may put the session back to.
Restorable(session) ==
  /\ session \in Session
  /\ Numbered(session)
  /\ session.tick = mechanics.tick
  /\ ~session.failed
  /\ Open => Waiting(session)

ActHeld ==
  /\ Acting \/ Reading => Restorable(op.pre)
  /\ Acting => requests[op.request] = None /\ Owner[op.decision] = op.principal

\* A step has reserved everything that is authorized; once it has the results nothing
\* is authorized any more, and what it publishes comes after all published before.
StepHeld ==
  /\ Stepping("provider") =>
       /\ op.queued = Authorized
       /\ ~mechanics.failed /\ mechanics.tick < MaxTick
       /\ Waiting(mechanics)
       /\ op.live => Open
  /\ Stepping("publishing") =>
       /\ Authorized = {} /\ ~mechanics.failed
       /\ op.queued \subseteq Terminal /\ op.todo \subseteq op.queued
       /\ \A s \in Terminal \ op.queued, t \in op.queued : s < t
       /\ Open => \A p \in Principals :
            InOrder(results[p]) /\ Range(results[p]) = Of(p, Terminal \ op.queued)
  /\ Stepping("projecting") =>
       /\ Authorized = {}
       /\ Restorable(op.post)

Inv ==
  /\ TypeOK
  /\ Fits
  /\ Uniform
  /\ Joined
  /\ Numbered(mechanics)
  /\ Ordered
  /\ ReservationHeld
  /\ ActHeld
  /\ StepHeld
  /\ AcceptedIsPending
  /\ ResultsExact

------------------------------------------------------------------------------
\* Numbers in order, of which every set has one sequence at least.

Enumerates(e, seqs) ==
  e \in [1 .. Cardinality(seqs) -> seqs] /\ InOrder(e) /\ Range(e) = seqs

\* A set of natural numbers that is not empty has a smallest element.
LEMMA SmallestExists ==
  ASSUME NEW T, T \subseteq Nat, T # {}
  PROVE  \E x \in T : \A y \in T : x <= y
<1> DEFINE R == {p \in Nat \X Nat : p[1] < p[2]}
<1>1. IsWellFoundedOn(R, Nat)
  BY NatLessThanWellFounded DEF OpToRel
<1>2. \E x \in T : \A y \in T : ~ (<<y, x>> \in R)
  <2> HIDE DEF R
  <2> QED BY <1>1, WFMin
<1>3. \A x, y \in Nat : y < x => <<y, x>> \in R
  OBVIOUS
<1>4. \A x, y \in Nat : y < x \/ x <= y
  OBVIOUS
<1> HIDE DEF R
<1> QED BY <1>2, <1>3, <1>4

\* One more number at the end of an enumeration.
LEMMA EnumerateNext ==
  ASSUME NEW n \in Nat, NEW seqs, seqs \subseteq 1 .. n + 1, n + 1 \in seqs,
         IsFiniteSet(seqs \ {n + 1}),
         NEW e, Enumerates(e, seqs \ {n + 1})
  PROVE  \E f : Enumerates(f, seqs)
<1> DEFINE rest == seqs \ {n + 1}
           k == Cardinality(rest)
           f == [i \in 1 .. k + 1 |-> IF i = k + 1 THEN n + 1 ELSE e[i]]
<1>1. /\ k \in Nat /\ Cardinality(seqs) = k + 1
  <2>1. rest \cup {n + 1} = seqs /\ n + 1 \notin rest /\ IsFiniteSet(rest)
    OBVIOUS
  <2> HIDE DEF rest
  <2> QED BY <2>1, FS_AddElement, FS_CardinalityType
<1>2. /\ e \in [1 .. k -> rest]
      /\ \A i, j \in 1 .. k : i < j => e[i] < e[j]
      /\ {e[i] : i \in 1 .. k} = rest
  BY DEF Enumerates, InOrder, Range
<1>3. \A x \in rest : x \in Nat /\ x < n + 1 /\ x \in seqs
  OBVIOUS
<1> HIDE DEF k, rest
<1>4. f \in [1 .. Cardinality(seqs) -> seqs]
  BY <1>1, <1>2, <1>3
<1>5. InOrder(f)
  <2> SUFFICES ASSUME NEW i \in 1 .. k + 1, NEW j \in 1 .. k + 1, i < j
               PROVE  f[i] < f[j]
    BY DEF InOrder
  <2>1. i \in 1 .. k /\ f[i] = e[i] /\ e[i] \in rest
    BY <1>1, <1>2
  <2>2. CASE j = k + 1
    BY <2>1, <2>2, <1>3
  <2>3. CASE j # k + 1
    <3>1. j \in 1 .. k
      BY <1>1, <2>3
    <3> QED BY <2>1, <2>3, <3>1, <1>2
  <2> QED BY <2>2, <2>3
<1>6. Range(f) = seqs
  <2>1. \A i \in 1 .. k : f[i] = e[i]
    BY <1>1
  <2>2. f[k + 1] = n + 1 /\ k + 1 \in 1 .. k + 1 /\ DOMAIN f = 1 .. k + 1
    BY <1>1
  <2>3. seqs = rest \cup {n + 1}
    BY DEF rest
  <2>4. \A x \in rest : \E i \in 1 .. k : x = e[i]
    BY <1>2
  <2>5. \A i \in 1 .. k + 1 : i \in 1 .. k \/ i = k + 1
    BY <1>1
  <2>6. \A i \in 1 .. k : i \in 1 .. k + 1
    BY <1>1
  <2>7. \A i \in 1 .. k : e[i] \in rest
    BY <1>2
  <2> HIDE DEF f
  <2> QED BY <2>1, <2>2, <2>3, <2>4, <2>5, <2>6, <2>7 DEF Range
<1> HIDE DEF f
<1> QED BY <1>4, <1>5, <1>6 DEF Enumerates

\* Every finite set of numbers can be written down in order.
LEMMA EnumerationExists ==
  \A n \in Nat : \A seqs \in SUBSET (1 .. n) : IsFiniteSet(seqs) /\ \E e : Enumerates(e, seqs)
<1> DEFINE P(n) == \A seqs \in SUBSET (1 .. n) :
                      IsFiniteSet(seqs) /\ \E e : Enumerates(e, seqs)
           T == {n \in Nat : ~P(n)}
<1>1. P(0)
  <2> SUFFICES ASSUME NEW seqs \in SUBSET (1 .. 0)
               PROVE  IsFiniteSet(seqs) /\ Enumerates(<< >>, seqs)
    OBVIOUS
  <2>1. seqs = {}
    OBVIOUS
  <2>2. IsFiniteSet(seqs) /\ Cardinality(seqs) = 0
    BY <2>1, FS_EmptySet
  <2>3. << >> \in [1 .. 0 -> {}] /\ DOMAIN << >> = {}
    OBVIOUS
  <2> QED BY <2>1, <2>2, <2>3 DEF Enumerates, InOrder, Range
<1>2. ASSUME NEW n \in Nat, P(n) PROVE P(n + 1)
  <2> SUFFICES ASSUME NEW seqs \in SUBSET (1 .. n + 1)
               PROVE  IsFiniteSet(seqs) /\ \E e : Enumerates(e, seqs)
    OBVIOUS
  <2>1. seqs \ {n + 1} \in SUBSET (1 .. n)
    OBVIOUS
  <2>2. IsFiniteSet(seqs \ {n + 1}) /\ \E e : Enumerates(e, seqs \ {n + 1})
    BY <1>2, <2>1
  <2>3. CASE n + 1 \notin seqs
    <3>1. seqs \ {n + 1} = seqs
      BY <2>3
    <3> QED BY <2>2, <3>1
  <2>4. CASE n + 1 \in seqs
    <3>1. (seqs \ {n + 1}) \cup {n + 1} = seqs
      BY <2>4
    <3>2. IsFiniteSet(seqs)
      BY <2>2, <3>1, FS_AddElement
    <3> QED BY <2>2, <2>4, <3>2, EnumerateNext
  <2> QED BY <2>3, <2>4
<1>3. SUFFICES ASSUME T # {} PROVE FALSE
  OBVIOUS
<1> HIDE DEF P
<1>4. PICK n \in T : \A m \in T : n <= m
  BY <1>3, SmallestExists
<1>5. n # 0
  BY <1>1
<1>6. n - 1 \in Nat /\ n - 1 \notin T
  BY <1>4, <1>5
<1>7. P((n - 1) + 1)
  BY <1>2, <1>6
<1> QED BY <1>7

\* What is published for a set of actions is these actions in order.
LEMMA AscendingIs ==
  ASSUME NEW seqs, seqs \subseteq Sequences
  PROVE  /\ Ascending(seqs) \in Seq(seqs)
         /\ InOrder(Ascending(seqs))
         /\ Range(Ascending(seqs)) = seqs
<1>1. IsFiniteSet(seqs) /\ \E e : Enumerates(e, seqs)
  BY EnumerationExists, BoundAssumption DEF Sequences
<1>2. Enumerates(Ascending(seqs), seqs)
  BY <1>1 DEF Enumerates, Ascending
<1>3. Cardinality(seqs) \in Nat
  BY <1>1, FS_CardinalityType
<1> QED BY <1>2, <1>3 DEF Enumerates

\* Two sequences of numbers, one all before the other, make one.
LEMMA Concatenated ==
  ASSUME NEW front \in Seq(Sequences), NEW back \in Seq(Sequences)
  PROVE  /\ front \o back \in Seq(Sequences)
         /\ Range(front \o back) = Range(front) \cup Range(back)
         /\ IsPrefix(front, front \o back)
         /\ /\ InOrder(front) /\ InOrder(back)
            /\ \A s \in Range(front), t \in Range(back) : s < t
            => InOrder(front \o back)
<1>1. /\ Len(front) \in Nat /\ Len(back) \in Nat
      /\ DOMAIN front = 1 .. Len(front) /\ DOMAIN back = 1 .. Len(back)
      /\ DOMAIN (front \o back) = 1 .. Len(front) + Len(back)
      /\ Len(front \o back) = Len(front) + Len(back)
  OBVIOUS
<1>2. /\ \A i \in 1 .. Len(front) : (front \o back)[i] = front[i]
      /\ \A i \in 1 .. Len(back) : (front \o back)[Len(front) + i] = back[i]
  OBVIOUS
<1>3. front \o back \in Seq(Sequences)
  OBVIOUS
<1>4. \A i \in 1 .. Len(front) + Len(back) :
        i \in 1 .. Len(front) \/ \E j \in 1 .. Len(back) : i = Len(front) + j
  <2> SUFFICES ASSUME NEW i \in 1 .. Len(front) + Len(back), i \notin 1 .. Len(front)
               PROVE  \E j \in 1 .. Len(back) : i = Len(front) + j
    OBVIOUS
  <2>1. i - Len(front) \in 1 .. Len(back) /\ i = Len(front) + (i - Len(front))
    BY <1>1
  <2> QED BY <2>1
<1>5. IsPrefix(front, front \o back)
  <2>1. SubSeq(front, 1, Len(front)) = front
    OBVIOUS
  <2>2. SubSeq(front \o back, 1, Len(front)) = front
    OBVIOUS
  <2> QED BY <1>1, <2>1, <2>2 DEF IsPrefix
<1> DEFINE all == front \o back
<1>6. /\ DOMAIN all = 1 .. Len(front) + Len(back)
      /\ \A i \in 1 .. Len(front) : all[i] = front[i]
      /\ \A i \in 1 .. Len(back) : all[Len(front) + i] = back[i]
      /\ all = front \o back
  BY <1>1, <1>2
<1> HIDE DEF all
<1>7. \A i \in 1 .. Len(front) : i \in 1 .. Len(front) + Len(back)
  BY <1>1
<1>8. \A i \in 1 .. Len(back) : Len(front) + i \in 1 .. Len(front) + Len(back)
  BY <1>1
<1>9. Range(all) = Range(front) \cup Range(back)
  <2>1. ASSUME NEW x \in Range(all) PROVE x \in Range(front) \cup Range(back)
    <3>1. PICK i \in 1 .. Len(front) + Len(back) : x = all[i]
      BY <1>6 DEF Range
    <3>2. CASE i \in 1 .. Len(front)
      BY <1>1, <1>6, <3>1, <3>2 DEF Range
    <3>3. CASE i \notin 1 .. Len(front)
      <4>1. PICK j \in 1 .. Len(back) : i = Len(front) + j
        BY <1>4, <3>3
      <4> QED BY <1>1, <1>6, <3>1, <4>1 DEF Range
    <3> QED BY <3>2, <3>3
  <2>2. \A x \in Range(front) : x \in Range(all)
    BY <1>1, <1>6, <1>7 DEF Range
  <2>3. \A x \in Range(back) : x \in Range(all)
    BY <1>1, <1>6, <1>8, ZenonT(60) DEF Range
  <2> QED BY <2>1, <2>2, <2>3
<1>10. ASSUME InOrder(front), InOrder(back),
              \A s \in Range(front), t \in Range(back) : s < t
       PROVE  InOrder(all)
  <2> SUFFICES ASSUME NEW i \in 1 .. Len(front) + Len(back),
                      NEW j \in 1 .. Len(front) + Len(back), i < j
               PROVE  all[i] < all[j]
    BY <1>6 DEF InOrder
  <2>1. CASE i \in 1 .. Len(front) /\ j \in 1 .. Len(front)
    BY <1>1, <1>6, <1>10, <2>1 DEF InOrder
  <2>2. CASE i \in 1 .. Len(front) /\ j \notin 1 .. Len(front)
    <3>1. PICK k \in 1 .. Len(back) : j = Len(front) + k
      BY <1>4, <2>2
    <3> QED BY <1>1, <1>6, <1>10, <2>2, <3>1 DEF Range
  <2>3. CASE i \notin 1 .. Len(front)
    <3>1. PICK k \in 1 .. Len(back) : i = Len(front) + k
      BY <1>4, <2>3
    <3>2. j \notin 1 .. Len(front)
      BY <1>1, <2>3
    <3>3. PICK l \in 1 .. Len(back) : j = Len(front) + l
      BY <1>4, <3>2
    <3>4. k < l
      BY <1>1, <3>1, <3>3
    <3> QED BY <1>1, <1>6, <1>10, <3>1, <3>3, <3>4, ZenonT(60) DEF InOrder
  <2> QED BY <2>1, <2>2, <2>3
<1> QED BY <1>3, <1>5, <1>6, <1>9, <1>10

------------------------------------------------------------------------------
\* What holds the runtime.

\* The operation in progress is of one kind.
LEMMA OpIs ==
  ASSUME TypeOK
  PROVE  /\ Acting => op \in ActOperation
         /\ Reading => op \in ReadOperation
         /\ \A phase : Stepping(phase) => op \in StepOperation
         /\ Acting => op.principal \in Principals /\ op.request \in Requests
                      /\ op.decision \in Decisions /\ op.pre \in Session
         /\ Reading => op.pre \in Session
         /\ \A phase : Stepping(phase) =>
              op.queued \in SUBSET Sequences /\ op.todo \in SUBSET Sequences
              /\ op.live \in BOOLEAN /\ op.post \in Session \cup {None}
  BY DEF TypeOK, ActOperation, ReadOperation, StepOperation, Acting, Reading, Stepping

\* An operation of one kind is not one of another.
LEMMA NewAct ==
  ASSUME op' \in ActOperation
  PROVE  Acting' /\ ~Reading' /\ ~Idle' /\ \A phase : ~Stepping(phase)'
<1>1. op' # None
  BY NoneAssumption
<1>2. op'.kind = "act"
  BY DEF ActOperation
<1> QED BY <1>1, <1>2 DEF Acting, Reading, Stepping, Idle

\* A read that has begun.
LEMMA NewRead ==
  ASSUME op' \in ReadOperation
  PROVE  ~Acting' /\ Reading' /\ ~Idle' /\ \A phase : ~Stepping(phase)'
<1>1. op' # None
  BY NoneAssumption
<1>2. op'.kind = "read"
  BY DEF ReadOperation
<1> QED BY <1>1, <1>2 DEF Acting, Reading, Stepping, Idle

\* A step of the clock that has begun or gone on to its next phase.
LEMMA NewStep ==
  ASSUME op' \in StepOperation
  PROVE  ~Acting' /\ ~Reading' /\ ~Idle' /\ \A phase : Stepping(phase)' <=> op'.phase = phase
<1>1. op' # None
  BY NoneAssumption
<1>2. op'.kind = "step"
  BY DEF StepOperation
<1> QED BY <1>1, <1>2 DEF Acting, Reading, Stepping, Idle

\* Nothing is held by an operation that has returned.
LEMMA Ended ==
  ASSUME op' = None
  PROVE  /\ Idle' /\ ~Acting' /\ ~Reading' /\ \A phase : ~Stepping(phase)'
         /\ ActHeld' /\ StepHeld'
<1>1. Idle' /\ ~Acting' /\ ~Reading' /\ \A phase : ~Stepping(phase)'
  BY DEF Acting, Reading, Stepping, Idle
<1> QED BY <1>1 DEF ActHeld, StepHeld

\* Of two kinds at once it never is.
LEMMA OneKind ==
  /\ Acting => ~Reading /\ ~Idle /\ \A phase : ~Stepping(phase)
  /\ Reading => ~Idle /\ \A phase : ~Stepping(phase)
  /\ \A phase : Stepping(phase) => ~Idle
  BY DEF Acting, Reading, Stepping, Idle

------------------------------------------------------------------------------
\* Audits.

Total(p) == lanes[p].queued + lanes[p].denied

\* An audit is one more in its lane and one more in all.
LEMMA AuditIs ==
  ASSUME TypeOK, NEW p \in Principals, NEW result \in {"queued", "denied"},
         Audit(p, result), Total(p) < Limit, audited < Limit
  PROVE  /\ lanes' \in [Principals -> Counts]
         /\ audited' = audited + 1 /\ audited' \in 0 .. Limit
         /\ \A q \in Principals : Total(q)' = Total(q) + IF q = p THEN 1 ELSE 0
         /\ \A q \in Principals :
              lanes'[q].queued = lanes[q].queued + IF q = p /\ result = "queued" THEN 1 ELSE 0
<1>1. lanes \in [Principals -> Counts] /\ audited \in 0 .. Limit /\ Limit \in Nat
  BY LimitAssumption DEF TypeOK
<1>2. \A q \in Principals : lanes[q].queued \in 0 .. Limit /\ lanes[q].denied \in 0 .. Limit
  BY <1>1 DEF Counts
<1>3. lanes' = [lanes EXCEPT ![p][result] = lanes[p][result] + 1] /\ audited' = audited + 1
  BY DEF Audit
<1>4. CASE result = "queued"
  <2>1. lanes[p].queued + 1 \in 0 .. Limit
    BY <1>1, <1>2 DEF Total
  <2>2. [lanes[p] EXCEPT !.queued = lanes[p].queued + 1] \in Counts
    BY <1>1, <2>1 DEF Counts
  <2>3. lanes' = [lanes EXCEPT ![p] = [lanes[p] EXCEPT !.queued = lanes[p].queued + 1]]
    BY <1>3, <1>4
  <2>4. lanes' \in [Principals -> Counts]
    BY <1>1, <2>2, <2>3
  <2>5. \A q \in Principals : lanes'[q].queued = lanes[q].queued + (IF q = p THEN 1 ELSE 0)
                              /\ lanes'[q].denied = lanes[q].denied
    BY <1>1, <1>2, <2>3 DEF Counts
  <2> QED BY <1>1, <1>2, <1>3, <1>4, <2>4, <2>5 DEF Total
<1>5. CASE result = "denied"
  <2>1. lanes[p].denied + 1 \in 0 .. Limit
    BY <1>1, <1>2 DEF Total
  <2>2. [lanes[p] EXCEPT !.denied = lanes[p].denied + 1] \in Counts
    BY <1>1, <2>1 DEF Counts
  <2>3. lanes' = [lanes EXCEPT ![p] = [lanes[p] EXCEPT !.denied = lanes[p].denied + 1]]
    BY <1>3, <1>5
  <2>4. lanes' \in [Principals -> Counts]
    BY <1>1, <2>2, <2>3
  <2>5. \A q \in Principals : lanes'[q].denied = lanes[q].denied + (IF q = p THEN 1 ELSE 0)
                              /\ lanes'[q].queued = lanes[q].queued
    BY <1>1, <1>2, <2>3 DEF Counts
  <2> QED BY <1>1, <1>2, <1>3, <1>5, <2>4, <2>5 DEF Total
<1> QED BY <1>4, <1>5

\* How full the lanes are.
LEMMA LaneIs ==
  ASSUME TypeOK
  PROVE  /\ \A p \in Principals : Total(p) \in Nat
         /\ audited \in Nat /\ Limit \in Nat
         /\ \A p \in Principals :
              Lane(p) = Total(p) + IF Acting /\ op.principal = p THEN 1 ELSE 0
         /\ InAll = audited + IF Acting THEN 1 ELSE 0
<1>1. /\ Limit \in Nat /\ audited \in Nat
      /\ \A p \in Principals : lanes[p].queued \in Nat /\ lanes[p].denied \in Nat
  BY LimitAssumption DEF TypeOK, Counts
<1> QED BY <1>1 DEF Lane, InAll, Active, Total

------------------------------------------------------------------------------
\* What a step that leaves the records alone leaves true of them.

\* The stores that agents read stay as they are, and so does the tick.
Kept ==
  /\ UNCHANGED <<requests, cells, controller, results>>
  /\ \A p \in Principals : lanes'[p].queued = lanes[p].queued
  /\ \A d \in Decisions : decisions'[d] = "consumed" <=> decisions[d] = "consumed"
  /\ mechanics'.tick = mechanics.tick
  /\ Open' => Open

\* What they promise each other is then still true.
LEMMA KeptIs ==
  ASSUME Kept, Inv
  PROVE  /\ Joined' /\ Ordered'
         /\ \A session \in Session : Restorable(session) => Restorable(session)'
         /\ \A session \in Session : Waiting(session) => Waiting(session)'
         /\ Authorized' = Authorized /\ Terminal' = Terminal
<1>1. Authorized' = Authorized /\ Terminal' = Terminal
  BY DEF Kept, Authorized, Terminal
<1>2. Ordered'
  BY <1>1 DEF Kept, Inv, Ordered
<1>3. Joined'
  <2>1. {d \in Decisions : decisions'[d] = "consumed"}
          = {d \in Decisions : decisions[d] = "consumed"}
    BY DEF Kept
  <2>2. \A p \in Principals : Of(p, DOMAIN cells)' = Of(p, DOMAIN cells)
    BY DEF Kept, Of
  <2>3. Committed' = Committed
    BY DEF Kept, Committed
  <2>4. JoinExact
    BY DEF Inv, Joined
  <2>5. \A p \in Principals : lanes'[p].queued = Cardinality(Of(p, DOMAIN cells)')
    BY <2>2, <2>4 DEF Kept, JoinExact
  <2>6. JoinExact'
    BY <2>1, <2>3, <2>4, <2>5 DEF Kept, JoinExact
  <2> QED BY <2>6 DEF Kept, Inv, Joined
<1>4. \A session \in Session : Waiting(session) => Waiting(session)'
  BY <1>1 DEF Kept, Waiting
<1>5. \A session \in Session : Numbered(session) => Numbered(session)'
  BY DEF Kept, Numbered
<1>6. \A session \in Session : Restorable(session) => Restorable(session)'
  BY <1>4, <1>5 DEF Kept, Restorable
<1> QED BY <1>1, <1>2, <1>3, <1>4, <1>6

\* The same operation, or a step whose reservation is gone, still holds what it held.
SameOperation ==
  \/ op' = op
  \/ op # None /\ op' = Invalidated(op)

\* It is then of the same kind and in the same phase.
LEMMA SameOperationIs ==
  ASSUME SameOperation, TypeOK
  PROVE  /\ op' \in ActOperation \cup ReadOperation \cup StepOperation \cup {None}
         /\ Idle' = Idle /\ Acting' = Acting /\ Reading' = Reading
         /\ \A phase : Stepping(phase)' = Stepping(phase)
         /\ Acting => op'.principal = op.principal /\ op'.request = op.request
                      /\ op'.decision = op.decision
         /\ Acting \/ Reading => op'.pre = op.pre
         /\ \A phase : Stepping(phase) =>
              /\ op'.queued = op.queued /\ op'.todo = op.todo /\ op'.post = op.post
              /\ op'.live => op.live
<1>1. CASE op' = op
  BY <1>1 DEF Idle, Acting, Reading, Stepping, TypeOK
<1>2. CASE op # None /\ op.kind # "step" /\ op' = Invalidated(op)
  BY <1>2 DEF Idle, Acting, Reading, Stepping, TypeOK, Invalidated
<1>3. CASE op # None /\ op.kind = "step" /\ op' = Invalidated(op)
  <2>1. op \in StepOperation
    BY <1>3, OpIs DEF Stepping
  <2>2. op' = [op EXCEPT !.live = FALSE]
    BY <1>3 DEF Invalidated
  <2>3. op' \in StepOperation
    BY <2>1, <2>2 DEF StepOperation
  <2>4. /\ op'.kind = "step" /\ op'.phase = op.phase /\ op'.queued = op.queued
        /\ op'.todo = op.todo /\ op'.post = op.post /\ ~op'.live
    BY <2>1, <2>2 DEF StepOperation
  <2>5. op' # None
    BY <2>3, NoneAssumption
  <2> QED BY <1>3, <2>3, <2>4, <2>5 DEF Idle, Acting, Reading, Stepping
<1> QED BY <1>1, <1>2, <1>3 DEF SameOperation

\* What it may rely on is still true.
LEMMA SameHeld ==
  ASSUME Inv, Kept, SameOperation, mechanics' \in Session,
         Stepping("provider") \/ Stepping("publishing") => mechanics' = mechanics,
         closed # closed' => ~Stepping("provider") \/ ~op'.live
  PROVE  ActHeld' /\ StepHeld'
<1>1. /\ ActHeld /\ StepHeld /\ TypeOK
  BY DEF Inv
<1>2. /\ \A session \in Session : Restorable(session) => Restorable(session)'
      /\ \A session \in Session : Waiting(session) => Waiting(session)'
      /\ Authorized' = Authorized /\ Terminal' = Terminal
  BY KeptIs
<1>3. ActHeld'
  <2>1. Acting \/ Reading => Restorable(op.pre)' /\ op.pre' = op.pre
    BY <1>1, <1>2, SameOperationIs, OpIs DEF ActHeld
  <2>2. Acting' \/ Reading' => Restorable(op.pre)'
    BY <2>1, <1>1, SameOperationIs
  <2>3. Acting' => requests'[op'.request] = None /\ Owner[op'.decision] = op'.principal
    BY <1>1, SameOperationIs DEF ActHeld, Kept
  <2> QED BY <2>2, <2>3 DEF ActHeld
<1>4. StepHeld'
  <2>1. Stepping("provider")' =>
          /\ op'.queued = Authorized'
          /\ ~mechanics'.failed /\ mechanics'.tick < MaxTick
          /\ Waiting(mechanics)'
          /\ op'.live => Open'
    <3> SUFFICES ASSUME Stepping("provider") PROVE
          /\ op'.queued = Authorized'
          /\ ~mechanics'.failed /\ mechanics'.tick < MaxTick
          /\ Waiting(mechanics)'
          /\ op'.live => Open'
      BY <1>1, SameOperationIs
    <3>1. mechanics' = mechanics /\ mechanics \in Session
      BY DEF Inv, TypeOK
    <3>2. Waiting(mechanics)'
      BY <1>1, <1>2, <3>1 DEF StepHeld, Waiting, Kept
    <3> QED BY <1>1, <1>2, <3>1, <3>2, SameOperationIs DEF StepHeld, Open
  <2>2. Stepping("publishing")' =>
          /\ Authorized' = {} /\ ~mechanics'.failed
          /\ op'.queued \subseteq Terminal' /\ op'.todo \subseteq op'.queued
          /\ \A s \in Terminal' \ op'.queued, t \in op'.queued : s < t
          /\ Open' => \A p \in Principals :
               InOrder(results'[p]) /\ Range(results'[p]) = Of(p, Terminal \ op.queued)'
    <3> SUFFICES ASSUME Stepping("publishing") PROVE
          /\ Authorized' = {} /\ ~mechanics'.failed
          /\ op'.queued \subseteq Terminal' /\ op'.todo \subseteq op'.queued
          /\ \A s \in Terminal' \ op'.queued, t \in op'.queued : s < t
          /\ Open' => \A p \in Principals :
               InOrder(results'[p]) /\ Range(results'[p]) = Of(p, Terminal \ op.queued)'
      BY <1>1, SameOperationIs
    <3>1. op'.queued = op.queued /\ op'.todo = op.todo
      BY <1>1, SameOperationIs
    <3>2. \A p \in Principals : Of(p, Terminal \ op.queued)' = Of(p, Terminal \ op.queued)
      BY <1>2, <3>1 DEF Of, Kept
    <3> QED BY <1>1, <1>2, <3>1, <3>2 DEF StepHeld, Kept
  <2>3. Stepping("projecting")' => Authorized' = {} /\ Restorable(op.post)'
    <3> SUFFICES ASSUME Stepping("projecting") PROVE Authorized' = {} /\ Restorable(op.post)'
      BY <1>1, SameOperationIs
    <3>1. Restorable(op.post) /\ op.post \in Session /\ op'.post = op.post /\ Authorized = {}
      BY <1>1, SameOperationIs DEF StepHeld, Restorable
    <3> QED BY <1>2, <3>1
  <2> QED BY <2>1, <2>2, <2>3 DEF StepHeld
<1> QED BY <1>3, <1>4

\* The invariant for a step that keeps the records.
LEMMA KeptInv ==
  ASSUME Inv, Kept, TypeOK', Fits', Uniform', Numbered(mechanics)', ReservationHeld',
         ActHeld', StepHeld',
         Stepping("publishing")' <=> Stepping("publishing"),
         Open' /\ ~mechanics'.failed /\ ~Stepping("publishing")' /\ ~Stepping("projecting")'
           => Waiting(mechanics)'
  PROVE  Inv'
<1>1. Joined' /\ Ordered' /\ Terminal' = Terminal
  BY KeptIs
<1>2. AcceptedIsPending'
  BY DEF AcceptedIsPending, Waiting
<1>3. ResultsExact'
  <2>1. \A p \in Principals : Of(p, Terminal)' = Of(p, Terminal)
    BY <1>1 DEF Of, Kept
  <2> QED BY <1>1, <2>1 DEF Inv, ResultsExact, Kept
<1> QED BY <1>1, <1>2, <1>3 DEF Inv

------------------------------------------------------------------------------
\* The steps that leave the records alone, one by one.

\* An open world whose session works has everything it accepted in the session.
LEMMA InvWaiting ==
  ASSUME Inv
  PROVE  /\ Open /\ ~mechanics.failed /\ (Idle \/ Acting \/ Reading) => Waiting(mechanics)
         /\ Stepping("provider") => Waiting(mechanics) /\ ~mechanics.failed
  BY OneKind DEF Inv, AcceptedIsPending, Waiting, StepHeld

\* Whether there is room, where only denials were audited or nothing.
LEMMA FitsIs ==
  ASSUME Inv, TypeOK',
         \/ /\ lanes' = lanes /\ audited' = audited
            /\ Acting' => Acting /\ op'.principal = op.principal
            /\ Open' => Open
         \/ \E p \in Principals :
              /\ Audit(p, "denied")
              /\ \/ ~AuditFull(p) /\ Acting' = Acting /\ (Acting => op'.principal = op.principal)
                 \/ Acting /\ op.principal = p /\ ~Acting'
              /\ Open' => Open /\ (~AuditLast(p) \/ (Acting /\ ~Acting'))
  PROVE  Fits'
<1>1. /\ \A p \in Principals : Total(p) \in Nat
      /\ audited \in Nat /\ Limit \in Nat
      /\ \A p \in Principals :
           Lane(p) = Total(p) + IF Acting /\ op.principal = p THEN 1 ELSE 0
      /\ InAll = audited + IF Acting THEN 1 ELSE 0
  BY LaneIs DEF Inv
<1>2. /\ \A p \in Principals :
           Lane(p)' = Total(p)' + IF Acting' /\ op'.principal = p THEN 1 ELSE 0
      /\ InAll' = audited' + IF Acting' THEN 1 ELSE 0
      /\ \A p \in Principals : Total(p)' \in Nat
  <2>1. \A p \in Principals : lanes'[p].queued \in Nat /\ lanes'[p].denied \in Nat
    BY LimitAssumption DEF TypeOK, Counts
  <2> QED BY <2>1 DEF Lane, InAll, Active, Total
<1>3. InAll <= Limit /\ (\A p \in Principals : Lane(p) <= Limit) /\ (Open => InAll < Limit)
  BY DEF Inv, Fits
<1>4. CASE /\ lanes' = lanes /\ audited' = audited
           /\ Acting' => Acting /\ op'.principal = op.principal
           /\ Open' => Open
  <2>1. \A p \in Principals : Total(p)' = Total(p)
    BY <1>4 DEF Total
  <2> QED BY <1>1, <1>2, <1>3, <1>4, <2>1 DEF Fits
<1>5. ASSUME NEW p \in Principals, Audit(p, "denied"),
             \/ ~AuditFull(p) /\ Acting' = Acting /\ (Acting => op'.principal = op.principal)
             \/ Acting /\ op.principal = p /\ ~Acting',
             Open' => Open /\ (~AuditLast(p) \/ (Acting /\ ~Acting'))
      PROVE  Fits'
  <2>1. Total(p) < Limit /\ audited < Limit
    BY <1>1, <1>3, <1>5 DEF AuditFull
  <2>2. /\ audited' = audited + 1
        /\ \A q \in Principals : Total(q)' = Total(q) + IF q = p THEN 1 ELSE 0
    BY <1>5, <2>1, AuditIs DEF Inv
  <2>3. CASE ~AuditFull(p) /\ Acting' = Acting /\ (Acting => op'.principal = op.principal)
    <3>1. InAll < Limit /\ Lane(p) < Limit
      BY <1>1, <1>3, <2>3 DEF AuditFull
    <3>2. InAll' = InAll + 1
      BY <1>1, <1>2, <2>2, <2>3
    <3>3. \A q \in Principals : Lane(q)' = Lane(q) + IF q = p THEN 1 ELSE 0
      BY <1>1, <1>2, <2>2, <2>3
    <3>4. Open' => InAll # Limit - 1
      BY <1>5, <2>3 DEF AuditLast
    <3>5. InAll \in Nat /\ \A q \in Principals : Lane(q) \in Nat
      BY <1>1
    <3> QED BY <1>1, <1>3, <3>1, <3>2, <3>3, <3>4, <3>5 DEF Fits
  <2>4. CASE Acting /\ op.principal = p /\ ~Acting'
    <3>1. InAll' = InAll
      BY <1>1, <1>2, <2>2, <2>4
    <3>2. \A q \in Principals : Lane(q)' = Lane(q)
      BY <1>1, <1>2, <2>2, <2>4
    <3> QED BY <1>3, <1>5, <3>1, <3>2 DEF Fits
  <2> QED BY <1>5, <2>3, <2>4
<1> QED BY <1>4, <1>5

\* A lane that is not full has room; the act in progress has its own.
LEMMA RoomFor ==
  ASSUME Inv, NEW p \in Principals, ~AuditFull(p) \/ (Acting /\ op.principal = p)
  PROVE  Total(p) < Limit /\ audited < Limit
<1>1. /\ Total(p) \in Nat
      /\ audited \in Nat /\ Limit \in Nat
      /\ Lane(p) = Total(p) + IF Acting /\ op.principal = p THEN 1 ELSE 0
      /\ InAll = audited + IF Acting THEN 1 ELSE 0
  BY LaneIs DEF Inv
<1>2. InAll <= Limit /\ Lane(p) <= Limit
  BY DEF Inv, Fits
<1> QED BY <1>1, <1>2 DEF AuditFull

\* What a denial makes of the lanes and of the closed flags.
LEMMA DenialIs ==
  ASSUME Inv, NEW p \in Principals,
         Audit(p, "denied"), ~AuditFull(p) \/ (Acting /\ op.principal = p)
  PROVE  /\ lanes' \in [Principals -> Counts] /\ audited' \in 0 .. Limit
         /\ \A q \in Principals : lanes'[q].queued = lanes[q].queued
<1>1. Total(p) < Limit /\ audited < Limit
  BY RoomFor
<1>2. lanes \in [Principals -> Counts] /\ TypeOK
  BY DEF Inv, TypeOK
<1>3. \A q \in Principals : lanes'[q].queued = lanes[q].queued + 0
  BY <1>1, <1>2, AuditIs
<1>4. \A q \in Principals : lanes[q].queued \in Nat
  BY <1>2, LimitAssumption DEF Counts
<1> QED BY <1>1, <1>2, <1>3, <1>4, AuditIs

\* The closed flags of an open world and of a closed one.
LEMMA FlagsIs ==
  /\ AllClosed \in [runtime : BOOLEAN, ledger : BOOLEAN, journal : BOOLEAN]
  /\ AllOpen \in [runtime : BOOLEAN, ledger : BOOLEAN, journal : BOOLEAN]
  /\ AllClosed.runtime /\ AllClosed.journal /\ AllClosed.ledger
  /\ ~AllOpen.runtime /\ ~AllOpen.journal /\ ~AllOpen.ledger
  BY DEF AllClosed, AllOpen

\* The flags after a denial.
LEMMA AfterDenialIs ==
  ASSUME Uniform, NEW exhausted \in BOOLEAN
  PROVE  /\ AfterDenial(closed, exhausted) \in {closed, AllClosed}
         /\ exhausted => AfterDenial(closed, exhausted) = AllClosed
  BY FlagsIs DEF Uniform, AfterDenial

\* A world only ever closes as a whole.
LEMMA ClosedIs ==
  ASSUME Uniform, closed' \in {closed, AllClosed}
  PROVE  /\ Uniform' /\ (Open' => Open /\ closed' = closed)
         /\ closed' \in [runtime : BOOLEAN, ledger : BOOLEAN, journal : BOOLEAN]
  BY FlagsIs DEF Uniform, Open

\* A denial at ingress or inside a capture, or a refused re-entrant call.
LEMMA DenialInv ==
  ASSUME Inv,
         \/ lanes' = lanes /\ audited' = audited
         \/ \E p \in Principals :
              /\ ~AuditFull(p) /\ Audit(p, "denied")
              /\ AuditLast(p) => closed' = AllClosed,
         closed' \in {closed, AllClosed},
         closed' # closed => Idle \/ op' = Invalidated(op),
         SameOperation, reentered' \in BOOLEAN,
         UNCHANGED <<requests, decisions, cells, mechanics, controller, results>>
  PROVE  Inv'
<1>1. TypeOK /\ Uniform /\ ActHeld /\ StepHeld /\ ReservationHeld /\ Numbered(mechanics)
  BY DEF Inv
<1>2. Uniform' /\ (Open' => Open /\ closed' = closed)
      /\ closed' \in [runtime : BOOLEAN, ledger : BOOLEAN, journal : BOOLEAN]
  BY <1>1, ClosedIs
<1>3. /\ lanes' \in [Principals -> Counts] /\ audited' \in 0 .. Limit
      /\ \A q \in Principals : lanes'[q].queued = lanes[q].queued
  <2>1. CASE lanes' = lanes /\ audited' = audited
    BY <1>1, <2>1 DEF TypeOK
  <2>2. CASE \E p \in Principals : ~AuditFull(p) /\ Audit(p, "denied")
    BY <2>2, DenialIs
  <2> QED BY <2>1, <2>2
<1>4. TypeOK'
  BY <1>1, <1>2, <1>3, SameOperationIs DEF TypeOK
<1>5. Kept
  BY <1>2, <1>3 DEF Kept
<1>6. Acting' = Acting /\ (Acting => op'.principal = op.principal)
  BY <1>1, SameOperationIs
<1>7. Fits'
  <2>1. CASE lanes' = lanes /\ audited' = audited
    BY <1>2, <1>4, <1>6, <2>1, FitsIs
  <2>2. ASSUME NEW p \in Principals, ~AuditFull(p), Audit(p, "denied"),
               AuditLast(p) => closed' = AllClosed
        PROVE  Fits'
    <3>1. Open' => Open /\ ~AuditLast(p)
      BY <1>2, <2>2, FlagsIs DEF Open
    <3>2. \E q \in Principals :
            /\ Audit(q, "denied")
            /\ \/ ~AuditFull(q) /\ Acting' = Acting /\ (Acting => op'.principal = op.principal)
               \/ Acting /\ op.principal = q /\ ~Acting'
            /\ Open' => Open /\ (~AuditLast(q) \/ (Acting /\ ~Acting'))
      <4>1. \/ ~AuditFull(p) /\ Acting' = Acting /\ (Acting => op'.principal = op.principal)
            \/ Acting /\ op.principal = p /\ ~Acting'
        BY <1>6, <2>2
      <4>2. Open' => Open /\ (~AuditLast(p) \/ (Acting /\ ~Acting'))
        BY <3>1
      <4> QED BY <2>2, <4>1, <4>2
    <3> QED BY <1>4, <3>2, FitsIs
  <2> QED BY <2>1, <2>2
<1>8. closed # closed' => ~Stepping("provider") \/ ~op'.live
  <2>1. CASE op' = Invalidated(op) /\ Stepping("provider")
    <3>1. op \in StepOperation /\ op.kind = "step"
      BY <1>1, <2>1, OpIs DEF Stepping
    <3> QED BY <2>1, <3>1 DEF Invalidated, StepOperation
  <2> QED BY <2>1, OneKind
<1>9. ActHeld' /\ StepHeld'
  BY <1>1, <1>5, <1>8, SameHeld DEF TypeOK
<1>10. ReservationHeld'
  BY <1>1, <1>6, SameOperationIs DEF ReservationHeld
<1>11. Numbered(mechanics)'
  BY <1>1 DEF Numbered
<1>12. \A phase : Stepping(phase)' = Stepping(phase)
  BY <1>1, SameOperationIs
<1>13. Open' /\ ~mechanics'.failed /\ ~Stepping("publishing")' /\ ~Stepping("projecting")'
         => Waiting(mechanics)'
  <2>1. Open /\ ~mechanics.failed /\ ~Stepping("publishing") /\ ~Stepping("projecting")
          => Waiting(mechanics)
    BY DEF Inv, AcceptedIsPending, Waiting
  <2>2. Waiting(mechanics) => Waiting(mechanics)'
    BY DEF Waiting, Authorized
  <2> QED BY <1>2, <1>12, <2>1, <2>2
<1> QED BY <1>2, <1>4, <1>5, <1>7, <1>9, <1>10, <1>11, <1>12, <1>13, KeptInv

------------------------------------------------------------------------------
\* Denials before an act has begun, and calls out of the world's own code.
LEMMA DenyAtIngressInv ==
  ASSUME Inv, NEW p \in Principals, DenyAtIngress(p)
  PROVE  Inv'
<1>1. Uniform /\ SameOperation /\ Idle
  BY DEF Inv, DenyAtIngress, SameOperation
<1>2. AuditLast(p) \in BOOLEAN
  BY DEF AuditLast
<1>3. \/ lanes' = lanes /\ audited' = audited
      \/ /\ ~AuditFull(p) /\ Audit(p, "denied")
         /\ AuditLast(p) => closed' = AllClosed
  BY <1>1, <1>2, AfterDenialIs DEF DenyAtIngress
<1>4. closed' \in {closed, AllClosed}
  BY <1>1, <1>2, AfterDenialIs DEF DenyAtIngress
<1>5. /\ reentered' \in BOOLEAN
      /\ UNCHANGED <<requests, decisions, cells, mechanics, controller, results>>
  BY DEF DenyAtIngress, admission
<1> QED BY <1>1, <1>3, <1>4, <1>5, DenialInv

\* A request the ledger has no room for.
LEMMA ExhaustRequestsInv ==
  ASSUME Inv, NEW p \in Principals, ExhaustRequests(p)
  PROVE  Inv'
<1>1. Uniform /\ SameOperation /\ Idle
  BY DEF Inv, ExhaustRequests, SameOperation
<1>2. closed' = AllClosed
  <2>1. closed \in [runtime : BOOLEAN, ledger : BOOLEAN, journal : BOOLEAN]
    BY DEF Inv, TypeOK
  <2>2. [closed EXCEPT !.ledger = TRUE].ledger
    BY <2>1
  <2> QED BY <2>2 DEF ExhaustRequests, AfterDenial
<1>3. \/ lanes' = lanes /\ audited' = audited
      \/ /\ ~AuditFull(p) /\ Audit(p, "denied")
         /\ AuditLast(p) => closed' = AllClosed
  BY <1>2 DEF ExhaustRequests
<1>5. /\ reentered' \in BOOLEAN
      /\ UNCHANGED <<requests, decisions, cells, mechanics, controller, results>>
  BY DEF ExhaustRequests, admission
<1> QED BY <1>1, <1>2, <1>3, <1>5, DenialInv

\* A re-entrant act.
LEMMA ReenterActInv ==
  ASSUME Inv, NEW p \in Principals, ReenterAct(p)
  PROVE  Inv'
<1>1. SameOperation
  BY DEF ReenterAct, SameOperation, Idle
<1>2. closed' \in {closed, AllClosed}
  BY DEF ReenterAct
<1>3. \/ lanes' = lanes /\ audited' = audited
      \/ /\ ~AuditFull(p) /\ Audit(p, "denied")
         /\ AuditLast(p) => closed' = AllClosed
  BY DEF ReenterAct
<1>4. closed' # closed => op' = Invalidated(op)
  BY <1>2, FlagsIs DEF ReenterAct
<1>5. /\ reentered' \in BOOLEAN
      /\ UNCHANGED <<requests, decisions, cells, mechanics, controller, results>>
  BY DEF ReenterAct, admission
<1> QED BY <1>1, <1>2, <1>3, <1>4, <1>5, DenialInv

\* Any other re-entrant call.
LEMMA ReenterOtherInv ==
  ASSUME Inv, ReenterOther
  PROVE  Inv'
<1>1. /\ SameOperation /\ reentered' \in BOOLEAN /\ closed' = closed
      /\ UNCHANGED <<requests, decisions, cells, mechanics, controller, results>>
      /\ lanes' = lanes /\ audited' = audited /\ op' = op
  BY DEF ReenterOther, SameOperation, admission, journal
<1> QED BY <1>1, DenialInv

------------------------------------------------------------------------------
\* The steps that begin and end an operation and leave the records alone.

\* The session an operation begins with is one it may put it back to.
LEMMA BeginsWith ==
  ASSUME Inv, Kept, mechanics' = mechanics, Idle, ~mechanics.failed
  PROVE  Restorable(mechanics)'
<1>1. Restorable(mechanics)
  BY InvWaiting DEF Restorable, Inv, TypeOK
<1>2. mechanics \in Session
  BY DEF Inv, TypeOK
<1>3. \A session \in Session : Restorable(session) => Restorable(session)'
  BY KeptIs
<1> QED BY <1>1, <1>2, <1>3 DEF Restorable, Numbered, Waiting, Authorized, Kept

\* A read begins.
LEMMA BeginReadInv ==
  ASSUME Inv, BeginRead
  PROVE  Inv'
<1>1. /\ Idle /\ ~mechanics.failed /\ TypeOK
      /\ op' = [kind |-> "read", pre |-> mechanics]
      /\ UNCHANGED <<closed, requests, decisions, lanes, audited, cells, mechanics,
                     controller, results, reentered>>
  BY DEF Inv, BeginRead, admission, journal
<1>2. op' \in ReadOperation
  BY <1>1 DEF TypeOK, ReadOperation
<1>3. ~Acting' /\ Reading' /\ ~Idle' /\ (\A phase : ~Stepping(phase)')
  BY <1>2, NewRead
<1>4. ~Acting /\ ~Reading /\ \A phase : ~Stepping(phase)
  BY <1>1, OneKind
<1>5. Kept
  BY <1>1 DEF Kept, Open
<1>6. TypeOK'
  BY <1>1, <1>2 DEF TypeOK
<1>7. Fits'
  BY <1>1, <1>3, <1>6, FitsIs DEF Open
<1>8. Uniform' /\ Numbered(mechanics)'
  BY <1>1 DEF Inv, Uniform, Numbered
<1>9. ReservationHeld'
  BY <1>1, <1>3, <1>4 DEF Inv, ReservationHeld
<1>10. ActHeld'
  <2>1. Restorable(mechanics)'
    BY <1>1, <1>5, BeginsWith
  <2>2. op'.pre = mechanics'
    BY <1>1
  <2> QED BY <1>3, <2>1, <2>2 DEF ActHeld
<1>11. StepHeld'
  BY <1>3 DEF StepHeld
<1>12. Open' /\ ~mechanics'.failed => Waiting(mechanics)'
  BY <1>1, InvWaiting DEF Open, Waiting, Authorized
<1> QED BY <1>3, <1>4, <1>5, <1>6, <1>7, <1>8, <1>9, <1>10, <1>11, <1>12, KeptInv

\* What is left when an operation returns with the records as they were.
LEMMA ReturnInv ==
  ASSUME Inv, Kept, ~Stepping("publishing"), op' = None, reentered' \in BOOLEAN,
         closed' \in {closed, AllClosed},
         mechanics' \in Session, Numbered(mechanics)',
         \/ lanes' = lanes /\ audited' = audited /\ ~Acting /\ decisions' = decisions
         \/ /\ Acting /\ Audit(op.principal, "denied")
            /\ decisions' = [decisions EXCEPT ![op.decision] = "active"],
         Open' /\ ~mechanics'.failed => Waiting(mechanics)'
  PROVE  Inv'
<1>1. Idle' /\ ~Acting' /\ (\A phase : ~Stepping(phase)') /\ ActHeld' /\ StepHeld'
  BY Ended
<1>2. Uniform' /\ (Open' => Open /\ closed' = closed)
      /\ closed' \in [runtime : BOOLEAN, ledger : BOOLEAN, journal : BOOLEAN]
  BY ClosedIs DEF Inv
<1>3. TypeOK /\ ReservationHeld
  BY DEF Inv
<1>4. CASE lanes' = lanes /\ audited' = audited /\ ~Acting /\ decisions' = decisions
  <2>1. TypeOK'
    BY <1>2, <1>3, <1>4 DEF TypeOK, Kept
  <2>2. Fits'
    BY <1>1, <1>2, <1>4, <2>1, FitsIs
  <2>3. ReservationHeld'
    BY <1>1, <1>3, <1>4 DEF ReservationHeld
  <2> QED BY <1>1, <1>2, <2>1, <2>2, <2>3, KeptInv
<1>5. CASE /\ Acting /\ Audit(op.principal, "denied")
           /\ decisions' = [decisions EXCEPT ![op.decision] = "active"]
  <2>1. op.principal \in Principals /\ op.decision \in Decisions
    BY <1>3, <1>5, OpIs
  <2>2. lanes' \in [Principals -> Counts] /\ audited' \in 0 .. Limit
    BY <1>5, <2>1, DenialIs
  <2>3. TypeOK'
    BY <1>2, <1>3, <1>5, <2>1, <2>2 DEF TypeOK, Kept
  <2>4. Fits'
    BY <1>1, <1>2, <1>5, <2>1, <2>3, FitsIs
  <2>5. ReservationHeld'
    <3>1. {d \in Decisions : decisions[d] = "reserved"} = {op.decision}
      BY <1>3, <1>5 DEF ReservationHeld
    <3>2. \A d \in Decisions : decisions'[d] # "reserved"
      BY <1>3, <1>5, <2>1, <3>1 DEF TypeOK
    <3> QED BY <1>1, <3>2 DEF ReservationHeld
  <2> QED BY <1>1, <1>2, <2>3, <2>4, <2>5, KeptInv
<1> QED BY <1>4, <1>5

\* A session that was shut, or one more action in it, keeps what is known of it.
LEMMA SessionIs ==
  ASSUME TypeOK, NEW m \in Session
  PROVE  /\ [m EXCEPT !.failed = TRUE] \in Session
         /\ [m EXCEPT !.failed = TRUE].failed
         /\ [m EXCEPT !.failed = TRUE].tick = m.tick
         /\ Numbered(m) => Numbered([m EXCEPT !.failed = TRUE])
         /\ CanQueue(m) =>
              /\ Queue(m) \in Session
              /\ Queue(m).tick = m.tick /\ Queue(m).failed = m.failed
              /\ Queue(m).nextSequence = m.nextSequence + 1
              /\ Queue(m).pending = m.pending \cup {m.nextSequence}
              /\ m.nextSequence \in Sequences
<1>1. [m EXCEPT !.failed = TRUE] \in Session
  BY DEF Session
<1>2. /\ [m EXCEPT !.failed = TRUE].failed
      /\ [m EXCEPT !.failed = TRUE].tick = m.tick
      /\ [m EXCEPT !.failed = TRUE].nextSequence = m.nextSequence
      /\ [m EXCEPT !.failed = TRUE].pending = m.pending
  BY DEF Session
<1>3. ASSUME CanQueue(m)
      PROVE  /\ Queue(m) \in Session
             /\ Queue(m).tick = m.tick /\ Queue(m).failed = m.failed
             /\ Queue(m).nextSequence = m.nextSequence + 1
             /\ Queue(m).pending = m.pending \cup {m.nextSequence}
             /\ m.nextSequence \in Sequences
  <2>1. /\ MaxSequence \in Nat /\ m.nextSequence \in 1 .. MaxSequence + 1
        /\ m.pending \in SUBSET Sequences
    BY BoundAssumption DEF Session
  <2>2. m.nextSequence \in Sequences /\ m.nextSequence + 1 \in 1 .. MaxSequence + 1
    BY <1>3, <2>1 DEF CanQueue, Sequences
  <2> DEFINE more == m.pending \cup {m.nextSequence}
             after == m.nextSequence + 1
  <2>3. more \in SUBSET Sequences
    BY <2>1, <2>2
  <2>4. Queue(m) = [m EXCEPT !.pending = more, !.nextSequence = after]
    BY DEF Queue
  <2>5. after \in 1 .. MaxSequence + 1
    BY <2>2
  <2> HIDE DEF more, after
  <2>6. /\ Queue(m) \in Session
        /\ Queue(m).tick = m.tick /\ Queue(m).failed = m.failed
        /\ Queue(m).nextSequence = after /\ Queue(m).pending = more
    BY <2>3, <2>4, <2>5 DEF Session
  <2> QED BY <2>2, <2>6 DEF more, after
<1> QED BY <1>1, <1>2, <1>3 DEF Numbered

\* A session put back as it was, or shut because it could not be.
LEMMA RestoredIs ==
  ASSUME Inv, NEW pre \in Session, Restorable(pre),
         NEW attempt \in Session, Numbered(attempt), attempt.tick = mechanics.tick,
         mechanics' \in {Restored(attempt, pre)} \cup RestoreFailures(attempt),
         UNCHANGED <<cells, controller>>
  PROVE  /\ mechanics' \in Session /\ Numbered(mechanics)'
         /\ mechanics'.tick = mechanics.tick
         /\ mechanics' = pre \/ mechanics' = attempt \/ mechanics'.failed
<1>1. TypeOK
  BY DEF Inv
<1>2. CASE mechanics' = pre
  BY <1>2 DEF Restorable, Numbered
<1>3. CASE mechanics' = attempt
  BY <1>3 DEF Numbered
<1>4. CASE mechanics' = [attempt EXCEPT !.failed = TRUE]
  BY <1>1, <1>4, SessionIs DEF Numbered
<1> QED BY <1>2, <1>3, <1>4 DEF Restored, RestoreFailures

\* A read ends; what it did to the session is undone.
LEMMA EndReadInv ==
  ASSUME Inv, EndRead
  PROVE  Inv'
<1>1. /\ Reading /\ op' = None /\ TypeOK
      /\ UNCHANGED <<closed, requests, decisions, lanes, audited, cells, controller,
                     results, reentered>>
  BY DEF EndRead, admission, journal, Inv
<1>2. ~Acting /\ ~Idle /\ \A phase : ~Stepping(phase)
  BY <1>1, OneKind
<1>3. op.pre \in Session /\ Restorable(op.pre) /\ Numbered(mechanics) /\ mechanics \in Session
  BY <1>1, OpIs DEF Inv, ActHeld, TypeOK
<1>4. mechanics' = mechanics \/
      mechanics' \in {Restored(mechanics, op.pre)} \cup RestoreFailures(mechanics)
  BY DEF EndRead
<1>5. mechanics' \in {Restored(mechanics, op.pre)} \cup RestoreFailures(mechanics)
  BY <1>4 DEF RestoreFailures
<1>6. /\ mechanics' \in Session /\ Numbered(mechanics)'
      /\ mechanics'.tick = mechanics.tick
      /\ mechanics' = op.pre \/ mechanics' = mechanics \/ mechanics'.failed
  BY <1>1, <1>3, <1>5, RestoredIs
<1>7. Kept
  BY <1>1, <1>6 DEF Kept, Open
<1>8. Open' /\ ~mechanics'.failed => Waiting(mechanics)'
  <2> SUFFICES ASSUME Open', ~mechanics'.failed PROVE Waiting(mechanics)'
    OBVIOUS
  <2>1. Open
    BY <1>1 DEF Open
  <2>2. CASE mechanics' = op.pre
    BY <1>1, <1>3, <2>1, <2>2 DEF Restorable, Waiting, Authorized
  <2>3. CASE mechanics' = mechanics
    BY <1>1, <2>1, <2>3, InvWaiting DEF Waiting, Authorized
  <2> QED BY <1>6, <2>2, <2>3
<1>9. reentered' \in BOOLEAN
  BY <1>1 DEF TypeOK
<1> QED BY <1>1, <1>2, <1>6, <1>7, <1>8, <1>9, ReturnInv

\* A denial gives back what the act had reserved.
LEMMA DenyActInv ==
  ASSUME Inv, NEW attempt \in Session,
         \/ attempt = mechanics
         \/ CanQueue(mechanics) /\ attempt = Queue(mechanics),
         NEW exhausted \in BOOLEAN, DenyAct(attempt, exhausted)
  PROVE  Inv'
<1>1. /\ Acting /\ op' = None /\ reentered' = FALSE /\ TypeOK /\ Uniform
      /\ mechanics' \in {Restored(attempt, op.pre)} \cup RestoreFailures(attempt)
      /\ decisions' = [decisions EXCEPT ![op.decision] = "active"]
      /\ Audit(op.principal, "denied")
      /\ closed' = AfterDenial(closed, exhausted)
      /\ UNCHANGED <<requests, cells, controller, results>>
  BY DEF DenyAct, EndAct, Inv
<1>2. ~Reading /\ ~Idle /\ \A phase : ~Stepping(phase)
  BY <1>1, OneKind
<1>3. /\ op.pre \in Session /\ Restorable(op.pre) /\ Numbered(mechanics) /\ mechanics \in Session
      /\ op.principal \in Principals /\ op.decision \in Decisions
  BY <1>1, OpIs DEF Inv, ActHeld, TypeOK
<1>4. Numbered(attempt) /\ attempt.tick = mechanics.tick
      /\ mechanics.pending \subseteq attempt.pending
  <2>1. CASE CanQueue(mechanics) /\ attempt = Queue(mechanics)
    <3>1. /\ attempt.tick = mechanics.tick
          /\ attempt.nextSequence = mechanics.nextSequence + 1
          /\ attempt.pending = mechanics.pending \cup {mechanics.nextSequence}
          /\ mechanics.nextSequence \in Sequences
      BY <1>1, <1>3, <2>1, SessionIs
    <3>2. \A s \in DOMAIN cells \cup controller : s \in Sequences /\ s < mechanics.nextSequence
      BY <1>1, <1>3 DEF TypeOK, Numbered
    <3>3. \A s, n \in Sequences : s < n => s < n + 1
      BY DEF Sequences
    <3>4. \A s \in DOMAIN cells \cup controller : s < attempt.nextSequence
      BY <3>1, <3>2, <3>3
    <3> QED BY <1>3, <3>1, <3>4 DEF Numbered
  <2> QED BY <1>3, <2>1
<1>5. /\ mechanics' \in Session /\ Numbered(mechanics)'
      /\ mechanics'.tick = mechanics.tick
      /\ mechanics' = op.pre \/ mechanics' = attempt \/ mechanics'.failed
  BY <1>1, <1>3, <1>4, RestoredIs
<1>6. closed' \in {closed, AllClosed} /\ (Open' => Open)
  BY <1>1, AfterDenialIs, ClosedIs
<1>7. Kept
  <2>1. \A p \in Principals : lanes'[p].queued = lanes[p].queued
    BY <1>1, <1>3, DenialIs
  <2>2. decisions[op.decision] = "reserved"
    BY <1>1, <1>3 DEF Inv, ReservationHeld
  <2>3. \A d \in Decisions : decisions'[d] = "consumed" <=> decisions[d] = "consumed"
    BY <1>1, <1>3, <2>2 DEF TypeOK
  <2> QED BY <1>1, <1>5, <1>6, <2>1, <2>3 DEF Kept
<1>8. Open' /\ ~mechanics'.failed => Waiting(mechanics)'
  <2> SUFFICES ASSUME Open', ~mechanics'.failed PROVE Waiting(mechanics)'
    OBVIOUS
  <2>1. Open
    BY <1>6
  <2>2. CASE mechanics' = op.pre
    BY <1>1, <1>3, <2>1, <2>2 DEF Restorable, Waiting, Authorized
  <2>3. CASE mechanics' = attempt
    <3>1. ~mechanics.failed
      BY <1>1, <1>3, <2>3, SessionIs
    <3>2. Waiting(mechanics)
      BY <1>1, <2>1, <3>1, InvWaiting
    <3> QED BY <1>1, <1>4, <2>3, <3>2 DEF Waiting, Authorized
  <2> QED BY <1>5, <2>2, <2>3
<1> QED BY <1>1, <1>2, <1>5, <1>6, <1>7, <1>8, ReturnInv

\* An act that is denied after it began.
LEMMA ActDeniedInv ==
  ASSUME Inv, ActDenied \/ \E taken, exhausted \in BOOLEAN : ActFails(taken, exhausted)
  PROVE  Inv'
<1>1. mechanics \in Session
  BY DEF Inv, TypeOK
<1>2. CASE ActDenied
  BY <1>1, <1>2, DenyActInv DEF ActDenied
<1>3. ASSUME NEW taken \in BOOLEAN, NEW exhausted \in BOOLEAN, ActFails(taken, exhausted)
      PROVE  Inv'
  <2>1. CASE taken
    <3>1. CanQueue(mechanics) /\ DenyAct(Queue(mechanics), exhausted)
      BY <1>3, <2>1 DEF ActFails
    <3>2. Queue(mechanics) \in Session
      BY <1>1, <3>1, SessionIs DEF Inv
    <3> QED BY <3>1, <3>2, DenyActInv
  <2>2. CASE ~taken
    <3>1. DenyAct(mechanics, exhausted)
      BY <1>3, <2>2 DEF ActFails
    <3> QED BY <1>1, <3>1, DenyActInv
  <2> QED BY <2>1, <2>2
<1> QED BY <1>2, <1>3

\* A step of the clock that ends without results.
LEMMA StepEndsInv ==
  ASSUME Inv, \/ StepCannotBegin \/ StepRetryable
              \/ \E rolledBack \in BOOLEAN : StepFatal(rolledBack)
              \/ ProjectionAbandoned
  PROVE  Inv'
<1>1. /\ TypeOK /\ Uniform /\ mechanics \in Session /\ Numbered(mechanics)
      /\ op' = None /\ reentered' = FALSE
      /\ UNCHANGED <<requests, decisions, lanes, audited, cells, controller, results>>
  BY DEF Inv, TypeOK, StepCannotBegin, StepRetryable, StepFatal, ProjectionAbandoned,
         StepClosesWorld, EndStep, admission, journal
<1>2. closed' \in {closed, AllClosed}
  BY DEF StepCannotBegin, StepRetryable, StepFatal, ProjectionAbandoned, StepClosesWorld
<1>3. ~Acting /\ ~Stepping("publishing")
  BY OneKind DEF StepCannotBegin, StepRetryable, StepFatal, ProjectionAbandoned, Stepping
<1>4. /\ mechanics' \in Session /\ Numbered(mechanics)' /\ mechanics'.tick = mechanics.tick
  <2>1. CASE mechanics' = mechanics
    BY <1>1, <2>1 DEF Numbered
  <2>2. ASSUME NEW b \in BOOLEAN, mechanics' = [mechanics EXCEPT !.failed = b]
        PROVE  mechanics' \in Session /\ Numbered(mechanics)' /\ mechanics'.tick = mechanics.tick
    <3>1. /\ mechanics' \in Session /\ mechanics'.tick = mechanics.tick
          /\ mechanics'.nextSequence = mechanics.nextSequence
          /\ mechanics'.pending = mechanics.pending
      BY <1>1, <2>2 DEF Session
    <3> QED BY <1>1, <3>1 DEF Numbered
  <2>3. mechanics' = mechanics \/ \E b \in BOOLEAN : mechanics' = [mechanics EXCEPT !.failed = b]
    BY DEF StepCannotBegin, StepRetryable, StepFatal, ProjectionAbandoned, RestoreFailures
  <2> QED BY <2>1, <2>2, <2>3
<1>5. Open' => Open
  BY <1>1, <1>2, ClosedIs
<1>6. Kept
  BY <1>1, <1>4, <1>5 DEF Kept
<1>7. Open' /\ ~mechanics'.failed => Waiting(mechanics)'
  <2>1. CASE StepRetryable
    <3>1. Stepping("provider") /\ mechanics' = mechanics
      BY <2>1 DEF StepRetryable
    <3> QED BY <1>1, <3>1, InvWaiting DEF Waiting, Authorized
  <2>2. CASE ~StepRetryable
    BY <2>2, FlagsIs DEF StepCannotBegin, StepFatal, ProjectionAbandoned, StepClosesWorld, Open
  <2> QED BY <2>1, <2>2
<1> QED BY <1>1, <1>2, <1>3, <1>4, <1>6, <1>7, ReturnInv

\* One more action in the session.
LEMMA QueueIs ==
  ASSUME Inv, CanQueue(mechanics), mechanics' = Queue(mechanics)
  PROVE  /\ mechanics' \in Session
         /\ mechanics'.tick = mechanics.tick /\ mechanics'.failed = mechanics.failed
         /\ ~mechanics.failed
         /\ mechanics'.nextSequence = mechanics.nextSequence + 1
         /\ mechanics'.pending = mechanics.pending \cup {mechanics.nextSequence}
         /\ mechanics.nextSequence \in Sequences /\ mechanics.nextSequence \in Nat
         /\ mechanics.nextSequence \notin DOMAIN cells \cup controller
         /\ \A s \in DOMAIN cells \cup controller \cup {mechanics.nextSequence} :
              s < mechanics'.nextSequence
         /\ \A s \in DOMAIN cells \cup controller :
              s \in Sequences /\ s < mechanics.nextSequence
<1>1. /\ TypeOK /\ mechanics \in Session /\ Numbered(mechanics)
  BY DEF Inv, TypeOK
<1>2. /\ mechanics' \in Session
      /\ mechanics'.tick = mechanics.tick /\ mechanics'.failed = mechanics.failed
      /\ mechanics'.nextSequence = mechanics.nextSequence + 1
      /\ mechanics'.pending = mechanics.pending \cup {mechanics.nextSequence}
      /\ mechanics.nextSequence \in Sequences
  BY <1>1, SessionIs
<1>3. \A s \in DOMAIN cells \cup controller : s \in Sequences /\ s < mechanics.nextSequence
  BY <1>1 DEF TypeOK, Numbered
<1>4. \A s, n \in Sequences : s < n => s < n + 1 /\ s # n
  BY DEF Sequences
<1>5. mechanics.nextSequence < mechanics.nextSequence + 1 /\ mechanics.nextSequence \in Nat
  BY <1>2 DEF Sequences
<1>6. ~mechanics.failed
  BY DEF CanQueue
<1> QED BY <1>2, <1>3, <1>4, <1>5, <1>6

\* Surface code queues an action of its own.
LEMMA SurfaceMutatesInv ==
  ASSUME Inv, SurfaceMutates
  PROVE  Inv'
<1>1. /\ CanQueue(mechanics) /\ mechanics' = Queue(mechanics)
      /\ TypeOK /\ mechanics \in Session /\ op' = op
      /\ UNCHANGED <<closed, requests, decisions, lanes, audited, cells, controller,
                     results, reentered>>
  BY DEF Inv, TypeOK, SurfaceMutates, admission, journal
<1>2. ~Stepping("provider") /\ ~Stepping("publishing")
  BY OneKind DEF SurfaceMutates, Stepping
<1>3. SameOperation
  BY <1>1 DEF SameOperation
<1>4. Kept
  BY <1>1, QueueIs DEF Kept, Open
<1>5. TypeOK'
  BY <1>1, QueueIs DEF TypeOK
<1>6. Acting' <=> Acting
  BY <1>1 DEF Acting
<1>7. Fits'
  BY <1>1, <1>5, <1>6, FitsIs DEF Open
<1>8. Uniform' /\ ReservationHeld'
  BY <1>1, <1>6 DEF Inv, Uniform, ReservationHeld
<1>9. Numbered(mechanics)'
  BY <1>1, QueueIs DEF Inv, Numbered
<1>10. ActHeld' /\ StepHeld'
  BY <1>1, <1>2, <1>3, <1>4, QueueIs, SameHeld
<1>11. \A phase : Stepping(phase)' <=> Stepping(phase)
  BY <1>1 DEF Stepping
<1>12. Open' /\ ~mechanics'.failed /\ ~Stepping("publishing")' /\ ~Stepping("projecting")'
         => Waiting(mechanics)'
  BY <1>1, <1>11, QueueIs DEF Inv, AcceptedIsPending, Waiting, Open, Authorized
<1> QED BY <1>4, <1>5, <1>7, <1>8, <1>9, <1>10, <1>11, <1>12, KeptInv

\* A decision is claimed.
LEMMA ClaimInv ==
  ASSUME Inv, NEW d \in Decisions, Claim(d)
  PROVE  Inv'
<1>1. /\ TypeOK /\ op' = op /\ decisions[d] = "unissued"
      /\ decisions' = [decisions EXCEPT ![d] = "active"]
      /\ UNCHANGED <<closed, requests, lanes, audited, cells, mechanics, controller,
                     results, reentered>>
  BY DEF Inv, Claim, journal
<1>2. SameOperation
  BY <1>1 DEF SameOperation
<1>3. /\ decisions' \in [Decisions -> {"unissued", "active", "reserved", "consumed"}]
      /\ \A e \in Decisions : decisions'[e] = "consumed" <=> decisions[e] = "consumed"
      /\ \A e \in Decisions : decisions'[e] = "reserved" <=> decisions[e] = "reserved"
  BY <1>1 DEF TypeOK
<1>4. Kept
  BY <1>1, <1>3 DEF Kept, Open
<1>5. TypeOK'
  BY <1>1, <1>3 DEF TypeOK
<1>6. Acting' <=> Acting
  BY <1>1 DEF Acting
<1>7. Fits'
  BY <1>1, <1>5, <1>6, FitsIs DEF Open
<1>8. Uniform' /\ Numbered(mechanics)'
  BY <1>1 DEF Inv, Uniform, Numbered
<1>9. ReservationHeld'
  BY <1>1, <1>3, <1>6 DEF Inv, ReservationHeld
<1>10. ActHeld' /\ StepHeld'
  BY <1>1, <1>2, <1>4, SameHeld DEF TypeOK
<1>11. \A phase : Stepping(phase)' <=> Stepping(phase)
  BY <1>1 DEF Stepping
<1>12. Open' /\ ~mechanics'.failed /\ ~Stepping("publishing")' /\ ~Stepping("projecting")'
         => Waiting(mechanics)'
  BY <1>1, <1>11 DEF Inv, AcceptedIsPending, Waiting, Open, Authorized
<1> QED BY <1>4, <1>5, <1>7, <1>8, <1>9, <1>10, <1>11, <1>12, KeptInv

\* An act begins with a decision and an audit of its own.
LEMMA BeginActInv ==
  ASSUME Inv, NEW p \in Principals, NEW r \in Requests, NEW d \in Decisions, BeginAct(p, r, d)
  PROVE  Inv'
<1>1. /\ TypeOK /\ Idle /\ closed = AllOpen /\ requests[r] = None
      /\ ~AuditFull(p) /\ ~AuditLast(p) /\ ~mechanics.failed
      /\ Owner[d] = p /\ decisions[d] = "active"
      /\ decisions' = [decisions EXCEPT ![d] = "reserved"]
      /\ op' = [kind |-> "act", principal |-> p, request |-> r, decision |-> d,
                pre |-> mechanics]
      /\ reentered' = FALSE
      /\ UNCHANGED <<closed, requests, lanes, audited, cells, mechanics, controller,
                     results>>
  BY DEF Inv, BeginAct, journal
<1>2. op' \in ActOperation
  BY <1>1 DEF TypeOK, ActOperation
<1>3. Acting' /\ ~Reading' /\ ~Idle' /\ (\A phase : ~Stepping(phase)')
  BY <1>2, NewAct
<1>4. ~Acting /\ ~Reading /\ \A phase : ~Stepping(phase)
  BY <1>1, OneKind
<1>5. /\ decisions' \in [Decisions -> {"unissued", "active", "reserved", "consumed"}]
      /\ \A e \in Decisions : decisions'[e] = "consumed" <=> decisions[e] = "consumed"
      /\ \A e \in Decisions : decisions'[e] = "reserved" <=> e = d \/ decisions[e] = "reserved"
  BY <1>1 DEF TypeOK
<1>6. Kept
  BY <1>1, <1>5 DEF Kept, Open
<1>7. TypeOK'
  BY <1>1, <1>2, <1>5 DEF TypeOK
<1>8. Fits'
  <2>1. /\ \A q \in Principals : Total(q) \in Nat /\ Lane(q) = Total(q) /\ Lane(q) <= Limit
        /\ audited \in Nat /\ Limit \in Nat /\ InAll = audited
    BY <1>1, <1>4, LaneIs DEF Inv, Fits
  <2>2. Total(p) < Limit - 1 /\ audited < Limit - 1
    BY <2>1, <1>1 DEF AuditFull, AuditLast
  <2>3. /\ \A q \in Principals : Total(q)' = Total(q)
        /\ audited' = audited /\ op'.principal = p
    BY <1>1 DEF Total
  <2>4. /\ \A q \in Principals : Lane(q)' = Total(q) + IF q = p THEN 1 ELSE 0
        /\ InAll' = audited + 1
    BY <1>3, <2>1, <2>3 DEF Lane, InAll, Active, Total
  <2> QED BY <2>1, <2>2, <2>4 DEF Fits
<1>9. Uniform' /\ Numbered(mechanics)'
  BY <1>1 DEF Inv, Uniform, Numbered
<1>10. ReservationHeld'
  <2>1. {e \in Decisions : decisions[e] = "reserved"} = {}
    BY <1>4 DEF Inv, ReservationHeld
  <2>2. {e \in Decisions : decisions'[e] = "reserved"} = {d}
    BY <1>5, <2>1
  <2> QED BY <1>1, <1>3, <2>2 DEF ReservationHeld
<1>11. ActHeld'
  <2>1. Restorable(mechanics)'
    BY <1>1, <1>6, BeginsWith
  <2>2. op'.pre = mechanics' /\ op'.request = r /\ op'.decision = d /\ op'.principal = p
    BY <1>1
  <2> QED BY <1>1, <1>3, <2>1, <2>2 DEF ActHeld
<1>12. StepHeld'
  BY <1>3 DEF StepHeld
<1>13. Open' /\ ~mechanics'.failed => Waiting(mechanics)'
  BY <1>1, InvWaiting DEF Open, Waiting, Authorized
<1> QED BY <1>3, <1>4, <1>6, <1>7, <1>8, <1>9, <1>10, <1>11, <1>12, <1>13, KeptInv

\* A step begins and reserves everything that is authorized.
LEMMA BeginStepInv ==
  ASSUME Inv, BeginStep
  PROVE  Inv'
<1>1. /\ TypeOK /\ Idle /\ Open /\ ~mechanics.failed /\ mechanics.tick < MaxTick
      /\ op' = [kind |-> "step", phase |-> "provider", live |-> TRUE,
                queued |-> Bound(mechanics.tick), todo |-> {}, post |-> None]
      /\ reentered' = FALSE
      /\ UNCHANGED <<closed, requests, decisions, lanes, audited, cells, mechanics,
                     controller, results>>
  BY DEF Inv, BeginStep, admission, journal
<1>2. Waiting(mechanics)
  BY <1>1, InvWaiting
<1>3. Bound(mechanics.tick) = Authorized /\ Authorized \in SUBSET Sequences
  BY <1>1, <1>2 DEF Bound, Waiting, TypeOK, Authorized
<1>4. op' \in StepOperation
  BY <1>1, <1>3 DEF StepOperation
<1>5. ~Acting' /\ ~Reading' /\ ~Idle' /\ (\A phase : Stepping(phase)' <=> phase = "provider")
  BY <1>1, <1>4, NewStep
<1>6. ~Acting /\ ~Reading /\ \A phase : ~Stepping(phase)
  BY <1>1, OneKind
<1>7. Kept
  BY <1>1 DEF Kept, Open
<1>8. TypeOK'
  BY <1>1, <1>4 DEF TypeOK
<1>9. Fits'
  BY <1>1, <1>5, <1>8, FitsIs DEF Open
<1>10. Uniform' /\ Numbered(mechanics)'
  BY <1>1 DEF Inv, Uniform, Numbered
<1>11. ReservationHeld'
  BY <1>1, <1>5, <1>6 DEF Inv, ReservationHeld
<1>12. ActHeld'
  BY <1>5 DEF ActHeld
<1>13. Waiting(mechanics)'
  BY <1>1, <1>2 DEF Waiting, Authorized
<1>14. StepHeld'
  <2>1. op'.queued = Authorized' /\ Open'
    BY <1>1, <1>3 DEF Authorized, Open
  <2> QED BY <1>1, <1>5, <1>13, <2>1 DEF StepHeld
<1> QED BY <1>5, <1>6, <1>7, <1>8, <1>9, <1>10, <1>11, <1>12, <1>13, <1>14, KeptInv

\* The controller queues an action, and may never learn its sequence.
LEMMA QueueControllerInv ==
  ASSUME Inv, NEW retained \in BOOLEAN, QueueController(retained)
  PROVE  Inv'
<1>1. /\ TypeOK /\ Idle /\ Open /\ CanQueue(mechanics) /\ mechanics' = Queue(mechanics)
      /\ controller' \in {controller, controller \cup {mechanics.nextSequence}}
      /\ reentered' = FALSE /\ op' = op
      /\ UNCHANGED <<closed, requests, decisions, lanes, audited, cells, results>>
  BY DEF Inv, QueueController, admission, journal
<1>2. op' = None /\ op = None
  BY <1>1 DEF Idle
<1>3. Idle' /\ ~Acting' /\ ~Reading' /\ (\A phase : ~Stepping(phase)') /\ ActHeld' /\ StepHeld'
  BY <1>2, Ended
<1>4. ~Acting /\ ~Reading /\ \A phase : ~Stepping(phase)
  BY <1>1, OneKind
<1>5. TypeOK'
  BY <1>1, QueueIs DEF TypeOK
<1>6. Fits'
  BY <1>1, <1>3, <1>5, FitsIs DEF Open
<1>7. Uniform' /\ ReservationHeld' /\ Joined'
  BY <1>1, <1>3, <1>4 DEF Inv, Uniform, ReservationHeld, Joined, JoinExact, Committed, Of
<1>8. Numbered(mechanics)' /\ Ordered'
  <2>1. Numbered(mechanics) /\ Ordered
    BY DEF Inv
  <2>2. Ordered'
    BY <1>1, <2>1, QueueIs DEF Ordered, Terminal, Authorized
  <2>3. Numbered(mechanics)'
    BY <1>1, <2>1, QueueIs DEF Numbered
  <2> QED BY <2>2, <2>3
<1>9. AcceptedIsPending'
  BY <1>1, <1>3, QueueIs, InvWaiting DEF AcceptedIsPending, Waiting, Authorized, Open
<1>10. ResultsExact'
  BY <1>1, <1>3, <1>4 DEF Inv, ResultsExact, Of, Terminal, Open
<1> QED BY <1>3, <1>5, <1>6, <1>7, <1>8, <1>9, <1>10 DEF Inv

------------------------------------------------------------------------------
\* The steps that write the records.

\* The records of an accepted act.
LEMMA ActQueuesInv ==
  ASSUME Inv, ActQueues
  PROVE  Inv'
<1> DEFINE s == mechanics.nextSequence
           p == op.principal
           r == op.request
           d == op.decision
           receipt == [principal |-> p, decision |-> d, sequence |-> s, tick |-> mechanics.tick]
           cell == [principal |-> p, request |-> r, decision |-> d, tick |-> mechanics.tick,
                    state |-> "authorized", projection |-> "not_configured"]
<1>1. /\ TypeOK /\ Acting /\ closed = AllOpen /\ closed' = closed
      /\ CanQueue(mechanics) /\ mechanics' = Queue(mechanics)
      /\ cells' = [x \in DOMAIN cells \cup {s} |-> IF x # s THEN cells[x] ELSE cell]
      /\ Audit(p, "queued")
      /\ requests' = [requests EXCEPT ![r] = receipt]
      /\ decisions' = [decisions EXCEPT ![d] = "consumed"]
      /\ op' = None /\ reentered' = FALSE /\ UNCHANGED <<controller, results>>
  BY DEF Inv, ActQueues, EndAct
<1>2. /\ p \in Principals /\ r \in Requests /\ d \in Decisions
      /\ ~Reading /\ ~Idle /\ \A phase : ~Stepping(phase)
  BY <1>1, OpIs, OneKind
<1>3. /\ mechanics' \in Session /\ ~mechanics.failed
      /\ mechanics'.tick = mechanics.tick /\ mechanics'.pending = mechanics.pending \cup {s}
      /\ s \in Sequences /\ s \in Nat
      /\ s \notin DOMAIN cells \cup controller
      /\ \A x \in DOMAIN cells \cup controller \cup {s} : x < mechanics'.nextSequence
      /\ \A x \in DOMAIN cells \cup controller : x \in Sequences /\ x < s
  BY <1>1, QueueIs
<1>4. Idle' /\ ~Acting' /\ ~Reading' /\ (\A phase : ~Stepping(phase)') /\ ActHeld' /\ StepHeld'
  BY <1>1, Ended
<1>5. /\ requests[r] = None
      /\ {e \in Decisions : decisions[e] = "reserved"} = {d}
      /\ decisions[d] = "reserved"
  <2>1. {e \in Decisions : decisions[e] = "reserved"} = {d}
    BY <1>1 DEF Inv, ReservationHeld
  <2> QED BY <1>1, <1>2, <2>1 DEF Inv, ActHeld
<1>6. receipt \in Receipt /\ receipt # None /\ cell \in Cell
  <2>1. mechanics.tick \in 0 .. MaxTick
    BY <1>1 DEF TypeOK, Session
  <2>2. receipt \in Receipt
    BY <1>2, <1>3, <2>1 DEF Receipt
  <2>3. cell \in Cell
    BY <1>2, <2>1 DEF Cell
  <2> QED BY <2>2, <2>3, NoneAssumption
<1> HIDE DEF receipt, cell
<1>7. /\ DOMAIN cells' = DOMAIN cells \cup {s} /\ cells'[s] = cell
      /\ \A x \in DOMAIN cells : cells'[x] = cells[x]
  BY <1>1, <1>3
<1>8. /\ requests' \in [Requests -> Receipt \cup {None}] /\ requests'[r] = receipt
      /\ \A q \in Requests : q # r => requests'[q] = requests[q]
  BY <1>1, <1>2, <1>6 DEF TypeOK
<1>9. /\ decisions' \in [Decisions -> {"unissued", "active", "reserved", "consumed"}]
      /\ decisions'[d] = "consumed"
      /\ \A e \in Decisions : e # d => decisions'[e] = decisions[e]
  BY <1>1, <1>2 DEF TypeOK
<1>10. /\ cell.principal = p /\ cell.request = r /\ cell.decision = d
       /\ cell.tick = mechanics.tick /\ cell.state = "authorized"
       /\ receipt.principal = p /\ receipt.decision = d /\ receipt.sequence = s
       /\ receipt.tick = mechanics.tick
  BY DEF cell, receipt
<1>11. /\ lanes' \in [Principals -> Counts] /\ audited' = audited + 1
       /\ audited' \in 0 .. Limit
       /\ \A q \in Principals : Total(q)' = Total(q) + IF q = p THEN 1 ELSE 0
       /\ \A q \in Principals : lanes'[q].queued = lanes[q].queued + IF q = p THEN 1 ELSE 0
  <2>1. Total(p) < Limit /\ audited < Limit
    BY <1>1, <1>2, RoomFor
  <2> QED BY <1>1, <1>2, <2>1, AuditIs
<1>12. TypeOK'
  <2>1. \A x \in DOMAIN cells' : cells'[x] \in Cell
    BY <1>1, <1>6, <1>7 DEF TypeOK
  <2>2. DOMAIN cells' \subseteq Sequences
    BY <1>1, <1>3, <1>7 DEF TypeOK
  <2> QED BY <1>1, <1>3, <1>8, <1>9, <1>11, <2>1, <2>2 DEF TypeOK
<1>13. Fits'
  <2>1. /\ \A q \in Principals :
             /\ Total(q) \in Nat /\ Lane(q) <= Limit
             /\ Lane(q) = Total(q) + IF q = p THEN 1 ELSE 0
        /\ audited \in Nat /\ Limit \in Nat /\ InAll = audited + 1
        /\ InAll <= Limit /\ (Open => InAll < Limit)
    BY <1>1, LaneIs DEF Inv, Fits
  <2>2. /\ \A q \in Principals : Lane(q)' = Total(q)'
        /\ InAll' = audited'
    <3>1. \A q \in Principals : lanes'[q].queued \in Nat /\ lanes'[q].denied \in Nat
      BY <1>11, LimitAssumption DEF Counts
    <3>2. audited' \in Nat
      BY <1>11, LimitAssumption
    <3> QED BY <1>4, <3>1, <3>2 DEF Lane, InAll, Active, Total
  <2>3. \A q \in Principals : Lane(q)' = Lane(q)
    BY <1>11, <2>1, <2>2
  <2>4. InAll' = InAll /\ (Open' => Open)
    BY <1>1, <1>11, <2>1, <2>2 DEF Open
  <2> QED BY <2>1, <2>3, <2>4 DEF Fits
<1>14. Uniform' /\ Numbered(mechanics)'
  <2>1. Numbered(mechanics)
    BY DEF Inv
  <2>2. Numbered(mechanics)'
    BY <1>1, <1>3, <1>7, <2>1 DEF Numbered
  <2> QED BY <1>1, <2>2 DEF Uniform
<1>15. /\ Authorized' = Authorized \cup {s} /\ Terminal' = Terminal
       /\ s \notin Authorized
  BY <1>3, <1>7, <1>10 DEF Authorized, Terminal
<1>16. Ordered'
  <2>1. Ordered
    BY DEF Inv
  <2>2. \A x \in Terminal : x < s
    BY <1>3 DEF Terminal
  <2> QED BY <1>1, <1>3, <1>7, <1>15, <2>1, <2>2 DEF Ordered
<1>17. ReservationHeld'
  <2>1. \A e \in Decisions : decisions'[e] # "reserved"
    BY <1>5, <1>9
  <2> QED BY <1>4, <2>1 DEF ReservationHeld
<1>18. AcceptedIsPending'
  <2>1. Waiting(mechanics)
    <3>1. Open
      BY <1>1, FlagsIs DEF Open
    <3> QED BY <1>1, <1>3, <3>1, InvWaiting
  <2>2. \A x \in Authorized' : x \in mechanics'.pending /\ cells'[x].tick = mechanics'.tick
    <3>1. \A x \in Authorized : x \in DOMAIN cells
      BY DEF Authorized
    <3> QED BY <1>3, <1>7, <1>10, <1>15, <2>1, <3>1 DEF Waiting
  <2> QED BY <2>2 DEF AcceptedIsPending
<1>19. ResultsExact'
  <2>1. \A q \in Principals : Of(q, Terminal)' = Of(q, Terminal)
    <3>1. \A x \in Terminal : x \in DOMAIN cells
      BY DEF Terminal
    <3> QED BY <1>7, <1>15, <3>1 DEF Of
  <2>2. Open /\ ~Stepping("publishing")
    BY <1>1, <1>2, FlagsIs DEF Open
  <2> QED BY <1>1, <2>1, <2>2 DEF Inv, ResultsExact
<1>20. Joined'
  <2>1. Joined
    BY DEF Inv
  <2>2. Committed' = Committed \cup {r} /\ r \notin Committed
    BY <1>2, <1>5, <1>6, <1>8 DEF Committed
  <2>3. \A q \in Committed :
          /\ q # r /\ requests'[q] = requests[q]
          /\ requests[q].sequence \in DOMAIN cells /\ requests[q].sequence # s
    BY <1>3, <1>8, <2>1, <2>2 DEF Joined, JoinExact, Committed
  <2>4. \A q \in Committed' :
          LET n == requests'[q].sequence
          IN /\ n \in DOMAIN cells'
             /\ cells'[n].request = q
             /\ cells'[n].principal = requests'[q].principal
             /\ cells'[n].decision = requests'[q].decision
             /\ cells'[n].tick = requests'[q].tick
    <3> TAKE q \in Committed'
    <3>1. CASE q = r
      BY <1>7, <1>8, <1>10, <3>1
    <3>2. CASE q \in Committed
      BY <1>7, <2>1, <2>3, <3>2 DEF Joined, JoinExact
    <3> QED BY <2>2, <3>1, <3>2
  <2>5. \A x \in DOMAIN cells' : requests'[cells'[x].request] # None
                                 /\ requests'[cells'[x].request].sequence = x
    <3> TAKE x \in DOMAIN cells'
    <3>1. CASE x = s
      BY <1>6, <1>7, <1>8, <1>10, <3>1
    <3>2. CASE x \in DOMAIN cells
      <4>1. cells[x].request \in Requests /\ cells'[x] = cells[x]
        BY <1>1, <1>7, <3>2 DEF TypeOK, Cell
      <4>2. requests[cells[x].request] # None
        BY <2>1, <3>2 DEF Joined, JoinExact
      <4> QED BY <1>5, <1>8, <2>1, <3>2, <4>1, <4>2 DEF Joined
    <3> QED BY <1>7, <3>1, <3>2
  <2>6. \A q \in Principals : lanes'[q].queued = Cardinality(Of(q, DOMAIN cells)')
    <3> TAKE q \in Principals
    <3>1. Of(q, DOMAIN cells)' = Of(q, DOMAIN cells) \cup (IF q = p THEN {s} ELSE {})
      BY <1>7, <1>10 DEF Of
    <3>2. s \notin Of(q, DOMAIN cells) /\ Of(q, DOMAIN cells) \subseteq Sequences
      BY <1>1, <1>3 DEF Of, TypeOK
    <3>3. IsFiniteSet(Of(q, DOMAIN cells))
      BY <3>2, EnumerationExists, BoundAssumption DEF Sequences
    <3>4. Cardinality(Of(q, DOMAIN cells) \cup {s}) = Cardinality(Of(q, DOMAIN cells)) + 1
      BY <3>2, <3>3, FS_AddElement
    <3>5. lanes[q].queued = Cardinality(Of(q, DOMAIN cells)) /\ lanes[q].queued \in Nat
      BY <1>1, <2>1, LimitAssumption DEF Joined, JoinExact, TypeOK, Counts
    <3>6. CASE q = p
      BY <1>11, <3>1, <3>4, <3>5, <3>6
    <3>7. CASE q # p
      <4>1. Of(q, DOMAIN cells)' = Of(q, DOMAIN cells)
        BY <3>1, <3>7
      <4>2. lanes'[q].queued = lanes[q].queued
        BY <1>11, <3>5, <3>7
      <4> QED BY <3>5, <4>1, <4>2
    <3> QED BY <3>6, <3>7
  <2>7. {e \in Decisions : decisions'[e] = "consumed"} = {cells'[x].decision : x \in DOMAIN cells'}
    <3>1. {e \in Decisions : decisions[e] = "consumed"} = {cells[x].decision : x \in DOMAIN cells}
      BY <2>1 DEF Joined, JoinExact
    <3>2. {cells'[x].decision : x \in DOMAIN cells'}
            = {cells[x].decision : x \in DOMAIN cells} \cup {d}
      BY <1>7, <1>10
    <3>3. {e \in Decisions : decisions'[e] = "consumed"}
            = {e \in Decisions : decisions[e] = "consumed"} \cup {d}
      BY <1>2, <1>9
    <3> QED BY <3>1, <3>2, <3>3
  <2>8. \A x, y \in DOMAIN cells' : cells'[x].decision = cells'[y].decision => x = y
    <3>1. {e \in Decisions : decisions[e] = "consumed"} = {cells[x].decision : x \in DOMAIN cells}
      BY <2>1 DEF Joined, JoinExact
    <3>2. \A x \in DOMAIN cells : cells[x].decision # d
      BY <1>5, <3>1
    <3>3. \A x, y \in DOMAIN cells : cells[x].decision = cells[y].decision => x = y
      BY <2>1 DEF Joined, JoinExact
    <3> QED BY <1>7, <1>10, <3>2, <3>3
  <2>9. JoinExact'
    BY <2>4, <2>5, <2>6, <2>7, <2>8 DEF JoinExact
  <2> QED BY <2>5, <2>9 DEF Joined
<1> QED BY <1>4, <1>12, <1>13, <1>14, <1>16, <1>17, <1>18, <1>19, <1>20 DEF Inv

\* What is written into a cell after its act changes neither whose action it is nor
\* its tick.
Stamped ==
  /\ DOMAIN cells' = DOMAIN cells
  /\ \A s \in DOMAIN cells :
       /\ cells'[s] \in Cell
       /\ cells'[s].principal = cells[s].principal
       /\ cells'[s].request = cells[s].request
       /\ cells'[s].decision = cells[s].decision
       /\ cells'[s].tick = cells[s].tick

\* The records of an act then still agree.
LEMMA StampedIs ==
  ASSUME Inv, Stamped, UNCHANGED <<requests, lanes, decisions>>
  PROVE  /\ Joined'
         /\ \A p \in Principals : \A seqs \in SUBSET DOMAIN cells : Of(p, seqs)' = Of(p, seqs)
<1>1. \A p \in Principals : \A seqs \in SUBSET DOMAIN cells : Of(p, seqs)' = Of(p, seqs)
  BY DEF Stamped, Of
<1>2. Joined
  BY DEF Inv
<1>3. Committed' = Committed
  BY DEF Committed
<1>4. \A p \in Principals : Of(p, DOMAIN cells)' = Of(p, DOMAIN cells)
  BY DEF Stamped, Of
<1>5. {cells'[s].decision : s \in DOMAIN cells'} = {cells[s].decision : s \in DOMAIN cells}
  BY DEF Stamped
<1>6. \A r \in Committed' :
        LET s == requests'[r].sequence
        IN /\ s \in DOMAIN cells'
           /\ cells'[s].request = r
           /\ cells'[s].principal = requests'[r].principal
           /\ cells'[s].decision = requests'[r].decision
           /\ cells'[s].tick = requests'[r].tick
  BY <1>2, <1>3 DEF Stamped, Joined, JoinExact
<1>7. \A s \in DOMAIN cells' : requests'[cells'[s].request] # None
                               /\ requests'[cells'[s].request].sequence = s
  BY <1>2 DEF Stamped, Joined, JoinExact
<1>8. \A p \in Principals : lanes'[p].queued = Cardinality(Of(p, DOMAIN cells)')
  BY <1>2, <1>4 DEF Joined, JoinExact
<1>9. \A s, t \in DOMAIN cells' : cells'[s].decision = cells'[t].decision => s = t
  BY <1>2 DEF Stamped, Joined, JoinExact
<1>10. {d \in Decisions : decisions'[d] = "consumed"} = {cells'[s].decision : s \in DOMAIN cells'}
  BY <1>2, <1>5 DEF Joined, JoinExact
<1>11. JoinExact'
  BY <1>6, <1>7, <1>8, <1>9, <1>10 DEF JoinExact
<1> QED BY <1>1, <1>7, <1>11 DEF Joined

\* What a step with results does, whether or not it can keep them.
LEMMA StepReturnsIs ==
  ASSUME Inv, NEW applied \in SUBSET Sequences, StepReturns(applied)
  PROVE  /\ Stepping("provider") /\ ~Acting /\ ~Reading /\ ~Idle
         /\ ~Stepping("publishing") /\ ~Stepping("projecting")
         /\ op \in StepOperation /\ op.queued = Authorized /\ ~mechanics.failed
         /\ op.live => Open
         /\ mechanics' \in Session /\ mechanics'.tick = mechanics.tick + 1
         /\ mechanics'.pending = {} /\ ~mechanics'.failed
         /\ mechanics'.nextSequence = mechanics.nextSequence
         /\ controller' = {} /\ Numbered(mechanics)'
<1>1. /\ TypeOK /\ StepHeld /\ Numbered(mechanics) /\ mechanics \in Session
      /\ Stepping("provider")
      /\ mechanics' = [mechanics EXCEPT !.tick = @ + 1, !.pending = {}]
      /\ controller' = controller \ mechanics.pending
  BY DEF Inv, TypeOK, StepReturns
<1>2. /\ ~Acting /\ ~Reading /\ ~Idle /\ ~Stepping("publishing") /\ ~Stepping("projecting")
      /\ op \in StepOperation /\ op.queued = Authorized /\ ~mechanics.failed
      /\ op.live => Open
      /\ mechanics.tick < MaxTick
  BY <1>1, OneKind, OpIs DEF StepHeld, Stepping
<1>3. mechanics.tick + 1 \in 0 .. MaxTick
  BY <1>1, <1>2, BoundAssumption DEF Session
<1>4. mechanics' = [mechanics EXCEPT !.tick = mechanics.tick + 1, !.pending = {}]
  BY <1>1
<1> DEFINE next == mechanics.tick + 1
<1>5. /\ mechanics' = [mechanics EXCEPT !.tick = next, !.pending = {}]
      /\ next \in 0 .. MaxTick
  BY <1>3, <1>4
<1> HIDE DEF next
<1>6. /\ mechanics' \in Session /\ mechanics'.tick = next
      /\ mechanics'.pending = {} /\ mechanics'.failed = mechanics.failed
      /\ mechanics'.nextSequence = mechanics.nextSequence
  BY <1>1, <1>5 DEF Session
<1>7. controller' = {}
  BY <1>1 DEF Numbered
<1>8. DOMAIN cells' = DOMAIN cells
  BY DEF StepReturns
<1>9. Numbered(mechanics)'
  BY <1>1, <1>6, <1>7, <1>8 DEF Numbered
<1> QED BY <1>1, <1>2, <1>6, <1>7, <1>9 DEF next

\* The results are not those of the reserved actions: the world shuts.
LEMMA NotJoinedInv ==
  ASSUME Inv, NEW applied \in SUBSET Sequences, StepReturns(applied),
         ~Joins(mechanics.pending \ controller)
  PROVE  Inv'
<1>1. /\ TypeOK /\ Uniform /\ Joined /\ Ordered /\ ReservationHeld
      /\ op' = None /\ reentered' = FALSE /\ closed' = AllClosed
      /\ UNCHANGED <<requests, decisions, lanes, audited, cells, results>>
  BY DEF Inv, StepReturns, admission, StepClosesWorld, EndStep
<1>2. Idle' /\ ~Acting' /\ ~Reading' /\ (\A phase : ~Stepping(phase)') /\ ActHeld' /\ StepHeld'
  BY <1>1, Ended
<1>3. ~Acting /\ mechanics' \in Session /\ controller' = {} /\ Numbered(mechanics)'
  BY StepReturnsIs
<1>4. Uniform' /\ ~Open'
  BY <1>1, FlagsIs DEF Uniform, Open
<1>5. TypeOK'
  BY <1>1, <1>3, FlagsIs DEF TypeOK
<1>6. Fits'
  BY <1>1, <1>2, <1>4, <1>5, FitsIs
<1>7. ReservationHeld' /\ Joined'
  BY <1>1, <1>2, <1>3 DEF ReservationHeld, Joined, JoinExact, Committed, Of
<1>8. Ordered'
  BY <1>1, <1>3 DEF Ordered, Terminal, Authorized
<1>9. AcceptedIsPending' /\ ResultsExact'
  BY <1>4 DEF AcceptedIsPending, ResultsExact
<1> QED BY <1>2, <1>3, <1>4, <1>5, <1>6, <1>7, <1>8, <1>9 DEF Inv

\* A settled cell differs in its state only.
LEMMA SettledIs ==
  ASSUME TypeOK, NEW s \in DOMAIN cells, NEW applied
  PROVE  /\ Settled(s, applied) \in Cell
         /\ Settled(s, applied).principal = cells[s].principal
         /\ Settled(s, applied).request = cells[s].request
         /\ Settled(s, applied).decision = cells[s].decision
         /\ Settled(s, applied).tick = cells[s].tick
         /\ Settled(s, applied).state \in {"applied", "rejected"}
<1>1. cells[s] \in Cell
  BY DEF TypeOK
<1> DEFINE state == IF s \in applied THEN "applied" ELSE "rejected"
<1>2. state \in {"applied", "rejected"}
  OBVIOUS
<1>3. Settled(s, applied) = [cells[s] EXCEPT !.state = state]
  BY DEF Settled
<1> HIDE DEF state
<1> QED BY <1>1, <1>2, <1>3 DEF Cell

\* The results are exactly those of the reserved actions: all of them are terminal.
LEMMA JoinsIs ==
  ASSUME Inv, NEW applied \in SUBSET Sequences, StepReturns(applied),
         Joins(mechanics.pending \ controller)
  PROVE  /\ Stamped /\ Open
         /\ \A s \in DOMAIN cells \ op.queued : cells'[s] = cells[s]
         /\ \A s \in op.queued : cells'[s].state \in {"applied", "rejected"}
         /\ Authorized' = {} /\ Terminal' = Terminal \cup op.queued
         /\ op.queued = mechanics.pending \ controller
<1>1. /\ TypeOK /\ op.queued = Authorized /\ op.live /\ Open
      /\ op.queued = mechanics.pending \ controller
  BY StepReturnsIs DEF Inv, Joins
<1>2. cells' = [s \in DOMAIN cells |->
                  IF s \in op.queued THEN Settled(s, applied) ELSE cells[s]]
  BY DEF StepReturns
<1>3. op.queued \subseteq DOMAIN cells
  BY <1>1 DEF Authorized
<1>4. /\ \A s \in DOMAIN cells : cells[s] \in Cell
      /\ DOMAIN cells' = DOMAIN cells
      /\ \A s \in op.queued : cells'[s] = Settled(s, applied)
      /\ \A s \in DOMAIN cells \ op.queued : cells'[s] = cells[s]
  BY <1>1, <1>2, <1>3 DEF TypeOK
<1>5. Stamped
  <2>1. \A s \in op.queued :
          /\ cells'[s] \in Cell
          /\ cells'[s].principal = cells[s].principal
          /\ cells'[s].request = cells[s].request
          /\ cells'[s].decision = cells[s].decision
          /\ cells'[s].tick = cells[s].tick
    BY <1>1, <1>3, <1>4, SettledIs
  <2>2. \A s \in DOMAIN cells : s \in op.queued \/ s \in DOMAIN cells \ op.queued
    OBVIOUS
  <2> QED BY <1>4, <2>1, <2>2 DEF Stamped
<1>6. \A s \in op.queued : cells'[s].state \in {"applied", "rejected"}
  BY <1>1, <1>3, <1>4, SettledIs
<1>7. /\ \A s \in DOMAIN cells : cells[s].state \in {"authorized", "applied", "rejected"}
      /\ \A s \in DOMAIN cells : s \in op.queued <=> cells[s].state = "authorized"
  BY <1>1, <1>4 DEF Cell, Authorized
<1>8. Authorized' = {}
  BY <1>4, <1>6, <1>7 DEF Authorized
<1>9. Terminal' = Terminal \cup op.queued
  BY <1>3, <1>4, <1>6 DEF Terminal
<1> QED BY <1>1, <1>4, <1>5, <1>6, <1>8, <1>9

\* The world goes on with everything settled.
LEMMA JoinedInv ==
  ASSUME Inv, NEW applied \in SUBSET Sequences, StepReturns(applied),
         Joins(mechanics.pending \ controller)
  PROVE  Inv'
<1>1. /\ TypeOK /\ Uniform /\ Ordered /\ ReservationHeld /\ ResultsExact
      /\ closed' = closed /\ applied \subseteq op.queued
      /\ UNCHANGED <<requests, decisions, lanes, audited, results>>
      /\ \/ op.queued = {} /\ op' = None /\ reentered' = FALSE
         \/ /\ op.queued # {} /\ reentered' = reentered
            /\ op' = [op EXCEPT !.phase = "publishing", !.live = FALSE, !.todo = applied]
  BY DEF Inv, StepReturns, admission, EndStep
<1>2. /\ Stepping("provider") /\ ~Acting /\ ~Stepping("publishing") /\ op \in StepOperation
      /\ mechanics' \in Session /\ ~mechanics'.failed
      /\ controller' = {} /\ Numbered(mechanics)' /\ op.queued = Authorized
  BY StepReturnsIs
<1>3. /\ Stamped /\ Open
      /\ Authorized' = {} /\ Terminal' = Terminal \cup op.queued
  BY JoinsIs
<1>4. /\ Joined'
      /\ \A p \in Principals : \A seqs \in SUBSET DOMAIN cells : Of(p, seqs)' = Of(p, seqs)
  BY <1>1, <1>3, StampedIs
<1>5. op' \in StepOperation \cup {None} /\ ~Acting' /\ ~Reading'
      /\ (Stepping("publishing")' => op.queued # {} /\ op'.queued = op.queued /\ op'.todo = applied)
      /\ (op.queued # {} => Stepping("publishing")')
      /\ ~Stepping("provider")' /\ ~Stepping("projecting")'
  <2>1. CASE op' = None
    <3>1. op.queued = {}
      <4>1. CASE op' = [op EXCEPT !.phase = "publishing", !.live = FALSE, !.todo = applied]
        <5>1. op' \in StepOperation
          BY <1>2, <4>1 DEF StepOperation
        <5> QED BY <2>1, <5>1, NoneAssumption
      <4> QED BY <1>1, <4>1
    <3> QED BY <2>1, <3>1, Ended
  <2>2. CASE /\ op.queued # {}
             /\ op' = [op EXCEPT !.phase = "publishing", !.live = FALSE, !.todo = applied]
    <3>1. /\ op' \in StepOperation /\ op'.phase = "publishing"
          /\ op'.queued = op.queued /\ op'.todo = applied
      BY <1>2, <2>2 DEF StepOperation
    <3>2. ~Acting' /\ ~Reading' /\ ~Idle' /\ (\A phase : Stepping(phase)' <=> phase = "publishing")
      BY <3>1, NewStep
    <3> QED BY <2>2, <3>1, <3>2
  <2> QED BY <1>1, <2>1, <2>2
<1>6. TypeOK'
  <2>1. DOMAIN cells' \subseteq Sequences /\ \A s \in DOMAIN cells' : cells'[s] \in Cell
    BY <1>1, <1>3 DEF Stamped, TypeOK
  <2>2. op' \in ActOperation \cup ReadOperation \cup StepOperation \cup {None}
        /\ reentered' \in BOOLEAN /\ controller' \subseteq Sequences
    BY <1>1, <1>2, <1>5 DEF TypeOK
  <2> QED BY <1>1, <1>2, <2>1, <2>2 DEF TypeOK
<1>7. Fits'
  BY <1>1, <1>5, <1>6, FitsIs DEF Open
<1>8. Uniform' /\ ReservationHeld'
  BY <1>1, <1>2, <1>5 DEF Uniform, ReservationHeld
<1>9. Ordered'
  BY <1>2, <1>3 DEF Ordered
<1>10. ActHeld'
  BY <1>5 DEF ActHeld
<1>11. Terminal \subseteq DOMAIN cells /\ op.queued \subseteq DOMAIN cells
       /\ Terminal \cap op.queued = {}
  BY <1>2 DEF Terminal, Authorized
<1>12. StepHeld'
  <2>1. ASSUME Stepping("publishing")'
        PROVE  /\ op'.queued \subseteq Terminal' /\ op'.todo \subseteq op'.queued
               /\ Terminal' \ op'.queued = Terminal
    BY <1>1, <1>3, <1>5, <1>11, <2>1
  <2>2. ASSUME Stepping("publishing")', Open', NEW p \in Principals
        PROVE  InOrder(results'[p]) /\ Range(results'[p]) = Of(p, Terminal \ op.queued)'
    <3>1. Of(p, Terminal \ op.queued)' = Of(p, Terminal)
      <4>2. Terminal' \ op'.queued = Terminal
        BY <2>1, <2>2
      <4>3. \A s \in Terminal : s \in DOMAIN cells /\ cells'[s].principal = cells[s].principal
        BY <1>3, <1>11 DEF Stamped
      <4> QED BY <4>2, <4>3 DEF Of
    <3>2. InOrder(results[p]) /\ Range(results[p]) = Of(p, Terminal)
      BY <1>1, <1>2, <1>3 DEF ResultsExact
    <3> QED BY <1>1, <3>1, <3>2
  <2>3. ASSUME Stepping("publishing")', NEW s \in Terminal, NEW t \in op.queued
        PROVE  s < t
    BY <1>1, <1>2 DEF Ordered
  <2> QED BY <1>2, <1>3, <1>5, <2>1, <2>2, <2>3 DEF StepHeld
<1>13. AcceptedIsPending'
  BY <1>3 DEF AcceptedIsPending
<1>14. ResultsExact'
  <2> SUFFICES ASSUME ~Stepping("publishing")', NEW p \in Principals
               PROVE  InOrder(results'[p]) /\ Range(results'[p]) = Of(p, Terminal)'
    BY DEF ResultsExact
  <2>1. op.queued = {} /\ Terminal' = Terminal
    BY <1>3, <1>5
  <2>2. Of(p, Terminal)' = Of(p, Terminal)
    BY <1>3, <1>11, <2>1 DEF Of, Stamped
  <2> QED BY <1>1, <1>2, <1>3, <2>2 DEF ResultsExact
<1> QED BY <1>2, <1>4, <1>6, <1>7, <1>8, <1>9, <1>10, <1>12, <1>13, <1>14 DEF Inv

\* What publishing adds to each agent's results.
LEMMA PublishedIs ==
  ASSUME Inv, Stepping("publishing"), NEW p \in Principals
  PROVE  /\ Published[p] \in Seq(Sequences)
         /\ IsPrefix(results[p], Published[p])
         /\ Open => InOrder(Published[p]) /\ Range(Published[p]) = Of(p, Terminal)
<1>1. /\ TypeOK /\ StepHeld /\ op.queued \in SUBSET Sequences
      /\ op.queued \subseteq Terminal
      /\ \A s \in Terminal \ op.queued, t \in op.queued : s < t
  BY OpIs DEF Inv, StepHeld
<1> DEFINE new == Of(p, op.queued)
           back == Ascending(new)
           front == results[p]
<1>2. Published[p] = front \o back
  BY DEF Published
<1>3. new \subseteq Sequences /\ new \subseteq op.queued
  BY <1>1 DEF Of
<1>4. front \in Seq(Sequences)
  BY <1>1 DEF TypeOK
<1> HIDE DEF new
<1>5. back \in Seq(new) /\ InOrder(back) /\ Range(back) = new
  BY <1>3, AscendingIs
<1>6. back \in Seq(Sequences)
  BY <1>3, <1>5
<1> HIDE DEF back, front
<1>7. /\ front \o back \in Seq(Sequences)
      /\ Range(front \o back) = Range(front) \cup Range(back)
      /\ IsPrefix(front, front \o back)
      /\ /\ InOrder(front) /\ InOrder(back)
         /\ \A s \in Range(front), t \in Range(back) : s < t
         => InOrder(front \o back)
  BY <1>4, <1>6, Concatenated
<1>8. ASSUME Open
      PROVE  InOrder(Published[p]) /\ Range(Published[p]) = Of(p, Terminal)
  <2>1. InOrder(front) /\ Range(front) = Of(p, Terminal \ op.queued)
    BY <1>1, <1>8 DEF StepHeld, front
  <2>2. \A s \in Of(p, Terminal \ op.queued), t \in new : s < t
    BY <1>1, <1>3 DEF Of
  <2>3. Of(p, Terminal \ op.queued) \cup new = Of(p, Terminal)
    BY <1>1 DEF Of, new
  <2> QED BY <1>2, <1>5, <1>7, <2>1, <2>2, <2>3
<1> QED BY <1>2, <1>7, <1>8 DEF front

\* Publishing catches up with what is terminal, or the world shuts.
LEMMA PublishInv ==
  ASSUME Inv, PublishResults \/ PublishFails
  PROVE  Inv'
<1>1. /\ TypeOK /\ Uniform /\ ReservationHeld /\ StepHeld /\ ResultsExact
      /\ Joined /\ Ordered /\ Numbered(mechanics)
      /\ Stepping("publishing") /\ op \in StepOperation /\ mechanics \in Session
      /\ results' = results \/ results' = Published
      /\ UNCHANGED <<requests, decisions, lanes, audited, cells, mechanics, controller>>
  BY OpIs DEF Inv, PublishResults, PublishFails, admission, journal, TypeOK
<1>2. ~Acting /\ ~Reading /\ ~Stepping("provider") /\ ~Stepping("projecting")
  BY <1>1, OneKind DEF Stepping
<1>3. \/ /\ closed' = AllClosed /\ op' = None /\ reentered' = FALSE
      \/ /\ closed' = closed /\ results' = Published
         /\ \/ op' = None /\ reentered' = FALSE
            \/ op' = [op EXCEPT !.phase = "projecting", !.post = mechanics]
               /\ reentered' = reentered
  BY DEF PublishResults, PublishFails, StepClosesWorld, EndStep
<1>4. results' \in [Principals -> Seq(Sequences)]
  <2>1. Published \in [Principals -> Seq(Sequences)]
    <3>1. Published = [p \in Principals |-> Published[p]]
      BY DEF Published
    <3>2. \A p \in Principals : Published[p] \in Seq(Sequences)
      BY <1>1, PublishedIs
    <3> QED BY <3>1, <3>2
  <2> QED BY <1>1, <2>1 DEF TypeOK
<1>5. /\ closed' \in {closed, AllClosed} /\ Uniform' /\ (Open' => Open /\ closed' = closed)
      /\ closed' \in [runtime : BOOLEAN, ledger : BOOLEAN, journal : BOOLEAN]
  BY <1>1, <1>3, ClosedIs
<1>6. /\ op' \in StepOperation \cup {None} /\ reentered' \in BOOLEAN
      /\ ~Acting' /\ ~Reading' /\ ~Stepping("provider")' /\ ~Stepping("publishing")'
      /\ Stepping("projecting")' => op'.post = mechanics
  <2>1. reentered' \in BOOLEAN
    BY <1>1, <1>3 DEF TypeOK
  <2>2. CASE op' = None
    BY <2>2, <2>1, Ended
  <2>3. CASE op' = [op EXCEPT !.phase = "projecting", !.post = mechanics]
    <3>1. op' \in StepOperation /\ op'.phase = "projecting" /\ op'.post = mechanics
      BY <1>1, <2>3 DEF StepOperation
    <3>2. ~Acting' /\ ~Reading' /\ (\A phase : Stepping(phase)' <=> phase = "projecting")
      BY <3>1, NewStep
    <3> QED BY <2>1, <3>1, <3>2
  <2> QED BY <1>3, <2>2, <2>3
<1>7. TypeOK'
  BY <1>1, <1>4, <1>5, <1>6 DEF TypeOK
<1>8. Fits'
  BY <1>1, <1>5, <1>6, <1>7, FitsIs
<1>9. ReservationHeld' /\ Joined' /\ Numbered(mechanics)' /\ ActHeld'
  BY <1>1, <1>2, <1>6 DEF ReservationHeld, Joined, JoinExact, Committed, Of, Numbered, ActHeld
<1>10. Authorized' = {} /\ Terminal' = Terminal
  BY <1>1 DEF Authorized, Terminal, StepHeld
<1>11. Ordered'
  BY <1>1, <1>10 DEF Ordered
<1>12. StepHeld'
  <2>1. ~mechanics.failed
    BY <1>1 DEF StepHeld
  <2>2. Restorable(mechanics)'
    BY <1>1, <1>10, <2>1 DEF Restorable, Numbered, Waiting
  <2>3. Stepping("projecting")' => Restorable(op.post)'
    BY <1>1, <1>6, <2>2
  <2> QED BY <1>6, <1>10, <2>3 DEF StepHeld
<1>13. AcceptedIsPending'
  BY <1>10 DEF AcceptedIsPending
<1>14. ResultsExact'
  <2> SUFFICES ASSUME Open', NEW p \in Principals
               PROVE  InOrder(results'[p]) /\ Range(results'[p]) = Of(p, Terminal)'
    BY DEF ResultsExact
  <2>1. Open /\ results' = Published
    BY <1>3, <1>5, FlagsIs DEF Open
  <2>2. Of(p, Terminal)' = Of(p, Terminal)
    BY <1>1, <1>10 DEF Of
  <2> QED BY <1>1, <2>1, <2>2, PublishedIs
<1> QED BY <1>5, <1>7, <1>8, <1>9, <1>11, <1>12, <1>13, <1>14 DEF Inv

\* A projected cell differs in its projection only.
LEMMA ProjectIs ==
  ASSUME Inv, NEW seqs, NEW projection \in {"not_configured", "projected", "failed"},
         Project(seqs, projection)
  PROVE  Stamped /\ \A s \in DOMAIN cells : cells'[s].state = cells[s].state
<1>1. \A s \in DOMAIN cells : cells[s] \in Cell
  BY DEF Inv, TypeOK
<1>2. cells' = [s \in DOMAIN cells |->
                  IF s \in seqs THEN [cells[s] EXCEPT !.projection = projection]
                  ELSE cells[s]]
  BY DEF Project
<1>3. ASSUME NEW s \in DOMAIN cells
      PROVE  /\ cells'[s] \in Cell
             /\ cells'[s].principal = cells[s].principal
             /\ cells'[s].request = cells[s].request
             /\ cells'[s].decision = cells[s].decision
             /\ cells'[s].tick = cells[s].tick
             /\ cells'[s].state = cells[s].state
  <2>1. CASE s \in seqs
    <3>1. cells'[s] = [cells[s] EXCEPT !.projection = projection]
      BY <1>2, <2>1
    <3> QED BY <1>1, <3>1 DEF Cell
  <2>2. CASE s \notin seqs
    BY <1>1, <1>2, <2>2
  <2> QED BY <2>1, <2>2
<1>4. DOMAIN cells' = DOMAIN cells
  BY <1>2
<1> QED BY <1>3, <1>4 DEF Stamped

\* A projection step settles nothing and takes nothing back.
LEMMA ProjectionInv ==
  ASSUME Inv, Stepping("projecting"), Stamped,
         \A s \in DOMAIN cells : cells'[s].state = cells[s].state,
         mechanics' \in {mechanics, op.post}, closed' \in {closed, AllClosed},
         \/ op' = None
         \/ op' \in StepOperation /\ op'.phase = "projecting" /\ op'.post = op.post,
         reentered' \in BOOLEAN,
         UNCHANGED <<requests, decisions, lanes, audited, controller, results>>
  PROVE  Inv'
<1>1. /\ TypeOK /\ Uniform /\ ReservationHeld /\ StepHeld /\ ResultsExact
      /\ Ordered /\ Numbered(mechanics) /\ op \in StepOperation /\ mechanics \in Session
  BY OpIs DEF Inv, TypeOK
<1>2. ~Acting /\ ~Reading /\ ~Stepping("provider") /\ ~Stepping("publishing")
  BY OneKind DEF Stepping
<1>3. Authorized = {} /\ Restorable(op.post) /\ op.post \in Session
  BY <1>1 DEF StepHeld, Restorable
<1>4. /\ Uniform' /\ (Open' => Open /\ closed' = closed)
      /\ closed' \in [runtime : BOOLEAN, ledger : BOOLEAN, journal : BOOLEAN]
  BY <1>1, ClosedIs
<1>5. /\ ~Acting' /\ ~Reading' /\ ~Stepping("provider")' /\ ~Stepping("publishing")'
      /\ op' \in StepOperation \cup {None}
      /\ Stepping("projecting")' => op'.post = op.post
  <2>1. CASE op' = None
    BY <2>1, Ended
  <2>2. CASE op' \in StepOperation /\ op'.phase = "projecting" /\ op'.post = op.post
    BY <2>2, NewStep
  <2> QED BY <2>1, <2>2
<1>6. mechanics' \in Session /\ Numbered(mechanics)' /\ mechanics'.tick = mechanics.tick
  <2>1. DOMAIN cells' = DOMAIN cells
    BY DEF Stamped
  <2>2. CASE mechanics' = mechanics
    BY <1>1, <2>1, <2>2 DEF Numbered
  <2>3. CASE mechanics' = op.post
    BY <1>3, <2>1, <2>3 DEF Numbered, Restorable
  <2> QED BY <2>2, <2>3
<1>7. TypeOK'
  <2>1. DOMAIN cells' \subseteq Sequences /\ \A s \in DOMAIN cells' : cells'[s] \in Cell
    BY <1>1 DEF Stamped, TypeOK
  <2> QED BY <1>1, <1>4, <1>5, <1>6, <2>1 DEF TypeOK
<1>8. Fits'
  BY <1>1, <1>4, <1>5, <1>7, FitsIs
<1>9. /\ Joined'
      /\ \A p \in Principals : \A seqs \in SUBSET DOMAIN cells : Of(p, seqs)' = Of(p, seqs)
  BY StampedIs
<1>10. ReservationHeld' /\ ActHeld'
  BY <1>1, <1>2, <1>5 DEF ReservationHeld, ActHeld
<1>11. Authorized' = {} /\ Terminal' = Terminal
  BY <1>3 DEF Authorized, Terminal, Stamped
<1>12. Ordered'
  BY <1>1, <1>11 DEF Ordered, Stamped
<1>13. StepHeld'
  <2>1. Stepping("projecting")' => Restorable(op.post)'
    BY <1>3, <1>5, <1>6, <1>11 DEF Restorable, Numbered, Waiting, Stamped
  <2> QED BY <1>5, <1>11, <2>1 DEF StepHeld
<1>14. AcceptedIsPending'
  BY <1>11 DEF AcceptedIsPending
<1>15. ResultsExact'
  <2> SUFFICES ASSUME Open', NEW p \in Principals
               PROVE  InOrder(results'[p]) /\ Range(results'[p]) = Of(p, Terminal)'
    BY DEF ResultsExact
  <2>1. Of(p, Terminal)' = Of(p, Terminal)
    <3>1. \A s \in Terminal : s \in DOMAIN cells /\ cells'[s].principal = cells[s].principal
      BY DEF Stamped, Terminal
    <3> QED BY <1>11, <3>1 DEF Of
  <2> QED BY <1>1, <1>2, <1>4, <2>1 DEF ResultsExact
<1> QED BY <1>4, <1>6, <1>7, <1>8, <1>9, <1>10, <1>12, <1>13, <1>14, <1>15 DEF Inv

\* Each way a projection can end.
LEMMA ProjectingInv ==
  ASSUME Inv,
         \/ \E projection \in {"projected", "not_configured"} : ProjectAction(projection)
         \/ ProjectionFails \/ ProjectionReentered
  PROVE  Inv'
<1>1. /\ Stepping("projecting") /\ op \in StepOperation /\ op.todo \in SUBSET Sequences
      /\ mechanics' \in {mechanics, op.post} /\ closed' \in {closed, AllClosed}
      /\ reentered' \in BOOLEAN
      /\ UNCHANGED <<requests, decisions, lanes, audited, controller, results>>
  <2>1. Stepping("projecting") /\ TypeOK
    BY DEF Inv, ProjectAction, ProjectionFails, ProjectionReentered
  <2>2. /\ UNCHANGED <<requests, decisions, lanes, audited, controller, results>>
        /\ mechanics' \in {mechanics, op.post} /\ closed' \in {closed, AllClosed}
    BY DEF ProjectAction, ProjectionFails, ProjectionReentered, Restored, admission,
           StepClosesWorld, EndStep
  <2>3. reentered' \in BOOLEAN
    BY <2>1 DEF ProjectAction, ProjectionFails, ProjectionReentered, NextProjection,
                StepClosesWorld, EndStep, TypeOK
  <2> QED BY <2>1, <2>2, <2>3, OpIs
<1>2. Stamped /\ \A s \in DOMAIN cells : cells'[s].state = cells[s].state
  <2>1. CASE cells' = cells
    BY <2>1 DEF Stamped, Inv, TypeOK
  <2>2. ASSUME NEW seqs, NEW projection \in {"not_configured", "projected", "failed"},
               Project(seqs, projection)
        PROVE  Stamped /\ \A s \in DOMAIN cells : cells'[s].state = cells[s].state
    BY <2>2, ProjectIs
  <2>3. CASE ProjectionReentered
    BY <2>1, <2>2, <2>3 DEF ProjectionReentered
  <2>4. CASE ProjectionFails
    BY <2>2, <2>4 DEF ProjectionFails
  <2>5. CASE \E projection \in {"projected", "not_configured"} : ProjectAction(projection)
    BY <2>2, <2>5 DEF ProjectAction
  <2> QED BY <2>3, <2>4, <2>5
<1>3. \/ op' = None
      \/ op' \in StepOperation /\ op'.phase = "projecting" /\ op'.post = op.post
  <2>1. op' = None \/ op' = [op EXCEPT !.todo = @ \ {Min(@)}]
    BY DEF ProjectAction, ProjectionFails, ProjectionReentered, NextProjection,
           StepClosesWorld, EndStep
  <2> DEFINE rest == op.todo \ {Min(op.todo)}
  <2>2. op' = None \/ op' = [op EXCEPT !.todo = rest]
    BY <2>1
  <2>3. rest \in SUBSET Sequences
    BY <1>1
  <2>4. op.phase = "projecting"
    BY <1>1 DEF Stepping
  <2> HIDE DEF rest
  <2> QED BY <1>1, <2>2, <2>3, <2>4 DEF StepOperation
<1> QED BY <1>1, <1>2, <1>3, ProjectionInv

\* A recovered world has every store as it was captured.
LEMMA RecoverIs ==
  ASSUME Inv, Recover
  PROVE  UNCHANGED <<closed, requests, lanes, audited, cells, decisions, mechanics,
                     controller, results, op>>
<1>1. /\ TypeOK /\ Uniform /\ Ordered /\ Numbered(mechanics)
      /\ op = None /\ ~mechanics.failed /\ Related(Captured) /\ RestoreWorld(Captured)
  BY DEF Inv, Recover, Captures, Idle
<1> DEFINE c == Captured
<1>2. /\ c.dynamics.tick = mechanics.tick /\ c.dynamics.next = mechanics.nextSequence
      /\ c.dynamics.pending = mechanics.pending
      /\ c.decisions = decisions /\ c.results = results
      /\ c.journal.closed = closed.journal /\ c.journal.lanes = lanes
      /\ c.journal.audited = audited /\ c.journal.cells = cells
      /\ c.requests.closed = closed.ledger
      /\ c.requests.records = [r \in Committed |-> requests[r]]
  BY DEF Captured
<1>3. RestoreWorld(c) /\ DynamicsRelated(c)
  BY <1>1 DEF Related
<1> HIDE DEF c
<1>4. /\ decisions' = decisions /\ lanes' = lanes /\ audited' = audited /\ cells' = cells
      /\ results' = results /\ op' = None /\ controller' = {}
      /\ closed' = IF closed.journal THEN AllClosed ELSE AllOpen
      /\ mechanics' = [tick |-> mechanics.tick, nextSequence |-> mechanics.nextSequence,
                       pending |-> mechanics.pending, failed |-> FALSE]
      /\ requests' = [r \in Requests |-> IF r \in DOMAIN c.requests.records
                                         THEN c.requests.records[r] ELSE None]
  BY <1>2, <1>3 DEF RestoreWorld, RestoredCells
<1>5. closed' = closed
  BY <1>1, <1>4, FlagsIs DEF Uniform
<1>6. requests' = requests
  <2>1. requests \in [Requests -> Receipt \cup {None}]
    BY <1>1 DEF TypeOK
  <2>2. \A r \in Requests : requests'[r] = requests[r]
    BY <1>2, <1>4 DEF Committed
  <2> QED BY <1>4, <2>1, <2>2
<1>7. mechanics' = mechanics
  BY <1>1, <1>4 DEF TypeOK, Session
<1>8. controller' = controller
  <2>1. Settling(c) = mechanics.pending
    BY <1>2, <1>3 DEF DynamicsRelated
  <2>2. mechanics.pending \subseteq DOMAIN cells
    BY <1>2, <2>1 DEF Settling
  <2>3. controller = {}
    BY <1>1, <2>2 DEF Numbered, Ordered
  <2> QED BY <1>4, <2>3
<1> QED BY <1>1, <1>4, <1>5, <1>6, <1>7, <1>8

\* A recovery keeps the invariant.
LEMMA RecoverInv ==
  ASSUME Inv, Recover
  PROVE  Inv'
<1>1. UNCHANGED <<closed, requests, lanes, audited, cells, decisions, mechanics,
                  controller, results, op>>
  BY RecoverIs
<1>2. reentered' \in BOOLEAN
  BY DEF Recover, RestoreWorld
<1> QED BY <1>1, <1>2, DenialInv DEF SameOperation

------------------------------------------------------------------------------
\* The invariant.

\* A new world satisfies it.
LEMMA InitInv == Init => Inv
<1> SUFFICES ASSUME Init PROVE Inv
  OBVIOUS
<1>1. /\ closed = AllOpen /\ requests = [r \in Requests |-> None]
      /\ lanes = [p \in Principals |-> [queued |-> 0, denied |-> 0]]
      /\ audited = 0 /\ cells = [s \in {} |-> None]
      /\ decisions = [d \in Decisions |-> "unissued"]
      /\ mechanics = [tick |-> 0, nextSequence |-> 1, pending |-> {}, failed |-> FALSE]
      /\ controller = {} /\ results = [p \in Principals |-> << >>]
      /\ op = None /\ reentered = FALSE
  BY DEF Init
<1>2. ~Acting /\ ~Reading /\ (\A phase : ~Stepping(phase)) /\ DOMAIN cells = {}
  BY <1>1 DEF Acting, Reading, Stepping
<1>3. /\ [queued |-> 0, denied |-> 0] \in Counts /\ mechanics \in Session
  BY <1>1, LimitAssumption, BoundAssumption DEF Counts, Session
<1>4. TypeOK
  <2>1. /\ closed \in [runtime : BOOLEAN, ledger : BOOLEAN, journal : BOOLEAN]
        /\ requests \in [Requests -> Receipt \cup {None}]
    BY <1>1, FlagsIs
  <2>2. lanes \in [Principals -> Counts] /\ audited \in 0 .. Limit
    BY <1>1, <1>3, LimitAssumption
  <2>3. results \in [Principals -> Seq(Sequences)]
    BY <1>1
  <2>4. decisions \in [Decisions -> {"unissued", "active", "reserved", "consumed"}]
    BY <1>1
  <2> QED BY <1>1, <1>2, <1>3, <2>1, <2>2, <2>3, <2>4 DEF TypeOK
<1>5. Fits
  <2>1. \A p \in Principals : Lane(p) = 0
    BY <1>1, <1>2 DEF Lane, Active
  <2>2. InAll = 0
    BY <1>1, <1>2 DEF InAll
  <2> QED BY <2>1, <2>2, LimitAssumption DEF Fits
<1>6. Authorized = {} /\ Terminal = {} /\ Committed = {}
  BY <1>1, <1>2 DEF Authorized, Terminal, Committed
<1>7. Joined
  <2>1. \A p \in Principals : Of(p, DOMAIN cells) = {} /\ Cardinality({}) = 0
    BY <1>2, FS_EmptySet DEF Of
  <2>2. \A p \in Principals : lanes[p].queued = 0
    BY <1>1
  <2>3. {d \in Decisions : decisions[d] = "consumed"} = {}
    BY <1>1
  <2>4. {cells[s].decision : s \in DOMAIN cells} = {}
    BY <1>2
  <2> QED BY <1>2, <1>6, <2>1, <2>2, <2>3, <2>4 DEF Joined, JoinExact
<1>8. Uniform /\ Numbered(mechanics) /\ Ordered /\ ReservationHeld
  BY <1>1, <1>2, <1>6 DEF Uniform, Numbered, Ordered, ReservationHeld
<1>9. ActHeld /\ StepHeld /\ AcceptedIsPending
  BY <1>2, <1>6 DEF ActHeld, StepHeld, AcceptedIsPending
<1>10. ResultsExact
  <2>1. \A p \in Principals : results[p] = << >> /\ DOMAIN << >> = {}
    BY <1>1
  <2>2. \A p \in Principals : Of(p, Terminal) = {}
    BY <1>6 DEF Of
  <2> QED BY <2>1, <2>2 DEF ResultsExact, InOrder, Range
<1> QED BY <1>4, <1>5, <1>7, <1>8, <1>9, <1>10 DEF Inv

\* Every step keeps it.
LEMMA NextInv == Inv /\ [CheckpointNext]_vars => Inv'
<1> SUFFICES ASSUME Inv, [CheckpointNext]_vars PROVE Inv'
  OBVIOUS
<1>1. CASE UNCHANGED vars
  <2>1. UNCHANGED <<closed, requests, lanes, audited, cells, decisions, mechanics,
                    controller, results, op, reentered>>
    BY <1>1 DEF vars
  <2> QED BY <2>1, DenialInv DEF SameOperation, Inv, TypeOK
<1>2. CASE Ingress
  BY <1>2, BeginReadInv, EndReadInv, ClaimInv, QueueControllerInv, DenyAtIngressInv,
     ExhaustRequestsInv, BeginActInv DEF Ingress
<1>3. CASE ActStage
  BY <1>3, ActQueuesInv, ActDeniedInv DEF ActStage
<1>4. CASE Callback
  BY <1>4, ReenterActInv, ReenterOtherInv, SurfaceMutatesInv DEF Callback
<1>5. CASE BeginStep \/ StepCannotBegin
  BY <1>5, BeginStepInv, StepEndsInv
<1>6. CASE StepStage
  BY <1>6, StepEndsInv, NotJoinedInv, JoinedInv, PublishInv, ProjectingInv DEF StepStage
<1>7. CASE Recover
  BY <1>7, RecoverInv
<1> QED BY <1>1, <1>2, <1>3, <1>4, <1>5, <1>6, <1>7 DEF CheckpointNext, Next

\* The invariant holds in every world, recovered ones included.
THEOREM InvAlways == CheckpointSpec => []Inv
<1> QED BY InitInv, NextInv, PTL DEF CheckpointSpec

\* The stores of a world agree with each other at every moment another caller could
\* look (act.ts, actionJournal.ts, requestLedger.ts, actionResultLedger.ts).
THEOREM StoresAgreeAlways == CheckpointSpec => []StoresAgree
<1>1. ASSUME Inv PROVE StoresAgree
  <2>1. AuditsFit
    <3>1. Idle => ~Acting
      BY OneKind
    <3>2. Idle => InAll = audited
      BY <1>1, <3>1, LaneIs DEF Inv
    <3> QED BY <1>1, <3>2 DEF Inv, Fits, AuditsFit
  <2> QED BY <1>1, <2>1 DEF Inv, StoresAgree, Uniform, ClosedTogether, Joined
<1> QED BY <1>1, InvAlways, PTL

\* Nobody can tell a restored world from the one that was captured
\* (checkpointRestore.ts).
THEOREM RecoversTheSameAlways == CheckpointSpec => RecoversTheSame
<1>1. ASSUME Inv, [CheckpointNext]_vars
      PROVE  [Recover => UNCHANGED <<closed, requests, journal, decisions, mechanics,
                                     controller, results>>]_vars
  BY <1>1, RecoverIs DEF journal
<1> QED BY <1>1, InvAlways, PTL DEF CheckpointSpec, RecoversTheSame

------------------------------------------------------------------------------
\* The history and the promise to the agents.

\* A step that neither accepts nor settles anything.
Quiet ==
  /\ requests' = requests
  /\ DOMAIN cells' = DOMAIN cells
  /\ \A s \in DOMAIN cells : cells'[s].state = cells[s].state
  /\ mechanics'.tick = mechanics.tick
  /\ closed' \in {closed, AllClosed}
  /\ \A p \in Principals : IsPrefix(results[p], results'[p])

\* A sequence begins with itself.
LEMMA PrefixOfItself ==
  ASSUME TypeOK, NEW p \in Principals
  PROVE  IsPrefix(results[p], results[p])
<1>1. Len(results[p]) \in Nat
  BY DEF TypeOK
<1> QED BY <1>1 DEF IsPrefix

\* Only an act that queues and a step that returns are not quiet.
LEMMA QuietIs ==
  ASSUME Inv, [CheckpointNext]_vars
  PROVE  Quiet \/ ActQueues \/ \E applied \in SUBSET Sequences : StepReturns(applied)
<1>1. TypeOK /\ Uniform /\ mechanics \in Session
  BY DEF Inv, TypeOK
<1>2. \A p \in Principals : IsPrefix(results[p], results[p])
  BY <1>1, PrefixOfItself
<1>3. ASSUME UNCHANGED <<requests, cells, results>>, mechanics'.tick = mechanics.tick,
             closed' \in {closed, AllClosed}
      PROVE  Quiet
  BY <1>2, <1>3 DEF Quiet
<1>4. CASE UNCHANGED vars
  BY <1>3, <1>4 DEF vars
<1>5. CASE Ingress
  <2>1. CASE BeginRead
    BY <1>3, <2>1 DEF BeginRead, admission, journal
  <2>2. CASE EndRead
    <3>1. op.pre \in Session /\ op.pre.tick = mechanics.tick
      BY <1>1, <2>2, OpIs DEF EndRead, Inv, ActHeld, Restorable
    <3>2. [mechanics EXCEPT !.failed = TRUE].tick = mechanics.tick
      BY <1>1, SessionIs
    <3>3. mechanics'.tick = mechanics.tick
      BY <2>2, <3>1, <3>2 DEF EndRead, Restored, RestoreFailures
    <3> QED BY <1>3, <2>2, <3>3 DEF EndRead, admission, journal
  <2>3. ASSUME NEW d \in Decisions, Claim(d) PROVE Quiet
    BY <1>3, <2>3 DEF Claim, journal
  <2>4. ASSUME NEW retained \in BOOLEAN, QueueController(retained) PROVE Quiet
    <3>1. mechanics'.tick = mechanics.tick
      BY <2>4, QueueIs DEF QueueController
    <3> QED BY <1>3, <2>4, <3>1 DEF QueueController, admission, journal
  <2>5. ASSUME NEW p \in Principals, DenyAtIngress(p) PROVE Quiet
    <3>1. AuditLast(p) \in BOOLEAN
      BY DEF AuditLast
    <3>2. closed' \in {closed, AllClosed}
      BY <1>1, <2>5, <3>1, AfterDenialIs DEF DenyAtIngress
    <3> QED BY <1>3, <2>5, <3>2 DEF DenyAtIngress, admission
  <2>6. ASSUME NEW p \in Principals, ExhaustRequests(p) PROVE Quiet
    <3>1. [closed EXCEPT !.ledger = TRUE].ledger
      BY <1>1 DEF TypeOK
    <3>2. closed' = AllClosed
      BY <2>6, <3>1 DEF ExhaustRequests, AfterDenial
    <3> QED BY <1>3, <2>6, <3>2 DEF ExhaustRequests, admission
  <2>7. ASSUME NEW p \in Principals, NEW r \in Requests, NEW d \in Decisions, BeginAct(p, r, d)
        PROVE  Quiet
    BY <1>3, <2>7 DEF BeginAct, journal
  <2> QED BY <1>5, <2>1, <2>2, <2>3, <2>4, <2>5, <2>6, <2>7 DEF Ingress
<1>6. ASSUME NEW attempt \in Session, attempt.tick = mechanics.tick,
             NEW exhausted \in BOOLEAN, DenyAct(attempt, exhausted)
      PROVE  Quiet
  <2>1. Acting
    BY <1>6 DEF DenyAct
  <2>2. op.pre \in Session /\ op.pre.tick = mechanics.tick
    BY <1>1, <2>1, OpIs DEF Inv, ActHeld, Restorable
  <2>3. [attempt EXCEPT !.failed = TRUE].tick = mechanics.tick
    BY <1>1, <1>6, SessionIs
  <2>4. mechanics'.tick = mechanics.tick
    BY <1>6, <2>2, <2>3 DEF DenyAct, Restored, RestoreFailures
  <2>5. closed' \in {closed, AllClosed}
    BY <1>1, <1>6, AfterDenialIs DEF DenyAct
  <2> QED BY <1>3, <1>6, <2>4, <2>5 DEF DenyAct, EndAct
<1>7. CASE ActStage
  <2>1. CASE ActDenied
    BY <1>1, <1>6, <2>1 DEF ActDenied
  <2>2. ASSUME NEW taken \in BOOLEAN, NEW exhausted \in BOOLEAN, ActFails(taken, exhausted)
        PROVE  Quiet
    <3>1. CASE taken
      <4>1. CanQueue(mechanics) /\ DenyAct(Queue(mechanics), exhausted)
        BY <2>2, <3>1 DEF ActFails
      <4>2. Queue(mechanics) \in Session /\ Queue(mechanics).tick = mechanics.tick
        BY <1>1, <4>1, SessionIs
      <4> QED BY <1>6, <4>1, <4>2
    <3>2. CASE ~taken
      BY <1>1, <1>6, <2>2, <3>2 DEF ActFails
    <3> QED BY <3>1, <3>2
  <2> QED BY <1>7, <2>1, <2>2 DEF ActStage
<1>8. CASE Callback
  <2>1. ASSUME NEW p \in Principals, ReenterAct(p) PROVE Quiet
    <3>1. closed' \in {closed, AllClosed}
      BY <2>1 DEF ReenterAct
    <3> QED BY <1>3, <2>1, <3>1 DEF ReenterAct, admission
  <2>2. CASE ReenterOther
    BY <1>3, <2>2 DEF ReenterOther, admission, journal
  <2>3. CASE SurfaceMutates
    <3>1. mechanics'.tick = mechanics.tick
      BY <2>3, QueueIs DEF SurfaceMutates
    <3> QED BY <1>3, <2>3, <3>1 DEF SurfaceMutates, admission, journal
  <2> QED BY <1>8, <2>1, <2>2, <2>3 DEF Callback
<1>9. CASE \/ BeginStep \/ StepCannotBegin \/ StepRetryable
           \/ \E rolledBack \in BOOLEAN : StepFatal(rolledBack)
           \/ ProjectionAbandoned
  <2>1. UNCHANGED <<requests, cells, results>> /\ closed' \in {closed, AllClosed}
    BY <1>9 DEF BeginStep, StepCannotBegin, StepRetryable, StepFatal, ProjectionAbandoned,
                StepClosesWorld, admission, journal
  <2>2. mechanics' = mechanics \/ \E b \in BOOLEAN : mechanics' = [mechanics EXCEPT !.failed = b]
    BY <1>9 DEF BeginStep, StepCannotBegin, StepRetryable, StepFatal, ProjectionAbandoned,
                RestoreFailures
  <2>3. mechanics'.tick = mechanics.tick
    BY <1>1, <2>2 DEF Session
  <2> QED BY <1>3, <2>1, <2>3
<1>10. CASE PublishResults \/ PublishFails
  <2>1. /\ Stepping("publishing") /\ UNCHANGED <<requests, cells, mechanics>>
        /\ results' = results \/ results' = Published
        /\ closed' \in {closed, AllClosed}
    BY <1>10 DEF PublishResults, PublishFails, StepClosesWorld, admission, journal
  <2>2. \A p \in Principals : IsPrefix(results[p], Published[p])
    BY <2>1, PublishedIs
  <2> QED BY <1>2, <2>1, <2>2 DEF Quiet
<1>11. CASE \/ \E projection \in {"projected", "not_configured"} : ProjectAction(projection)
            \/ ProjectionFails \/ ProjectionReentered
  <2>1. /\ Stepping("projecting") /\ UNCHANGED <<requests, results>>
        /\ mechanics' \in {mechanics, op.post} /\ closed' \in {closed, AllClosed}
    BY <1>11 DEF ProjectAction, ProjectionFails, ProjectionReentered, Restored, admission,
                 StepClosesWorld
  <2>2. op.post.tick = mechanics.tick
    BY <2>1 DEF Inv, StepHeld, Restorable
  <2>3. DOMAIN cells' = DOMAIN cells /\ \A s \in DOMAIN cells : cells'[s].state = cells[s].state
    <3>1. ASSUME NEW seqs, NEW projection \in {"not_configured", "projected", "failed"},
                 Project(seqs, projection)
          PROVE  /\ DOMAIN cells' = DOMAIN cells
                 /\ \A s \in DOMAIN cells : cells'[s].state = cells[s].state
      BY <3>1, ProjectIs DEF Stamped
    <3>2. CASE ProjectionReentered
      BY <3>1, <3>2 DEF ProjectionReentered
    <3>3. CASE ProjectionFails
      BY <3>1, <3>3 DEF ProjectionFails
    <3>4. CASE \E projection \in {"projected", "not_configured"} : ProjectAction(projection)
      BY <3>1, <3>4 DEF ProjectAction
    <3> QED BY <1>11, <3>2, <3>3, <3>4
  <2>4. mechanics'.tick = mechanics.tick
    BY <2>1, <2>2
  <2> QED BY <1>2, <2>1, <2>3, <2>4 DEF Quiet
<1>12. CASE Recover
  BY <1>3, <1>12, RecoverIs
<1> QED BY <1>4, <1>5, <1>7, <1>8, <1>9, <1>10, <1>11, <1>12
       DEF CheckpointNext, Next, StepStage

\* A closed store stays closed.
LEMMA NothingReopens ==
  ASSUME TypeOK, closed' \in {closed, AllClosed}
  PROVE  \A store \in DOMAIN closed : closed[store] => closed'[store]
<1>1. DOMAIN closed = {"runtime", "ledger", "journal"}
  BY DEF TypeOK
<1>2. AllClosed["runtime"] /\ AllClosed["ledger"] /\ AllClosed["journal"]
  BY DEF AllClosed
<1> QED BY <1>1, <1>2

\* What a step adds to the history, and that it changes nothing that is history.
LEMMA HistoryStep ==
  ASSUME Inv, [CheckpointNext]_vars
  PROVE  TickResolvesExactly /\ NothingRewritten
<1>1. TypeOK /\ mechanics \in Session
  BY DEF Inv, TypeOK
<1>2. mechanics.tick \in Nat
  BY <1>1, BoundAssumption DEF Session
<1>3. CASE Quiet
  <2>1. TickResolvesExactly
    BY <1>2, <1>3 DEF Quiet, TickResolvesExactly
  <2>2. NothingRewritten
    BY <1>1, <1>3, NothingReopens DEF Quiet, NothingRewritten, Terminal
  <2> QED BY <2>1, <2>2
<1>4. CASE ActQueues
  <2>1. /\ Acting /\ CanQueue(mechanics) /\ mechanics' = Queue(mechanics)
        /\ UNCHANGED <<closed, results>>
        /\ requests' = [requests EXCEPT ![op.request] = requests'[op.request]]
        /\ \A s \in DOMAIN cells :
             s # mechanics.nextSequence => s \in DOMAIN cells' /\ cells'[s] = cells[s]
    <3>1. Acting /\ op.request \in Requests /\ requests \in [Requests -> Receipt \cup {None}]
      BY <1>1, <1>4, OpIs DEF ActQueues, TypeOK
    <3> QED BY <1>4, <3>1 DEF ActQueues, EndAct
  <2>2. mechanics'.tick = mechanics.tick /\ mechanics.nextSequence \notin DOMAIN cells
    BY <2>1, QueueIs
  <2>3. requests[op.request] = None /\ requests \in [Requests -> Receipt \cup {None}]
    BY <1>1, <2>1 DEF Inv, ActHeld, TypeOK
  <2>4. \A r \in Committed : requests'[r] = requests[r]
    BY <2>1, <2>3 DEF Committed
  <2>5. \A s \in Terminal : s \in DOMAIN cells' /\ cells'[s].state = cells[s].state
    BY <2>1, <2>2 DEF Terminal
  <2>6. \A p \in Principals : IsPrefix(results[p], results'[p])
    BY <1>1, <2>1, PrefixOfItself
  <2>7. TickResolvesExactly
    BY <1>2, <2>2 DEF TickResolvesExactly
  <2> QED BY <1>1, <2>1, <2>4, <2>5, <2>6, <2>7, NothingReopens DEF NothingRewritten
<1>5. ASSUME NEW applied \in SUBSET Sequences, StepReturns(applied)
      PROVE  TickResolvesExactly /\ NothingRewritten
  <2>1. UNCHANGED <<requests, results>> /\ closed' \in {closed, AllClosed}
    BY <1>5 DEF StepReturns, StepClosesWorld, admission
  <2>2. \A p \in Principals : IsPrefix(results[p], results'[p])
    BY <1>1, <2>1, PrefixOfItself
  <2>3. op.queued = Authorized /\ controller' = {}
    BY <1>5, StepReturnsIs
  <2>4. CASE Joins(mechanics.pending \ controller)
    <3>1. /\ Stamped /\ Terminal' = Terminal \cup op.queued
          /\ \A s \in DOMAIN cells \ op.queued : cells'[s] = cells[s]
          /\ op.queued = mechanics.pending \ controller
      BY <1>5, <2>4, JoinsIs
    <3>2. controller \subseteq mechanics.pending
      BY DEF Inv, Numbered
    <3>3. TickResolvesExactly
      BY <2>3, <3>1, <3>2 DEF TickResolvesExactly
    <3>4. \A s \in Terminal : s \in DOMAIN cells' /\ cells'[s].state = cells[s].state
      BY <2>3, <3>1 DEF Terminal, Authorized, Stamped
    <3> QED BY <1>1, <2>1, <2>2, <3>3, <3>4, NothingReopens DEF NothingRewritten
  <2>5. CASE ~Joins(mechanics.pending \ controller)
    <3>1. closed' = AllClosed /\ cells' = cells
      BY <1>5, <2>5 DEF StepReturns, StepClosesWorld
    <3>2. TickResolvesExactly
      BY <3>1, FlagsIs DEF TickResolvesExactly
    <3> QED BY <1>1, <2>1, <2>2, <3>1, <3>2, NothingReopens DEF NothingRewritten, Terminal
  <2> QED BY <2>4, <2>5
<1> QED BY <1>3, <1>4, <1>5, QuietIs

\* Every step of a world adds to its history what was accepted, and nothing else,
\* and changes nothing that is history (clockAuthority.ts, requestLedger.ts).
THEOREM HistoryExactAlways == CheckpointSpec => HistoryExact
<1>1. ASSUME Inv, [CheckpointNext]_vars
      PROVE  [TickResolvesExactly /\ NothingRewritten]_vars
  BY <1>1, HistoryStep
<1> QED BY <1>1, InvAlways, PTL DEF CheckpointSpec, HistoryExact

\* What an agent is told of a request.
LEMMA StatusIs ==
  ASSUME Inv, NEW r \in Requests
  PROVE  /\ requests[r] = None => RequestStatus[r] = "new"
         /\ requests[r] # None =>
              /\ requests[r].sequence \in DOMAIN cells
              /\ cells[requests[r].sequence] \in Cell
              /\ cells[requests[r].sequence].request = r
              /\ RequestStatus[r] = IF requests[r].sequence \in Authorized THEN "queued"
                                    ELSE cells[requests[r].sequence].state
<1>1. TypeOK /\ Joined
  BY DEF Inv
<1>2. RequestStatus[r] = IF requests[r] = None THEN "new"
                         ELSE LET state == cells[requests[r].sequence].state
                              IN IF state = "authorized" THEN "queued" ELSE state
  BY DEF RequestStatus
<1>3. CASE requests[r] # None
  <2>1. /\ requests[r].sequence \in DOMAIN cells
        /\ cells[requests[r].sequence].request = r
    BY <1>1, <1>3 DEF Joined, JoinExact, Committed
  <2>2. cells[requests[r].sequence] \in Cell
    BY <1>1, <2>1 DEF TypeOK
  <2> QED BY <1>2, <1>3, <2>1, <2>2 DEF Authorized
<1> QED BY <1>2, <1>3

\* Nothing is told otherwise after a quiet step.
LEMMA SameStatus ==
  ASSUME Inv, requests' = requests, DOMAIN cells' = DOMAIN cells,
         \A s \in DOMAIN cells : cells'[s].state = cells[s].state
  PROVE  RequestStatus' = RequestStatus
<1>1. \A r \in Requests : requests[r] # None => requests[r].sequence \in DOMAIN cells
  BY DEF Inv, Joined, JoinExact, Committed
<1> QED BY <1>1 DEF RequestStatus

\* A request that is accepted is told so, and no other is.
LEMMA AcceptImplemented ==
  ASSUME Inv, Inv', ActQueues
  PROVE  \E r \in Requests : Service!Accept(r)
<1> DEFINE r == op.request
           s == mechanics.nextSequence
<1>1. /\ TypeOK /\ Acting /\ closed = AllOpen /\ closed' = closed
      /\ r \in Requests /\ requests[r] = None
      /\ requests' = [requests EXCEPT ![r] =
           [principal |-> op.principal, decision |-> op.decision, sequence |-> s,
            tick |-> mechanics.tick]]
      /\ CanQueue(mechanics) /\ mechanics' = Queue(mechanics)
      /\ s \in DOMAIN cells' /\ cells'[s].state = "authorized"
      /\ \A x \in DOMAIN cells : x # s => x \in DOMAIN cells' /\ cells'[x] = cells[x]
  <2>1. TypeOK /\ Acting
    BY DEF Inv, ActQueues
  <2>2. op.request \in Requests /\ requests[op.request] = None
    BY <2>1, OpIs DEF Inv, ActHeld
  <2> QED BY <2>1, <2>2 DEF ActQueues
<1>2. s \notin DOMAIN cells
  BY <1>1, QueueIs
<1>3. /\ requests'[r].sequence = s /\ requests'[r] # None
      /\ \A q \in Requests : q # r => requests'[q] = requests[q]
  <2> DEFINE receipt == [principal |-> op.principal, decision |-> op.decision,
                         sequence |-> s, tick |-> mechanics.tick]
  <2>1. requests \in [Requests -> Receipt \cup {None}]
    BY <1>1 DEF TypeOK
  <2>2. receipt.sequence = s
    OBVIOUS
  <2>3. receipt \in Receipt
    <3>1. op.principal \in Principals /\ op.decision \in Decisions
      BY <1>1, OpIs
    <3>2. s \in Sequences /\ mechanics.tick \in 0 .. MaxTick
      BY <1>1, QueueIs DEF TypeOK, Session
    <3> QED BY <3>1, <3>2 DEF Receipt
  <2>4. receipt # None
    BY <2>3, NoneAssumption
  <2> HIDE DEF receipt
  <2>5. requests' = [requests EXCEPT ![r] = receipt]
    BY <1>1 DEF receipt
  <2> QED BY <1>1, <2>1, <2>2, <2>4, <2>5
<1> HIDE DEF r, s
<1>4. RequestStatus[r] = "new" /\ RequestStatus'[r] = "queued"
  <2>1. RequestStatus'[r] = IF requests'[r] = None THEN "new"
                            ELSE LET state == cells'[requests'[r].sequence].state
                                 IN IF state = "authorized" THEN "queued" ELSE state
    BY <1>1 DEF RequestStatus
  <2> QED BY <1>1, <1>3, <2>1, StatusIs
<1>5. ASSUME NEW q \in Requests, q # r PROVE RequestStatus'[q] = RequestStatus[q]
  <2>1. requests'[q] = requests[q]
    BY <1>3, <1>5
  <2>2. requests[q] # None => requests[q].sequence \in DOMAIN cells
    BY StatusIs
  <2>3. requests[q] # None => cells'[requests[q].sequence] = cells[requests[q].sequence]
    BY <1>1, <1>2, <2>2
  <2> QED BY <2>1, <2>3 DEF RequestStatus
<1>6. RequestStatus' = [RequestStatus EXCEPT ![r] = "queued"]
  <2>1. /\ RequestStatus = [q \in Requests |-> RequestStatus[q]]
        /\ RequestStatus' = [q \in Requests |-> RequestStatus'[q]]
    BY DEF RequestStatus
  <2> HIDE DEF RequestStatus
  <2> QED BY <1>1, <1>4, <1>5, <2>1
<1>7. Open /\ Open' = Open
  BY <1>1, FlagsIs DEF Open
<1>8. Service!Accept(r)
  BY <1>4, <1>6, <1>7 DEF Service!Accept
<1> QED BY <1>1, <1>8

\* The actions of a tick are settled together, each as the mechanics decided.
LEMMA SettleImplemented ==
  ASSUME Inv, Inv', NEW applied \in SUBSET Sequences, StepReturns(applied),
         Joins(mechanics.pending \ controller), op.queued # {}
  PROVE  \E outcome \in [Requests -> Service!Outcomes] : Service!Settle(outcome)
<1>1. /\ Stamped /\ Open /\ op.queued = Authorized
      /\ \A s \in DOMAIN cells \ op.queued : cells'[s] = cells[s]
      /\ \A s \in op.queued : cells'[s].state \in {"applied", "rejected"}
  BY JoinsIs, StepReturnsIs
<1>2. requests' = requests /\ closed' = closed
  BY DEF StepReturns, admission
<1> DEFINE Waits == {r \in Requests : requests[r] # None /\ requests[r].sequence \in Authorized}
           outcome == [r \in Requests |-> IF r \in Waits THEN RequestStatus'[r] ELSE "applied"]
<1>3. Service!Queued = Waits
  <2>1. ASSUME NEW r \in Requests
        PROVE  RequestStatus[r] = "queued" <=> r \in Waits
    <3>1. CASE requests[r] = None
      BY <3>1, StatusIs
    <3>2. CASE requests[r] # None
      <4>1. cells[requests[r].sequence].state # "queued"
        BY <3>2, StatusIs DEF Cell
      <4> QED BY <3>2, <4>1, StatusIs
    <3> QED BY <3>1, <3>2
  <2> QED BY <2>1 DEF Service!Queued
<1>4. ASSUME NEW r \in Requests
      PROVE  RequestStatus'[r] = IF requests[r] = None THEN "new"
                                 ELSE LET state == cells'[requests[r].sequence].state
                                      IN IF state = "authorized" THEN "queued" ELSE state
  BY <1>2 DEF RequestStatus
<1>5. ASSUME NEW r \in Waits PROVE RequestStatus'[r] \in {"applied", "rejected"}
  <2>1. cells'[requests[r].sequence].state \in {"applied", "rejected"}
    BY <1>1
  <2> QED BY <1>4, <2>1
<1>6. ASSUME NEW r \in Requests, r \notin Waits PROVE RequestStatus'[r] = RequestStatus[r]
  <2>1. CASE requests[r] = None
    BY <1>4, <2>1, StatusIs
  <2>2. CASE requests[r] # None
    <3>1. requests[r].sequence \in DOMAIN cells \ op.queued
      BY <1>1, <1>6, <2>2, StatusIs
    <3>2. cells'[requests[r].sequence] = cells[requests[r].sequence]
      BY <1>1, <3>1
    <3> QED BY <1>4, <2>2, <3>2 DEF RequestStatus
  <2> QED BY <2>1, <2>2
<1>7. Waits # {}
  <2>1. PICK s \in op.queued : TRUE
    OBVIOUS
  <2>2. s \in DOMAIN cells /\ s \in Authorized
    BY <1>1, <2>1 DEF Authorized
  <2>3. cells[s].request \in Requests /\ requests[cells[s].request] # None
        /\ requests[cells[s].request].sequence = s
    BY <2>2 DEF Inv, Joined, JoinExact, TypeOK, Cell
  <2> QED BY <2>2, <2>3
<1>8. outcome \in [Requests -> {"applied", "rejected"}]
  BY <1>5
<1>9. RequestStatus' = [r \in Requests |-> IF r \in Waits THEN outcome[r] ELSE RequestStatus[r]]
  <2>1. RequestStatus' = [r \in Requests |-> RequestStatus'[r]]
    BY DEF RequestStatus
  <2>2. \A r \in Requests : RequestStatus'[r] = IF r \in Waits THEN outcome[r] ELSE RequestStatus[r]
    BY <1>6
  <2> HIDE DEF Waits, outcome
  <2> QED BY <2>1, <2>2
<1>10. Open' = Open
  BY <1>2 DEF Open
<1> HIDE DEF Waits, outcome
<1>11. Service!Settle(outcome)
  BY <1>1, <1>3, <1>7, <1>9, <1>10 DEF Service!Settle
<1> QED BY <1>8, <1>11 DEF Service!Outcomes

\* Every step of a world is one the agents were promised, or none that they see.
LEMMA ServiceStep ==
  ASSUME Inv, Inv', [CheckpointNext]_vars
  PROVE  [Service!ServiceNext]_Service!serviceVars
<1>1. ASSUME requests' = requests, DOMAIN cells' = DOMAIN cells,
             \A s \in DOMAIN cells : cells'[s].state = cells[s].state,
             closed' \in {closed, AllClosed}
      PROVE  [Service!ServiceNext]_Service!serviceVars
  <2>1. RequestStatus' = RequestStatus
    BY <1>1, SameStatus
  <2>2. Open' = Open \/ Open' = FALSE
    BY <1>1, FlagsIs DEF Open
  <2> QED BY <2>1, <2>2 DEF Service!ServiceNext, Service!Shut, Service!serviceVars
<1>2. CASE Quiet
  BY <1>1, <1>2 DEF Quiet
<1>3. CASE ActQueues
  BY <1>3, AcceptImplemented DEF Service!ServiceNext
<1>4. ASSUME NEW applied \in SUBSET Sequences, StepReturns(applied)
      PROVE  [Service!ServiceNext]_Service!serviceVars
  <2>1. requests' = requests /\ closed' \in {closed, AllClosed}
    BY <1>4 DEF StepReturns, StepClosesWorld, admission
  <2>2. CASE ~Joins(mechanics.pending \ controller)
    BY <1>1, <1>4, <2>1, <2>2 DEF StepReturns
  <2>3. CASE Joins(mechanics.pending \ controller) /\ op.queued = {}
    <3>1. Stamped /\ \A s \in DOMAIN cells \ op.queued : cells'[s] = cells[s]
      BY <1>4, <2>3, JoinsIs
    <3> QED BY <1>1, <2>1, <2>3, <3>1 DEF Stamped
  <2>4. CASE Joins(mechanics.pending \ controller) /\ op.queued # {}
    BY <1>4, <2>4, SettleImplemented DEF Service!ServiceNext
  <2> QED BY <2>2, <2>3, <2>4
<1> QED BY <1>2, <1>3, <1>4, QuietIs

\* The world keeps its promise to the agents: it implements ActionService, crashes
\* and recoveries included.
THEOREM ImplementsServiceAlways == CheckpointSpec => ImplementsService
<1>1. Init => Service!ServiceInit
  <2> SUFFICES ASSUME Init PROVE Service!ServiceInit
    OBVIOUS
  <2>1. closed = AllOpen /\ requests = [r \in Requests |-> None]
    BY DEF Init
  <2>2. Open = TRUE
    BY <2>1, FlagsIs DEF Open
  <2>3. RequestStatus = [r \in Requests |-> "new"]
    BY <2>1 DEF RequestStatus
  <2> QED BY <2>2, <2>3 DEF Service!ServiceInit
<1>2. Inv /\ Inv' /\ [CheckpointNext]_vars => [Service!ServiceNext]_Service!serviceVars
  BY ServiceStep
<1> QED BY <1>1, <1>2, InvAlways, PTL
       DEF CheckpointSpec, ImplementsService, Service!ServiceSpec

=============================================================================
