---------------------- MODULE DecisionRegistryProofs ----------------------
(***************************************************************************)
(* Proofs about DecisionRegistry, for every set of principals and tokens,  *)
(* every bound and every number of recoveries.                             *)
(*                                                                         *)
(* The inductive invariant is Inv below: the live state is well formed     *)
(* (Good), an outstanding reservation is still the one consumption would   *)
(* build now, a mint waiting for entropy was checked against the state it  *)
(* will extend, and a kept checkpoint is the snapshot of some good state.  *)
(* Parsable, at the end, is what a state owes the snapshot parser.         *)
(***************************************************************************)
EXTENDS DecisionRegistry, FiniteSetTheorems, TLAPS

Good(L) == LiveType(L) /\ IndexExact(L) /\ ActiveInWindow(L)

ReservedNow ==
  reservation # None =>
    /\ minting = None
    /\ reservation = [token |-> reservation.token, atTick |-> reservation.atTick,
                      committed |-> ConsumedState(live, reservation.token, reservation.atTick)]
    /\ reservation.token \in Tokens
    /\ reservation.atTick \in Ticks
    /\ Admissible(reservation.token, live.records[reservation.token].principal,
                  reservation.atTick)

MintingNow ==
  minting # None =>
    /\ minting \in Mints
    /\ minting.issuedTick <= minting.validThroughTick
    /\ CheckTick(minting.issuedTick)
    /\ live.phase = "open"
    /\ ~HasActiveDecision(minting.principal, minting.issuedTick)
    /\ live.nextDecisionSequence <= MaxDecisionSequence

CheckpointGood == checkpoint # None => \E L : Good(L) /\ checkpoint = Snapshot(L)

PristineNow ==
  live.restoreAllowed =>
    DOMAIN live.records = {} /\ live.lastTick = NoTick /\ live.nextDecisionSequence = 1

Inv ==
  /\ Good(live) /\ ReservedNow /\ MintingNow /\ CheckpointGood /\ PristineNow
  /\ recoveries \in 0 .. MaxRecoveries

(* What expiry at a tick does to each field of a typed state. *)
LEMMA CommitTickFields ==
  ASSUME NEW L, LiveType(L), NEW atTick \in Ticks
  PROVE  LET C == CommitTick(L, atTick) IN
         /\ LiveType(C)
         /\ C.lastTick = atTick
         /\ C.records = [t \in DOMAIN L.records |-> Expire(L.records[t], atTick)]
         /\ C.activeByPrincipal = Without(L.activeByPrincipal, Lapsed(L, atTick))
         /\ C.phase = L.phase
         /\ C.nextDecisionSequence = L.nextDecisionSequence
<1> DEFINE C == CommitTick(L, atTick)
<1>1. /\ C.lastTick = atTick
      /\ C.records = [t \in DOMAIN L.records |-> Expire(L.records[t], atTick)]
      /\ C.activeByPrincipal = Without(L.activeByPrincipal, Lapsed(L, atTick))
      /\ C.phase = L.phase
      /\ C.nextDecisionSequence = L.nextDecisionSequence
  BY DEF CommitTick, LiveType
<1>2. \A t \in DOMAIN L.records : Expire(L.records[t], atTick) \in DecisionRecord
  BY DEF LiveType, IsMap, DecisionRecord, Expire, Statuses
<1>3. IsMap(C.records, Tokens, DecisionRecord)
  BY <1>1, <1>2 DEF LiveType, IsMap
<1>4. IsMap(C.activeByPrincipal, Principals, Tokens)
  BY <1>1 DEF LiveType, IsMap, Without
<1>5. LiveType(C)
  BY <1>3, <1>4 DEF LiveType, CommitTick, NullableTicks
<1> QED
  BY <1>1, <1>5

(* Expiring the late decisions at a tick that does not go back keeps a state well
   formed; the phase may already have been advanced to one that admits nothing, as
   long as no decision is still in its window. *)
LEMMA CommitTickGood ==
  ASSUME NEW L, LiveType(L), IndexExact(L), NEW atTick \in Ticks,
         \A t \in DOMAIN L.records :
           L.records[t].status = "active" => L.records[t].issuedTick <= atTick,
         L.phase \in {"open", "cutoff"} \/ ~HasActiveDecisionAt(L, atTick)
  PROVE  Good(CommitTick(L, atTick))
<1> DEFINE C == CommitTick(L, atTick)
<1>1. /\ C.lastTick = atTick
      /\ C.records = [t \in DOMAIN L.records |-> Expire(L.records[t], atTick)]
      /\ C.activeByPrincipal = Without(L.activeByPrincipal, Lapsed(L, atTick))
      /\ C.phase = L.phase
      /\ C.nextDecisionSequence = L.nextDecisionSequence
  BY CommitTickFields
<1>2. \A t \in DOMAIN L.records :
        /\ L.records[t] \in DecisionRecord
        /\ Expire(L.records[t], atTick) \in DecisionRecord
        /\ Expire(L.records[t], atTick).principal = L.records[t].principal
        /\ Expire(L.records[t], atTick).issuedTick = L.records[t].issuedTick
        /\ Expire(L.records[t], atTick).validThroughTick = L.records[t].validThroughTick
        /\ Expire(L.records[t], atTick).status = "active" <=>
             L.records[t].status = "active" /\ atTick <= L.records[t].validThroughTick
  BY TickAssumption DEF LiveType, IsMap, DecisionRecord, Expire, Late, Statuses, Ticks
<1>3. LiveType(C)
  BY CommitTickFields
<1>4. IndexExact(C)
  <2>1. ASSUME NEW p \in DOMAIN C.activeByPrincipal
        PROVE  /\ p \in DOMAIN L.activeByPrincipal
               /\ C.activeByPrincipal[p] = L.activeByPrincipal[p]
               /\ L.activeByPrincipal[p] \in DOMAIN L.records
               /\ atTick <= L.records[L.activeByPrincipal[p]].validThroughTick
    <3> HIDE DEF C
    <3>1. /\ p \in DOMAIN L.activeByPrincipal
          /\ C.activeByPrincipal[p] = L.activeByPrincipal[p]
          /\ p \notin Lapsed(L, atTick)
      BY <1>1 DEF Without
    <3>2. /\ L.activeByPrincipal[p] \in DOMAIN L.records
          /\ L.records[L.activeByPrincipal[p]].principal = p
          /\ L.records[L.activeByPrincipal[p]].status = "active"
      BY <3>1 DEF IndexExact
    <3>3. ~Late(L.records[L.activeByPrincipal[p]], atTick)
      BY <3>1, <3>2 DEF Lapsed
    <3>4. L.records[L.activeByPrincipal[p]] \in DecisionRecord
      BY <1>2, <3>2
    <3> QED
      BY <3>1, <3>2, <3>3, <3>4, TickAssumption DEF Late, DecisionRecord, Ticks
  <2>2. ASSUME NEW t \in DOMAIN L.records, L.records[t].status = "active",
               atTick <= L.records[t].validThroughTick
        PROVE  /\ L.records[t].principal \in DOMAIN C.activeByPrincipal
               /\ C.activeByPrincipal[L.records[t].principal] = t
    <3>1. /\ L.records[t].principal \in DOMAIN L.activeByPrincipal
          /\ L.activeByPrincipal[L.records[t].principal] = t
      BY <2>2 DEF IndexExact
    <3>2. ~Late(L.records[t], atTick)
      BY <1>2, <2>2, TickAssumption DEF Late, DecisionRecord, Ticks
    <3>3. L.records[t].principal \notin Lapsed(L, atTick)
      BY <3>1, <3>2 DEF Lapsed
    <3> QED
      BY <1>1, <3>1, <3>3 DEF Without
  <2>3. DOMAIN C.records = DOMAIN L.records
        /\ \A t \in DOMAIN L.records : C.records[t] = Expire(L.records[t], atTick)
    BY <1>1
  <2> HIDE DEF C
  <2> QED
    BY <1>2, <2>1, <2>2, <2>3 DEF IndexExact
<1>5. ActiveInWindow(C)
  BY <1>1, <1>2, TickAssumption
     DEF ActiveInWindow, HasActiveDecisionAt, LiveType, IsMap, DecisionRecord, Ticks
<1> QED
  BY <1>3, <1>4, <1>5 DEF Good

(* Consuming a decision inside its window keeps a state well formed. *)
LEMMA ConsumedStateGood ==
  ASSUME NEW L, Good(L), NEW token \in DOMAIN L.records, NEW atTick \in Ticks,
         L.records[token].status = "active", atTick >= L.lastTick,
         atTick <= L.records[token].validThroughTick
  PROVE  Good(ConsumedState(L, token, atTick))
<1> DEFINE C == ConsumedState(L, token, atTick)
           owner == L.records[token].principal
           own == {p \in DOMAIN L.activeByPrincipal :
                     p = owner /\ L.activeByPrincipal[p] = token}
<1> USE DEF Good
<1>1. /\ C.lastTick = atTick
      /\ C.records = [t \in DOMAIN L.records |->
                        IF t = token THEN [L.records[t] EXCEPT !.status = "consumed"]
                        ELSE Expire(L.records[t], atTick)]
      /\ C.activeByPrincipal = Without(L.activeByPrincipal, own \cup Lapsed(L, atTick))
      /\ C.phase = L.phase
      /\ C.nextDecisionSequence = L.nextDecisionSequence
  BY DEF ConsumedState, LiveType
<1>2. \A t \in DOMAIN L.records :
        /\ L.records[t] \in DecisionRecord
        /\ C.records[t] \in DecisionRecord
        /\ C.records[t].principal = L.records[t].principal
        /\ C.records[t].issuedTick = L.records[t].issuedTick
        /\ C.records[t].validThroughTick = L.records[t].validThroughTick
        /\ C.records[t].status = "active" <=>
             /\ L.records[t].status = "active"
             /\ atTick <= L.records[t].validThroughTick
             /\ t # token
  BY <1>1, TickAssumption
     DEF LiveType, IsMap, DecisionRecord, Expire, Late, Statuses, Ticks
<1>3. DOMAIN C.records = DOMAIN L.records
  BY <1>1
<1>4. LiveType(C)
  <2>1. IsMap(C.records, Tokens, DecisionRecord)
    BY <1>1, <1>2 DEF LiveType, IsMap
  <2>2. IsMap(C.activeByPrincipal, Principals, Tokens)
    BY <1>1 DEF LiveType, IsMap, Without
  <2> QED
    BY <2>1, <2>2 DEF LiveType, ConsumedState, NullableTicks
<1>5. IndexExact(C)
  <2>1. ASSUME NEW p \in DOMAIN C.activeByPrincipal
        PROVE  /\ p \in DOMAIN L.activeByPrincipal
               /\ C.activeByPrincipal[p] = L.activeByPrincipal[p]
               /\ L.activeByPrincipal[p] \in DOMAIN L.records
               /\ L.activeByPrincipal[p] # token
               /\ atTick <= L.records[L.activeByPrincipal[p]].validThroughTick
    <3> HIDE DEF C
    <3>1. /\ p \in DOMAIN L.activeByPrincipal
          /\ C.activeByPrincipal[p] = L.activeByPrincipal[p]
          /\ p \notin Lapsed(L, atTick)
          /\ p \notin own
      BY <1>1 DEF Without
    <3>2. /\ L.activeByPrincipal[p] \in DOMAIN L.records
          /\ L.records[L.activeByPrincipal[p]].principal = p
          /\ L.records[L.activeByPrincipal[p]].status = "active"
      BY <3>1 DEF IndexExact
    <3>3. ~Late(L.records[L.activeByPrincipal[p]], atTick)
      BY <3>1, <3>2 DEF Lapsed
    <3>4. L.records[L.activeByPrincipal[p]] \in DecisionRecord
      BY <1>2, <3>2
    <3>5. L.activeByPrincipal[p] # token
      BY <3>1, <3>2
    <3> QED
      BY <3>1, <3>2, <3>3, <3>4, <3>5, TickAssumption DEF Late, DecisionRecord, Ticks
  <2>2. ASSUME NEW t \in DOMAIN L.records, L.records[t].status = "active", t # token,
               atTick <= L.records[t].validThroughTick
        PROVE  /\ L.records[t].principal \in DOMAIN C.activeByPrincipal
               /\ C.activeByPrincipal[L.records[t].principal] = t
    <3>1. /\ L.records[t].principal \in DOMAIN L.activeByPrincipal
          /\ L.activeByPrincipal[L.records[t].principal] = t
      BY <2>2 DEF IndexExact
    <3>2. ~Late(L.records[t], atTick)
      BY <1>2, <2>2, TickAssumption DEF Late, DecisionRecord, Ticks
    <3>3. L.records[t].principal \notin Lapsed(L, atTick) \cup own
      BY <2>2, <3>1, <3>2 DEF Lapsed
    <3> QED
      BY <1>1, <3>1, <3>3 DEF Without
  <2> HIDE DEF C
  <2> QED
    BY <1>2, <1>3, <2>1, <2>2 DEF IndexExact
<1>6. ActiveInWindow(C)
  <2>1. \A t \in DOMAIN L.records : L.records[t].status = "active" =>
          /\ L.records[t].issuedTick \in Int /\ L.records[t].validThroughTick \in Int
          /\ L.records[t].issuedTick <= L.lastTick
          /\ L.phase \in {"open", "cutoff"}
    BY <1>2, TickAssumption DEF ActiveInWindow, DecisionRecord, Ticks
  <2>2. L.lastTick \in Int /\ atTick \in Int
    BY TickAssumption DEF LiveType, NullableTicks, NoTick, Ticks
  <2> SUFFICES ASSUME NEW t \in DOMAIN C.records, C.records[t].status = "active"
               PROVE  /\ C.lastTick \in C.records[t].issuedTick .. C.records[t].validThroughTick
                      /\ C.phase \in {"open", "cutoff"}
    BY DEF ActiveInWindow
  <2> HIDE DEF C
  <2>3. /\ L.records[t].status = "active" /\ atTick <= L.records[t].validThroughTick
        /\ C.records[t].issuedTick = L.records[t].issuedTick
        /\ C.records[t].validThroughTick = L.records[t].validThroughTick
    BY <1>2, <1>3
  <2> QED
    BY <1>1, <1>3, <2>1, <2>2, <2>3
<1> QED
  BY <1>4, <1>5, <1>6

(* A mint whose request was checked against the state it extends keeps it well
   formed: the principal's previous decision, if still active, is late by then. *)
LEMMA MintedStateGood ==
  ASSUME NEW L, Good(L), NEW token \in Tokens, token \notin DOMAIN L.records,
         NEW request \in Mints, request.issuedTick <= request.validThroughTick,
         request.issuedTick >= L.lastTick, L.phase = "open",
         L.nextDecisionSequence <= MaxDecisionSequence,
         ~(/\ request.principal \in DOMAIN L.activeByPrincipal
           /\ request.issuedTick <=
                L.records[L.activeByPrincipal[request.principal]].validThroughTick)
  PROVE  Good(MintedState(L, token, request))
<1> DEFINE E == CommitTick(L, request.issuedTick)
           owner == request.principal
           M == MintedState(L, token, request)
           new == NewRecord(L, request)
<1>1. \A t \in DOMAIN L.records :
        L.records[t].status = "active" => L.records[t].issuedTick <= request.issuedTick
  BY TickAssumption
     DEF Good, ActiveInWindow, LiveType, IsMap, DecisionRecord, Ticks, NullableTicks, NoTick, Mints
<1>2. Good(E)
  BY <1>1, CommitTickGood DEF Good, Mints
<1>3. /\ E.records = [t \in DOMAIN L.records |-> Expire(L.records[t], request.issuedTick)]
      /\ E.activeByPrincipal = Without(L.activeByPrincipal, Lapsed(L, request.issuedTick))
      /\ E.lastTick = request.issuedTick /\ E.phase = "open"
  BY DEF CommitTick, LiveType, Good
<1>4. owner \notin DOMAIN E.activeByPrincipal
  <2>1. SUFFICES ASSUME owner \in DOMAIN L.activeByPrincipal
                 PROVE  owner \in Lapsed(L, request.issuedTick)
    BY <1>3 DEF Without
  <2>2. L.records[L.activeByPrincipal[owner]] \in DecisionRecord
    BY <2>1 DEF Good, LiveType, IsMap, IndexExact
  <2> QED
    BY <2>1, <2>2, TickAssumption
       DEF Lapsed, Late, Good, IndexExact, DecisionRecord, Ticks, Mints
<1>5. /\ M.records = [t \in DOMAIN E.records \cup {token} |->
                        IF t = token THEN new ELSE E.records[t]]
      /\ M.activeByPrincipal = [p \in DOMAIN E.activeByPrincipal \cup {owner} |->
                                  IF p = owner THEN token ELSE E.activeByPrincipal[p]]
      /\ M.lastTick = request.issuedTick /\ M.phase = "open"
  BY <1>3 DEF MintedState, CommitTick, LiveType, Good
<1>6. new \in DecisionRecord /\ new.status = "active" /\ new.principal = owner
      /\ new.issuedTick = request.issuedTick
      /\ new.validThroughTick = request.validThroughTick
  BY SequenceAssumption DEF NewRecord, DecisionRecord, Mints, Good, LiveType, Statuses
<1>7. LiveType(M)
  <2>1. IsMap(M.records, Tokens, DecisionRecord)
    BY <1>2, <1>5, <1>6 DEF Good, LiveType, IsMap
  <2>2. IsMap(M.activeByPrincipal, Principals, Tokens)
    BY <1>2, <1>5 DEF Good, LiveType, IsMap, Mints
  <2>3. LiveType(E)
    BY <1>2 DEF Good
  <2>4. M = [E EXCEPT !.records = M.records, !.activeByPrincipal = M.activeByPrincipal,
                      !.nextDecisionSequence = L.nextDecisionSequence + 1,
                      !.restoreAllowed = FALSE]
    <3> HIDE DEF E
    <3> QED
      BY <1>5, <2>3 DEF LiveType, MintedState, E
  <2>5. L.nextDecisionSequence + 1 \in 1 .. MaxDecisionSequence + 1
    BY SequenceAssumption DEF Good, LiveType
  <2> HIDE DEF E, M
  <2> QED
    BY <2>1, <2>2, <2>3, <2>4, <2>5 DEF LiveType
<1>8. token \notin DOMAIN E.records
  BY <1>3
<1>9. IndexExact(M)
  <2> HIDE DEF E, M, new
  <2>1. IndexExact(E)
    BY <1>2 DEF Good
  <2>2. ASSUME NEW p \in DOMAIN M.activeByPrincipal
        PROVE  /\ M.activeByPrincipal[p] \in DOMAIN M.records
               /\ M.records[M.activeByPrincipal[p]].principal = p
               /\ M.records[M.activeByPrincipal[p]].status = "active"
    <3>1. CASE p = owner
      BY <1>5, <1>6, <3>1
    <3>2. CASE p # owner
      BY <1>5, <1>8, <2>1, <2>2, <3>2 DEF IndexExact
    <3> QED
      BY <3>1, <3>2
  <2>3. ASSUME NEW t \in DOMAIN M.records, M.records[t].status = "active"
        PROVE  /\ M.records[t].principal \in DOMAIN M.activeByPrincipal
               /\ M.activeByPrincipal[M.records[t].principal] = t
    <3>1. CASE t = token
      BY <1>5, <1>6, <3>1
    <3>2. CASE t # token
      BY <1>4, <1>5, <2>1, <2>3, <3>2 DEF IndexExact
    <3> QED
      BY <3>1, <3>2
  <2> QED
    BY <2>2, <2>3 DEF IndexExact
<1>10. ActiveInWindow(M)
  <2> HIDE DEF E, M, new
  <2>1. ActiveInWindow(E)
    BY <1>2 DEF Good
  <2> QED
    BY <1>3, <1>5, <1>6, <2>1, TickAssumption DEF ActiveInWindow, Mints, Ticks
<1> QED
  BY <1>7, <1>9, <1>10 DEF Good

(* The snapshot of a state lists each of its decisions once, under its digest. *)
LEMMA SnapshotLists ==
  ASSUME NEW L
  PROVE  LET S == Snapshot(L) IN
         /\ Digests(S) = DOMAIN L.records
         /\ \A t \in DOMAIN L.records : Listed(S, t) = L.records[t]
         /\ \A d \in S.decisions : /\ d.tokenDigest \in DOMAIN L.records
                                   /\ d.record = L.records[d.tokenDigest]
<1> DEFINE S == Snapshot(L)
<1>1. S.decisions = {[tokenDigest |-> t, record |-> L.records[t]] : t \in DOMAIN L.records}
  BY DEF Snapshot
<1> HIDE DEF S
<1>2. \A d \in S.decisions : /\ d.tokenDigest \in DOMAIN L.records
                             /\ d.record = L.records[d.tokenDigest]
  BY <1>1
<1>3. \A t \in DOMAIN L.records : \E d \in S.decisions : d.tokenDigest = t
  <2> TAKE t \in DOMAIN L.records
  <2>1. [tokenDigest |-> t, record |-> L.records[t]] \in S.decisions
    BY <1>1
  <2> QED
    BY <2>1
<1>4. Digests(S) = DOMAIN L.records
  BY <1>2, <1>3 DEF Digests
<1>5. \A t \in DOMAIN L.records : Listed(S, t) = L.records[t]
  BY <1>2, <1>3 DEF Listed
<1> QED
  BY <1>2, <1>4, <1>5 DEF S

(* Restoring the snapshot of a well-formed state gives a well-formed state. *)
LEMMA RestoredStateGood ==
  ASSUME NEW L, Good(L)
  PROVE  Good(RestoredState(Snapshot(L)))
<1> DEFINE S == Snapshot(L)
           R == RestoredState(S)
<1>1. /\ S.decisions = {[tokenDigest |-> t, record |-> L.records[t]] : t \in DOMAIN L.records}
      /\ S.phase = L.phase /\ S.lastTick = L.lastTick
  BY DEF Snapshot
<1>2. Digests(S) = DOMAIN L.records /\ \A t \in DOMAIN L.records : Listed(S, t) = L.records[t]
  BY SnapshotLists
<1>3. \A t \in DOMAIN L.records : Listed(S, t) = L.records[t]
  BY <1>2
<1>4. Indexed(S) = {t \in DOMAIN L.records : L.records[t].status = "active"}
  BY <1>2, <1>3 DEF Indexed
<1>5. R.records = [t \in DOMAIN L.records |-> L.records[t]]
  BY <1>2, <1>3 DEF RestoredState
<1>6. \A p \in {Listed(S, t).principal : t \in Indexed(S)} :
        /\ p \in DOMAIN L.activeByPrincipal
        /\ (CHOOSE t \in Indexed(S) : Listed(S, t).principal = p) = L.activeByPrincipal[p]
  BY <1>3, <1>4 DEF Good, IndexExact
<1>7. /\ \A p \in DOMAIN R.activeByPrincipal :
           /\ p \in DOMAIN L.activeByPrincipal
           /\ R.activeByPrincipal[p] = L.activeByPrincipal[p]
      /\ \A t \in DOMAIN L.records :
           L.records[t].status = "active" => L.records[t].principal \in DOMAIN R.activeByPrincipal
  BY <1>3, <1>4, <1>6 DEF RestoredState
<1>8. R.phase = L.phase /\ R.lastTick = L.lastTick
  BY DEF RestoredState, Snapshot
<1>9. LiveType(R)
  <2>1. IsMap(R.records, Tokens, DecisionRecord)
    BY <1>5 DEF Good, LiveType, IsMap
  <2>2. IsMap(R.activeByPrincipal, Principals, Tokens)
    <3>1. R.activeByPrincipal \in [DOMAIN R.activeByPrincipal -> Tokens]
      <4>1. R.activeByPrincipal = [p \in DOMAIN R.activeByPrincipal |-> R.activeByPrincipal[p]]
        BY DEF RestoredState
      <4> QED
        BY <1>7, <4>1 DEF Good, LiveType, IsMap
    <3> QED
      BY <1>7, <3>1 DEF Good, LiveType, IsMap
  <2> QED
    BY <2>1, <2>2 DEF Good, LiveType, RestoredState, Snapshot
<1>10. IndexExact(R) /\ ActiveInWindow(R)
  <2> HIDE DEF R, S
  <2> QED
    BY <1>5, <1>7, <1>8 DEF Good, IndexExact, ActiveInWindow
<1> QED
  BY <1>9, <1>10 DEF Good

(* The registry starts in the invariant. *)
LEMMA InitInv == Init => Inv
<1> SUFFICES ASSUME Init PROVE Inv
  OBVIOUS
<1>1. LiveType(live)
  BY SequenceAssumption
     DEF Init, LiveType, PristineState, IsMap, Phases, NullableTicks, NoTick
<1>2. IndexExact(live) /\ ActiveInWindow(live) /\ PristineNow
  BY DEF Init, PristineState, IndexExact, ActiveInWindow, PristineNow
<1> QED
  BY <1>1, <1>2, RecoveryAssumption
     DEF Init, Inv, Good, ReservedNow, MintingNow, CheckpointGood

(* Every step of the registry keeps the invariant. *)
LEMMA NextInv == Inv /\ [Next]_vars => Inv'
<1> SUFFICES ASSUME Inv, [Next]_vars PROVE Inv'
  OBVIOUS
<1>0. /\ Good(live) /\ LiveType(live) /\ IndexExact(live) /\ ActiveInWindow(live)
      /\ ReservedNow /\ MintingNow /\ CheckpointGood /\ PristineNow
      /\ recoveries \in 0 .. MaxRecoveries
  BY DEF Inv, Good
<1>a. live.lastTick \in Int /\ \A i \in Ticks : i \in Int /\ i >= 0
  BY <1>0, TickAssumption DEF LiveType, NullableTicks, NoTick, Ticks
<1>b. ASSUME NEW t \in DOMAIN live.records
      PROVE  live.records[t] \in DecisionRecord
  BY <1>0 DEF LiveType, IsMap
<1>1. ASSUME NEW p \in Principals, NEW i \in Ticks, NEW v \in Ticks, MintRequest(p, i, v)
      PROVE  Inv'
  <2>1. minting' \in Mints /\ minting'.issuedTick = i /\ minting'.principal = p
        /\ minting'.issuedTick <= minting'.validThroughTick
    BY <1>1, DrawAssumption DEF MintRequest, Mints
  <2>2. MintingNow'
    BY <1>1, <2>1 DEF MintRequest, MintingNow, CheckTick, HasActiveDecision
  <2> QED
    BY <1>0, <1>1, <2>2
       DEF MintRequest, Inv, ReservedNow, CheckpointGood, PristineNow, Operable, outside
<1>2. ASSUME MintReentered PROVE Inv'
  <2>1. MintingNow'
    BY <1>0, <1>2 DEF MintReentered, MintingNow, Mints, CheckTick, HasActiveDecision
  <2> QED
    BY <1>0, <1>2, <2>1
       DEF MintReentered, Inv, ReservedNow, CheckpointGood, PristineNow, outside
<1>3. ASSUME NEW t \in Tokens, MintFresh(t) PROVE Inv'
  <2>1. Good(MintedState(live, t, minting))
    BY <1>0, <1>3, MintedStateGood DEF MintFresh, MintingNow, HasActiveDecision, CheckTick
  <2>2. ~MintedState(live, t, minting).restoreAllowed
    BY <1>0 DEF MintedState, CommitTick, LiveType
  <2>3. reservation = None
    BY <1>0, <1>3 DEF MintFresh, ReservedNow
  <2> QED
    BY <1>0, <1>3, <2>1, <2>2, <2>3
       DEF MintFresh, Inv, ReservedNow, MintingNow, CheckpointGood, PristineNow, outside
<1>4. ASSUME MintCollision PROVE Inv'
  <2>1. MintingNow'
    BY <1>0, <1>4, DrawAssumption
       DEF MintCollision, MintingNow, Mints, CheckTick, HasActiveDecision
  <2> QED
    BY <1>0, <1>4, <2>1
       DEF MintCollision, Inv, ReservedNow, CheckpointGood, PristineNow, outside
<1>5. ASSUME MintFailed PROVE Inv'
  BY <1>0, <1>5
     DEF MintFailed, Inv, ReservedNow, MintingNow, CheckpointGood, PristineNow, outside
<1>6. ASSUME NEW t \in Tokens, NEW p \in Principals, NEW i \in Ticks, Operable,
             Presented(t, p, i), live' = CommitTick(live, i),
             UNCHANGED <<reservation, minting, outside>>
      PROVE  Inv'
  <2>1. \A r \in DOMAIN live.records :
          live.records[r].status = "active" => live.records[r].issuedTick <= i
    <3> SUFFICES ASSUME NEW r \in DOMAIN live.records, live.records[r].status = "active"
                 PROVE  live.records[r].issuedTick <= i
      OBVIOUS
    <3>1. live.records[r].issuedTick <= live.lastTick
      BY <1>0, <1>a, <1>b DEF ActiveInWindow, DecisionRecord
    <3> QED
      BY <1>6, <1>a, <1>b, <3>1 DEF Presented, CheckTick, DecisionRecord
  <2>2. Good(live')
    BY <1>0, <1>6, <2>1, CommitTickGood DEF Presented, Admitting
  <2>3. ~live'.restoreAllowed
    BY <1>0, <1>6 DEF Presented, PristineNow, CommitTick, LiveType
  <2> QED
    BY <1>0, <1>6, <2>2, <2>3
       DEF Operable, Inv, ReservedNow, MintingNow, CheckpointGood, PristineNow, outside
<1>7. ASSUME NEW t \in Tokens, NEW p \in Principals, NEW i \in Ticks, AdmitRead(t, p, i)
      PROVE  Inv'
  BY <1>6, <1>7 DEF AdmitRead, Admissible
<1>8. ASSUME NEW t \in Tokens, NEW p \in Principals, NEW i \in Ticks, RefuseLateToken(t, p, i)
      PROVE  Inv'
  BY <1>6, <1>8 DEF RefuseLateToken
<1>9. ASSUME NEW t \in Tokens, NEW p \in Principals, NEW i \in Ticks, ReserveForAct(t, p, i)
      PROVE  Inv'
  <2>1. ReservedNow'
    BY <1>0, <1>9
       DEF ReserveForAct, ReservedNow, Operable, Admissible, Presented, CheckTick, Admitting,
           outside
  <2> QED
    BY <1>0, <1>9, <2>1
       DEF ReserveForAct, Inv, MintingNow, CheckpointGood, PristineNow, Operable, outside
<1>10. ASSUME NEW t, NEW p, NEW i \in Ticks, Admissible(t, p, i)
       PROVE  /\ Good(ConsumedState(live, t, i))
              /\ ~ConsumedState(live, t, i).restoreAllowed
  BY <1>0, <1>10, ConsumedStateGood
     DEF Admissible, Presented, CheckTick, ConsumedState, LiveType
<1>11. ASSUME CommitReservation PROVE Inv'
  <2>1. Good(live') /\ ~live'.restoreAllowed
    BY <1>0, <1>10, <1>11 DEF CommitReservation, ReservedNow
  <2> QED
    BY <1>0, <1>11, <2>1
       DEF CommitReservation, Inv, ReservedNow, MintingNow, CheckpointGood, PristineNow, outside
<1>12. ASSUME AbortReservation PROVE Inv'
  BY <1>0, <1>12
     DEF AbortReservation, Inv, ReservedNow, MintingNow, CheckpointGood, PristineNow, outside,
         CheckTick, HasActiveDecision
<1>13. ASSUME NEW t \in Tokens, NEW p \in Principals, NEW i \in Ticks, ConsumeForAct(t, p, i)
       PROVE  Inv'
  BY <1>0, <1>10, <1>13
     DEF ConsumeForAct, Operable, Inv, ReservedNow, MintingNow, CheckpointGood, PristineNow,
         outside
<1>14. ASSUME NEW i \in Ticks, NEW ph \in Phases, NEW A, Transition(i, ph, A),
              \E f \in {"cutoffTick", "admissionsClosedTick", "finalizedTick"},
                 next \in Phases :
                A = [[live EXCEPT !.phase = next] EXCEPT ![f] = i],
              A.phase \in {"open", "cutoff"} \/ ~HasActiveDecisionAt(live, i)
       PROVE  Inv'
  <2>1. LiveType(A) /\ A.records = live.records
        /\ A.activeByPrincipal = live.activeByPrincipal
    BY <1>0, <1>14 DEF LiveType, NullableTicks
  <2>2. IndexExact(A) /\ (HasActiveDecisionAt(A, i) <=> HasActiveDecisionAt(live, i))
    BY <1>0, <2>1 DEF IndexExact, HasActiveDecisionAt
  <2>3. \A r \in DOMAIN A.records :
          A.records[r].status = "active" => A.records[r].issuedTick <= i
    <3> SUFFICES ASSUME NEW r \in DOMAIN live.records, live.records[r].status = "active"
                 PROVE  live.records[r].issuedTick <= i
      BY <2>1
    <3>1. live.records[r].issuedTick <= live.lastTick
      BY <1>0, <1>a, <1>b DEF ActiveInWindow, DecisionRecord
    <3> QED
      BY <1>14, <1>a, <1>b, <3>1 DEF Transition, CheckTick, DecisionRecord
  <2>4. Good(CommitTick(A, i))
    BY <1>14, <2>1, <2>2, <2>3, CommitTickGood
  <2>5. Good(live') /\ ~live'.restoreAllowed
    BY <1>14, <2>4, ZenonT(60) DEF Transition, Good, LiveType, IndexExact, ActiveInWindow
  <2> QED
    BY <1>0, <1>14, <2>5
       DEF Transition, Operable, Inv, ReservedNow, MintingNow, CheckpointGood, PristineNow,
           outside
<1>15. ASSUME NEW i \in Ticks, BeginCutoff(i) PROVE Inv'
  <2> DEFINE A == [live EXCEPT !.phase = "cutoff", !.cutoffTick = i]
  <2>1. A = [[live EXCEPT !.phase = "cutoff"] EXCEPT !["cutoffTick"] = i] /\ A.phase = "cutoff"
    BY <1>0 DEF LiveType
  <2> HIDE DEF A
  <2> QED
    BY <1>14, <1>15, <2>1 DEF BeginCutoff, Phases, A
<1>16. ASSUME NEW i \in Ticks, CloseAdmissions(i) PROVE Inv'
  <2> DEFINE A == [live EXCEPT !.phase = "admissions_closed", !.admissionsClosedTick = i]
  <2>1. A = [[live EXCEPT !.phase = "admissions_closed"] EXCEPT !["admissionsClosedTick"] = i]
    BY <1>0 DEF LiveType
  <2> HIDE DEF A
  <2> QED
    BY <1>14, <1>16, <2>1 DEF CloseAdmissions, Phases, A
<1>17. ASSUME NEW i \in Ticks, Finalize(i) PROVE Inv'
  <2> DEFINE A == [live EXCEPT !.phase = "finalized", !.finalizedTick = i]
  <2>1. A = [[live EXCEPT !.phase = "finalized"] EXCEPT !["finalizedTick"] = i]
    BY <1>0 DEF LiveType
  <2>2. ~HasActiveDecisionAt(live, i)
    BY <1>0, <1>17 DEF Finalize, Transition, ActiveInWindow, HasActiveDecisionAt
  <2> HIDE DEF A
  <2> QED
    BY <1>14, <1>17, <2>1, <2>2 DEF Finalize, Phases, A
<1>18. ASSUME TakeSnapshot PROVE Inv'
  <2>1. CheckpointGood'
    BY <1>0, <1>18 DEF TakeSnapshot, CheckpointGood, process
  <2> QED
    BY <1>0, <1>18, <2>1
       DEF TakeSnapshot, process, Operable, Inv, ReservedNow, MintingNow, PristineNow
<1>19. ASSUME checkpoint # None
       PROVE  /\ Good(RestoredState(checkpoint))
              /\ ~RestoredState(checkpoint).restoreAllowed
  BY <1>0, <1>19, RestoredStateGood DEF CheckpointGood, RestoredState
<1>20. ASSUME Restore PROVE Inv'
  BY <1>0, <1>19, <1>20
     DEF Restore, Operable, Inv, ReservedNow, MintingNow, CheckpointGood, PristineNow, outside
<1>21. ASSUME Recover PROVE Inv'
  BY <1>0, <1>19, <1>21, RecoveryAssumption
     DEF Recover, Inv, ReservedNow, MintingNow, CheckpointGood, PristineNow
<1>22. ASSUME UNCHANGED vars PROVE Inv'
  BY <1>0, <1>22
     DEF vars, Inv, ReservedNow, MintingNow, CheckpointGood, PristineNow, Admissible,
         Presented, CheckTick, Admitting, HasActiveDecision
<1> QED
  BY <1>1, <1>2, <1>3, <1>4, <1>5, <1>7, <1>8, <1>9, <1>11, <1>12, <1>13, <1>15, <1>16,
     <1>17, <1>18, <1>20, <1>21, <1>22 DEF Next

(* Reservation and mint of a state in the invariant have their declared types. *)
LEMMA InvTypeOK == Inv => TypeOK
<1> SUFFICES ASSUME Inv PROVE TypeOK
  OBVIOUS
<1>1. ASSUME reservation # None
      PROVE  /\ reservation \in [token : Tokens, atTick : Ticks,
                                 committed : {reservation.committed}]
             /\ LiveType(reservation.committed)
  <2>1. Good(ConsumedState(live, reservation.token, reservation.atTick))
    BY <1>1, ConsumedStateGood DEF Inv, ReservedNow, Admissible, Presented, CheckTick
  <2> QED
    BY <1>1, <2>1 DEF Inv, ReservedNow, Good
<1> QED
  BY <1>1 DEF Inv, TypeOK, Good, MintingNow

(* What DecisionsMonotone asks of a step from L to M. *)
Grows(L, M) ==
  /\ DOMAIN L.records \subseteq DOMAIN M.records
  /\ \A t \in DOMAIN L.records :
       /\ M.records[t] = [L.records[t] EXCEPT !.status = M.records[t].status]
       /\ L.records[t].status # "active" => M.records[t].status = L.records[t].status
  /\ L.nextDecisionSequence <= M.nextDecisionSequence
  /\ L.lastTick <= M.lastTick

(* What ConsumedInWindow asks of a step from L to M. *)
Spends(L, M) ==
  \A t \in DOMAIN L.records :
    L.records[t].status = "active" /\ M.records[t].status = "consumed" =>
      /\ M.lastTick \in L.records[t].issuedTick .. L.records[t].validThroughTick
      /\ L.phase \in {"open", "cutoff"}
      /\ L.phase = M.phase

(* Expiry at a tick that does not go back forgets no decision and consumes none. *)
LEMMA CommitTickStep ==
  ASSUME NEW L, Good(L), NEW atTick \in Ticks, atTick >= L.lastTick
  PROVE  /\ Grows(L, CommitTick(L, atTick))
         /\ Spends(L, CommitTick(L, atTick))
         /\ \A t \in DOMAIN L.records : CommitTick(L, atTick).records[t].status = "consumed" =>
              L.records[t].status = "consumed"
<1> DEFINE C == CommitTick(L, atTick)
<1>1. /\ C.lastTick = atTick
      /\ C.records = [t \in DOMAIN L.records |-> Expire(L.records[t], atTick)]
      /\ C.nextDecisionSequence = L.nextDecisionSequence
  BY DEF CommitTick, LiveType, Good
<1>2. \A t \in DOMAIN L.records :
        /\ L.records[t] \in DecisionRecord
        /\ Expire(L.records[t], atTick) =
             [L.records[t] EXCEPT !.status = Expire(L.records[t], atTick).status]
        /\ L.records[t].status # "active" => Expire(L.records[t], atTick) = L.records[t]
        /\ Expire(L.records[t], atTick).status = "consumed" => L.records[t].status = "consumed"
  BY DEF LiveType, IsMap, DecisionRecord, Expire, Late, Good
<1>3. L.nextDecisionSequence \in Int
  BY SequenceAssumption DEF Good, LiveType
<1> HIDE DEF C
<1>4. Grows(L, C)
  BY <1>1, <1>2, <1>3 DEF Grows
<1>5. Spends(L, C)
  BY <1>1, <1>2 DEF Spends
<1> QED
  BY <1>1, <1>2, <1>4, <1>5 DEF C

(* Consumption inside the window forgets no decision and consumes only this one. *)
LEMMA ConsumedStateStep ==
  ASSUME NEW L, Good(L), NEW token \in DOMAIN L.records, NEW atTick \in Ticks,
         L.records[token].status = "active", atTick >= L.lastTick,
         atTick <= L.records[token].validThroughTick
  PROVE  /\ Grows(L, ConsumedState(L, token, atTick))
         /\ Spends(L, ConsumedState(L, token, atTick))
<1> DEFINE C == ConsumedState(L, token, atTick)
<1>1. /\ C.lastTick = atTick
      /\ C.records = [t \in DOMAIN L.records |->
                        IF t = token THEN [L.records[t] EXCEPT !.status = "consumed"]
                        ELSE Expire(L.records[t], atTick)]
      /\ C.phase = L.phase
      /\ C.nextDecisionSequence = L.nextDecisionSequence
  BY DEF ConsumedState, LiveType, Good
<1>2. \A t \in DOMAIN L.records :
        /\ L.records[t] \in DecisionRecord
        /\ Expire(L.records[t], atTick) =
             [L.records[t] EXCEPT !.status = Expire(L.records[t], atTick).status]
        /\ L.records[t].status # "active" => Expire(L.records[t], atTick) = L.records[t]
        /\ Expire(L.records[t], atTick).status = "consumed" => L.records[t].status = "consumed"
  BY DEF LiveType, IsMap, DecisionRecord, Expire, Late, Good
<1>3. /\ L.nextDecisionSequence \in Int /\ L.lastTick \in Int /\ atTick \in Int
      /\ L.records[token].issuedTick \in Int
      /\ L.records[token].validThroughTick \in Int
      /\ L.records[token].issuedTick <= L.lastTick
      /\ L.phase \in {"open", "cutoff"}
  BY <1>2, SequenceAssumption, TickAssumption
     DEF Good, LiveType, ActiveInWindow, DecisionRecord, NullableTicks, NoTick, Ticks
<1>4. [L.records[token] EXCEPT !.status = "consumed"].status = "consumed"
  BY <1>2 DEF DecisionRecord
<1> HIDE DEF C
<1>5. Grows(L, C)
  BY <1>1, <1>2, <1>3, <1>4 DEF Grows
<1>6. Spends(L, C)
  <2>1. \A t \in DOMAIN L.records :
          L.records[t].status = "active" /\ C.records[t].status = "consumed" => t = token
    BY <1>1, <1>2
  <2>2. atTick \in L.records[token].issuedTick .. L.records[token].validThroughTick
    BY <1>3
  <2> QED
    BY <1>1, <1>3, <2>1, <2>2 DEF Spends
<1> QED
  BY <1>5, <1>6 DEF C

(* A mint forgets no decision and consumes none. *)
LEMMA MintedStateStep ==
  ASSUME NEW L, Good(L), NEW token, token \notin DOMAIN L.records,
         NEW request \in Mints, request.issuedTick >= L.lastTick
  PROVE  /\ Grows(L, MintedState(L, token, request))
         /\ Spends(L, MintedState(L, token, request))
<1> DEFINE E == CommitTick(L, request.issuedTick)
           M == MintedState(L, token, request)
<1>1. request.issuedTick \in Ticks /\ LiveType(L)
  BY DEF Mints, Good
<1>2. LiveType(E) /\ E.lastTick = request.issuedTick
  BY <1>1, CommitTickFields
<1>3. /\ Grows(L, E)
      /\ \A t \in DOMAIN L.records : E.records[t].status = "consumed" =>
           L.records[t].status = "consumed"
  BY <1>1, CommitTickStep
<1>4. /\ M.records = [t \in DOMAIN E.records \cup {token} |->
                        IF t = token THEN NewRecord(L, request) ELSE E.records[t]]
      /\ M.nextDecisionSequence = L.nextDecisionSequence + 1
      /\ M.lastTick = E.lastTick
  <2> HIDE DEF E
  <2> QED
    BY <1>2 DEF MintedState, LiveType, E
<1>5. L.nextDecisionSequence \in Int
  BY <1>1, SequenceAssumption DEF LiveType
<1> HIDE DEF E, M
<1>6. /\ DOMAIN E.records \subseteq DOMAIN M.records
      /\ \A t \in DOMAIN L.records : M.records[t] = E.records[t]
  BY <1>3, <1>4 DEF Grows
<1>7. Grows(L, M)
  BY <1>3, <1>4, <1>5, <1>6 DEF Grows
<1>8. Spends(L, M)
  BY <1>3, <1>6 DEF Spends
<1> QED
  BY <1>7, <1>8 DEF M

(* A phase transition forgets no decision and consumes none. *)
LEMMA AdvancedStateStep ==
  ASSUME NEW L, Good(L), NEW A, LiveType(A), A.records = L.records,
         A.nextDecisionSequence = L.nextDecisionSequence,
         NEW atTick \in Ticks, atTick >= L.lastTick
  PROVE  /\ Grows(L, [CommitTick(A, atTick) EXCEPT !.restoreAllowed = FALSE])
         /\ Spends(L, [CommitTick(A, atTick) EXCEPT !.restoreAllowed = FALSE])
<1> DEFINE E == CommitTick(L, atTick)
           F == CommitTick(A, atTick)
           M == [F EXCEPT !.restoreAllowed = FALSE]
<1>1. LiveType(L)
  BY DEF Good
<1>2. /\ Grows(L, E)
      /\ \A t \in DOMAIN L.records : E.records[t].status = "consumed" =>
           L.records[t].status = "consumed"
  BY CommitTickStep
<1>3. /\ LiveType(F) /\ F.lastTick = atTick
      /\ F.records = [t \in DOMAIN A.records |-> Expire(A.records[t], atTick)]
      /\ F.nextDecisionSequence = A.nextDecisionSequence
  BY CommitTickFields
<1>4. /\ E.lastTick = atTick
      /\ E.records = [t \in DOMAIN L.records |-> Expire(L.records[t], atTick)]
      /\ E.nextDecisionSequence = L.nextDecisionSequence
  BY <1>1, CommitTickFields
<1> HIDE DEF E, F
<1>5. /\ M.records = E.records /\ M.lastTick = E.lastTick
      /\ M.nextDecisionSequence = E.nextDecisionSequence
  BY <1>3, <1>4 DEF LiveType
<1> HIDE DEF M
<1>6. Grows(L, M)
  BY <1>2, <1>5 DEF Grows
<1>7. Spends(L, M)
  BY <1>2, <1>5 DEF Spends
<1> QED
  BY <1>6, <1>7 DEF F, M

(* Every step within one process grows the live state and spends only as it may. *)
LEMMA StepGrows ==
  ASSUME Inv, [Next]_vars, recoveries' = recoveries
  PROVE  live' = live \/ (Grows(live, live') /\ Spends(live, live'))
<1>0. /\ Good(live) /\ ReservedNow /\ MintingNow /\ CheckpointGood /\ PristineNow
      /\ LiveType(live) /\ ActiveInWindow(live)
  BY DEF Inv, Good
<1>a. /\ live.lastTick \in Int /\ live.lastTick >= NoTick
      /\ live.nextDecisionSequence \in Nat \ {0}
      /\ \A t \in DOMAIN live.records : live.records[t] \in DecisionRecord
  BY <1>0, TickAssumption, SequenceAssumption
     DEF LiveType, IsMap, NullableTicks, NoTick, Ticks
<1>1. ASSUME NEW t \in Tokens, MintFresh(t)
      PROVE  Grows(live, live') /\ Spends(live, live')
  BY <1>0, <1>1, MintedStateStep DEF MintFresh, MintingNow, CheckTick
<1>2. ASSUME NEW t \in Tokens, NEW p \in Principals, NEW i \in Ticks,
             AdmitRead(t, p, i) \/ RefuseLateToken(t, p, i)
      PROVE  Grows(live, live') /\ Spends(live, live')
  BY <1>0, <1>2, CommitTickStep DEF AdmitRead, RefuseLateToken, Admissible, Presented, CheckTick
<1>3. ASSUME NEW t, NEW p, NEW i \in Ticks, Admissible(t, p, i),
             live' = ConsumedState(live, t, i)
      PROVE  Grows(live, live') /\ Spends(live, live')
  BY <1>0, <1>3, ConsumedStateStep DEF Admissible, Presented, CheckTick
<1>4. ASSUME CommitReservation
      PROVE  Grows(live, live') /\ Spends(live, live')
  BY <1>0, <1>3, <1>4 DEF CommitReservation, ReservedNow
<1>5. ASSUME NEW t \in Tokens, NEW p \in Principals, NEW i \in Ticks, ConsumeForAct(t, p, i)
      PROVE  Grows(live, live') /\ Spends(live, live')
  BY <1>3, <1>5 DEF ConsumeForAct
<1>6. ASSUME NEW i \in Ticks, BeginCutoff(i) \/ CloseAdmissions(i) \/ Finalize(i)
      PROVE  Grows(live, live') /\ Spends(live, live')
  <2>1. i >= live.lastTick
    BY <1>6 DEF BeginCutoff, CloseAdmissions, Finalize, Transition, CheckTick
  <2>2. \E A : /\ live' = [CommitTick(A, i) EXCEPT !.restoreAllowed = FALSE]
               /\ LiveType(A) /\ A.records = live.records
               /\ A.nextDecisionSequence = live.nextDecisionSequence
    <3>1. CASE BeginCutoff(i)
      <4> DEFINE A == [live EXCEPT !.phase = "cutoff", !.cutoffTick = i]
      <4>1. /\ LiveType(A) /\ A.records = live.records
            /\ A.nextDecisionSequence = live.nextDecisionSequence
        BY <1>0 DEF LiveType, NullableTicks, Phases
      <4> HIDE DEF A
      <4> QED
        BY <3>1, <4>1 DEF BeginCutoff, Transition, A
    <3>2. CASE CloseAdmissions(i)
      <4> DEFINE A == [live EXCEPT !.phase = "admissions_closed", !.admissionsClosedTick = i]
      <4>1. /\ LiveType(A) /\ A.records = live.records
            /\ A.nextDecisionSequence = live.nextDecisionSequence
        BY <1>0 DEF LiveType, NullableTicks, Phases
      <4> HIDE DEF A
      <4> QED
        BY <3>2, <4>1 DEF CloseAdmissions, Transition, A
    <3>3. CASE Finalize(i)
      <4> DEFINE A == [live EXCEPT !.phase = "finalized", !.finalizedTick = i]
      <4>1. /\ LiveType(A) /\ A.records = live.records
            /\ A.nextDecisionSequence = live.nextDecisionSequence
        BY <1>0 DEF LiveType, NullableTicks, Phases
      <4> HIDE DEF A
      <4> QED
        BY <3>3, <4>1 DEF Finalize, Transition, A
    <3> QED
      BY <1>6, <3>1, <3>2, <3>3
  <2> QED
    BY <1>0, <2>1, <2>2, AdvancedStateStep
<1>7. ASSUME Restore
      PROVE  Grows(live, live') /\ Spends(live, live')
  <2>1. Good(live')
    BY <1>0, <1>7, RestoredStateGood DEF Restore, CheckpointGood
  <2>2. /\ live'.lastTick \in Int /\ live'.lastTick >= NoTick
        /\ live'.nextDecisionSequence \in Nat \ {0}
    BY <2>1, TickAssumption, SequenceAssumption DEF Good, LiveType, NullableTicks, NoTick, Ticks
  <2> QED
    BY <1>0, <1>7, <2>2 DEF Restore, PristineNow, Grows, Spends, NoTick
<1>8. ASSUME Recover PROVE FALSE
  <2>1. recoveries' = recoveries + 1
    BY <1>8 DEF Recover
  <2> QED
    BY <2>1, RecoveryAssumption DEF Inv
<1>9. ASSUME \/ \E p \in Principals, i, v \in Ticks : MintRequest(p, i, v)
             \/ MintReentered \/ MintCollision \/ MintFailed \/ AbortReservation
             \/ \E t \in Tokens, p \in Principals, i \in Ticks : ReserveForAct(t, p, i)
             \/ TakeSnapshot \/ UNCHANGED vars
      PROVE  live' = live
  BY <1>9 DEF MintRequest, MintReentered, MintCollision, MintFailed, AbortReservation,
              ReserveForAct, TakeSnapshot, process, vars
<1> QED
  BY <1>1, <1>2, <1>4, <1>5, <1>6, <1>7, <1>8, <1>9 DEF Next

(* Spec => []Inv, from which the theorems below follow. *)
LEMMA Invariance == Spec => []Inv
<1>1. Init => Inv
  BY InitInv
<1>2. Inv /\ [Next]_vars => Inv'
  BY NextInv
<1> QED
  BY <1>1, <1>2, PTL DEF Spec

(* The registry's variables keep their declared types, for any number of principals,
   tokens, ticks, decisions and recoveries. *)
THEOREM TypeCorrect == Spec => []TypeOK
<1> QED
  BY Invariance, InvTypeOK, PTL

(* The index of active decisions and the record statuses never disagree. *)
THEOREM ActiveIndexIsExact == Spec => []ActiveIndexExact
<1>1. Inv => ActiveIndexExact
  BY DEF Inv, Good, ActiveIndexExact
<1> QED
  BY <1>1, Invariance, PTL

(* No decision is active outside its window or after admissions were closed. *)
THEOREM NeverStaleActive == Spec => []NoStaleActive
<1>1. Inv => NoStaleActive
  BY DEF Inv, Good, NoStaleActive
<1> QED
  BY <1>1, Invariance, PTL

(* What an act reserved is what consumption would build when it commits. *)
THEOREM ReservationStaysCurrent == Spec => []ReservationCurrent
<1>1. Inv => ReservationCurrent
  <2> SUFFICES ASSUME Inv, reservation # None
               PROVE  /\ reservation.token \in DOMAIN live.records
                      /\ reservation.committed =
                           ConsumedState(live, reservation.token, reservation.atTick)
    BY DEF ReservationCurrent
  <2>1. reservation = [token |-> reservation.token, atTick |-> reservation.atTick,
          committed |-> ConsumedState(live, reservation.token, reservation.atTick)]
    BY DEF Inv, ReservedNow
  <2>2. reservation.token \in DOMAIN live.records
    BY DEF Inv, ReservedNow, Admissible, Presented
  <2> QED
    BY <2>1, <2>2
<1> QED
  BY <1>1, Invariance, PTL

(* Within one process no decision is forgotten, renumbered or revived. *)
THEOREM DecisionsGrow == Spec => DecisionsMonotone
<1>1. Inv /\ [Next]_vars =>
        [ recoveries' = recoveries =>
            /\ DOMAIN live.records \subseteq DOMAIN live'.records
            /\ \A t \in DOMAIN live.records :
                 LET old == live.records[t] new == live'.records[t] IN
                 /\ new = [old EXCEPT !.status = new.status]
                 /\ old.status # "active" => new.status = old.status
            /\ live.nextDecisionSequence <= live'.nextDecisionSequence
            /\ live.lastTick <= live'.lastTick ]_live
  BY StepGrows DEF Grows
<1> QED
  BY <1>1, Invariance, PTL DEF Spec, DecisionsMonotone

(* A checkpoint lists the records of the state it was taken from, and restoring it
   gives them back. *)
LEMMA RestoredRecords ==
  ASSUME NEW L, Good(L), NEW d \in Snapshot(L).decisions
  PROVE  /\ d.tokenDigest \in DOMAIN L.records
         /\ d.record = L.records[d.tokenDigest]
         /\ RestoredState(Snapshot(L)).records = [t \in DOMAIN L.records |-> L.records[t]]
<1>1. /\ d.tokenDigest \in DOMAIN L.records /\ d.record = L.records[d.tokenDigest]
      /\ Digests(Snapshot(L)) = DOMAIN L.records
      /\ \A t \in DOMAIN L.records : Listed(Snapshot(L), t) = L.records[t]
  BY SnapshotLists
<1> QED
  BY <1>1 DEF RestoredState

(* A step leaves what the checkpoint records behind it. *)
LEMMA PastStep == Inv /\ CheckpointIsPast /\ [Next]_vars => CheckpointIsPast'
<1> SUFFICES ASSUME Inv, CheckpointIsPast, [Next]_vars, checkpoint' # None,
                    NEW d \in checkpoint'.decisions
             PROVE  /\ d.tokenDigest \in DOMAIN live'.records
                    /\ live'.records[d.tokenDigest] =
                         [d.record EXCEPT !.status = live'.records[d.tokenDigest].status]
                    /\ d.record.status # "active" =>
                         live'.records[d.tokenDigest].status = d.record.status
  BY DEF CheckpointIsPast
<1>1. \A L : Good(L) => \A t \in DOMAIN L.records : L.records[t] \in DecisionRecord
  BY DEF Good, LiveType, IsMap
<1>2. \A r \in DecisionRecord : r = [r EXCEPT !.status = r.status]
  BY DEF DecisionRecord
<1>3. CASE TakeSnapshot
  <2>1. Good(live) /\ live' = live /\ checkpoint' = Snapshot(live)
    BY <1>3 DEF Inv, TakeSnapshot, process
  <2>2. d.tokenDigest \in DOMAIN live.records /\ d.record = live.records[d.tokenDigest]
    BY <2>1, RestoredRecords
  <2>3. live.records[d.tokenDigest] \in DecisionRecord
    BY <1>1, <2>1, <2>2
  <2> QED
    BY <1>2, <2>1, <2>2, <2>3
<1>4. CASE Recover
  <2>1. live' = RestoredState(checkpoint) /\ checkpoint' = checkpoint
    BY <1>4 DEF Recover
  <2>2. PICK L : Good(L) /\ checkpoint = Snapshot(L)
    BY <2>1 DEF Inv, CheckpointGood
  <2>3. /\ d.tokenDigest \in DOMAIN L.records
        /\ d.record = L.records[d.tokenDigest]
        /\ live'.records = [t \in DOMAIN L.records |-> L.records[t]]
    BY <2>1, <2>2, RestoredRecords
  <2>4. live'.records[d.tokenDigest] = d.record /\ d.record \in DecisionRecord
    BY <1>1, <2>2, <2>3
  <2>5. d.tokenDigest \in DOMAIN live'.records
    BY <2>3
  <2> QED
    BY <1>2, <2>4, <2>5
<1>5. CASE ~TakeSnapshot /\ ~Recover
  <2>1. checkpoint' = checkpoint /\ recoveries' = recoveries
    BY <1>5 DEF Next, MintRequest, MintReentered, MintFresh, MintCollision, MintFailed, AdmitRead,
                RefuseLateToken, ReserveForAct, ConsumeForAct, CommitReservation,
                AbortReservation, BeginCutoff, CloseAdmissions, Finalize, Transition, Restore,
                outside, vars
  <2>2. /\ d.tokenDigest \in DOMAIN live.records
        /\ live.records[d.tokenDigest] =
             [d.record EXCEPT !.status = live.records[d.tokenDigest].status]
        /\ d.record.status # "active" => live.records[d.tokenDigest].status = d.record.status
    BY <2>1 DEF CheckpointIsPast
  <2>3. CASE live' = live
    BY <2>2, <2>3
  <2>4. CASE live' # live
    <3>1. Grows(live, live')
      BY <2>1, <2>4, StepGrows
    <3> DEFINE old == live.records[d.tokenDigest]
               new == live'.records[d.tokenDigest]
    <3>2. d.tokenDigest \in DOMAIN live'.records /\ new = [old EXCEPT !.status = new.status]
          /\ (old.status # "active" => new.status = old.status)
      BY <2>2, <3>1 DEF Grows
    <3>3. new = [d.record EXCEPT !.status = new.status]
      <4> HIDE DEF old, new
      <4>1. \A a, b : [[d.record EXCEPT !.status = a] EXCEPT !.status = b] =
                        [d.record EXCEPT !.status = b]
        OBVIOUS
      <4> QED
        BY <2>2, <3>2, <4>1 DEF old
    <3> QED
      BY <2>2, <3>2, <3>3
  <2> QED
    BY <2>3, <2>4
<1> QED
  BY <1>3, <1>4, <1>5

(* What a checkpoint has recorded stays recorded, across crashes and recoveries. *)
THEOREM CheckpointStaysPast == Spec => []CheckpointIsPast
<1>1. Init => CheckpointIsPast
  BY DEF Init, CheckpointIsPast
<1> QED
  BY <1>1, PastStep, Invariance, PTL DEF Spec

(* A decision is consumed only inside its window, while admissions are open. *)
THEOREM ConsumedOnlyInWindow == Spec => ConsumedInWindow
<1>1. Inv /\ CheckpointIsPast /\ [Next]_vars =>
        [ \A t \in DOMAIN live.records \cap DOMAIN live'.records :
            live.records[t].status = "active" /\ live'.records[t].status = "consumed" =>
              /\ live'.lastTick \in
                   live.records[t].issuedTick .. live.records[t].validThroughTick
              /\ live.phase \in {"open", "cutoff"}
              /\ live.phase = live'.phase ]_live
  <2> SUFFICES ASSUME Inv, CheckpointIsPast, [Next]_vars,
                      NEW t \in DOMAIN live.records \cap DOMAIN live'.records,
                      live.records[t].status = "active", live'.records[t].status = "consumed"
               PROVE  /\ live'.lastTick \in
                           live.records[t].issuedTick .. live.records[t].validThroughTick
                      /\ live.phase \in {"open", "cutoff"}
                      /\ live.phase = live'.phase
    OBVIOUS
  <2>1. CASE recoveries' = recoveries
    BY <2>1, StepGrows DEF Spends
  <2>2. CASE Recover
    <3>1. PICK L : Good(L) /\ checkpoint = Snapshot(L)
      BY <2>2 DEF Recover, Inv, CheckpointGood
    <3>2. t \in DOMAIN RestoredState(Snapshot(L)).records
      BY <2>2, <3>1 DEF Recover
    <3> DEFINE S == Snapshot(L)
    <3>3. t \in Digests(S)
      BY <3>2 DEF RestoredState
    <3>4. PICK d \in S.decisions : d.tokenDigest = t
      BY <3>3 DEF Digests
    <3>5. live'.records[t] = d.record
      <4>1. /\ t \in DOMAIN L.records /\ d.record = L.records[t]
            /\ RestoredState(Snapshot(L)).records = [r \in DOMAIN L.records |-> L.records[r]]
        BY <3>1, <3>4, RestoredRecords
      <4>2. live' = RestoredState(Snapshot(L))
        BY <2>2, <3>1 DEF Recover
      <4> QED
        BY <4>1, <4>2
    <3>6. (d.record.status # "active" => live.records[t].status = d.record.status)
      <4>1. checkpoint # None
        BY <2>2 DEF Recover
      <4>2. d \in checkpoint.decisions
        BY <3>1, <3>4
      <4> QED
        BY <3>4, <4>1, <4>2 DEF CheckpointIsPast
    <3>7. d.record.status = "consumed"
      BY <3>5
    <3> QED
      BY <3>6, <3>7
  <2>3. CASE ~Recover
    <3>1. recoveries' = recoveries
      BY <2>3 DEF Next, MintRequest, MintReentered, MintFresh, MintCollision, MintFailed,
                  AdmitRead, RefuseLateToken, ReserveForAct, ConsumeForAct, CommitReservation,
                  AbortReservation, BeginCutoff, CloseAdmissions, Finalize, Transition, Restore,
                  TakeSnapshot, outside, vars
    <3> QED
      BY <2>1, <3>1
  <2> QED
    BY <2>2, <2>3
<1> QED
  BY <1>1, Invariance, CheckpointStaysPast, PTL DEF Spec, ConsumedInWindow

(***************************************************************************)
(* What the snapshot of a state is, and that the parser accepts it.  The   *)
(* parser asks how the decisions of one principal follow one another, and  *)
(* whether some call can have committed the last tick; Parsable says the   *)
(* same of the live state, a part at a time, and every operation keeps it. *)
(***************************************************************************)
Counted(L) ==
  /\ IsFiniteSet(DOMAIN L.records)
  /\ Cardinality(DOMAIN L.records) = L.nextDecisionSequence - 1
  /\ {L.records[t].id : t \in DOMAIN L.records} = 1 .. L.nextDecisionSequence - 1

Succession(L) ==
  \A t, u \in DOMAIN L.records : L.records[t].id < L.records[u].id =>
    /\ L.records[t].issuedTick <= L.records[u].issuedTick
    /\ L.records[t].principal = L.records[u].principal =>
         /\ L.records[t].status # "active"
         /\ L.records[t].status = "expired" =>
              L.records[u].issuedTick > L.records[t].validThroughTick

Dated(L) ==
  \A t \in DOMAIN L.records :
    /\ L.records[t].issuedTick <= L.records[t].validThroughTick
    /\ L.records[t].issuedTick <= L.lastTick
    /\ L.records[t].status = "expired" => L.records[t].validThroughTick < L.lastTick

Settled(L) == L.phase \in {"admissions_closed", "finalized"}

Fronted(L) ==
  /\ HasValidFrontiers(L)
  /\ ~HasFutureFrontier(L)
  /\ L.lastTick = NoTick <=> DOMAIN L.records = {} /\ L.phase = "open"
  /\ \A t \in DOMAIN L.records :
       /\ L.cutoffTick # NoTick => L.records[t].issuedTick <= L.cutoffTick
       /\ L.records[t].status = "expired" /\ Settled(L) =>
            L.records[t].validThroughTick < L.admissionsClosedTick

\* A decision that some call was made under at the last tick, and none was minted
\* for its principal since.
Witness(L, t) ==
  /\ \A u \in DOMAIN L.records : L.records[u].principal = L.records[t].principal =>
       L.records[u].id <= L.records[t].id
  /\ IF L.records[t].status = "expired"
     THEN /\ L.lastTick > L.records[t].validThroughTick
          /\ L.phase = "cutoff" => L.cutoffTick <= L.records[t].validThroughTick
          /\ L.phase # "cutoff" => \A u \in DOMAIN L.records :
               L.records[u].issuedTick <= L.records[t].validThroughTick
     ELSE L.lastTick <= L.records[t].validThroughTick

Reached(L) ==
  /\ L.phase = "admissions_closed" => L.lastTick = L.admissionsClosedTick
  /\ L.phase = "finalized" => L.lastTick = L.finalizedTick
  /\ ~Settled(L) /\ L.lastTick # NoTick =>
       \/ L.phase = "cutoff" /\ L.lastTick = L.cutoffTick
       \/ L.phase = "open" /\ \E t \in DOMAIN L.records : L.records[t].issuedTick = L.lastTick
       \/ \E t \in DOMAIN L.records : Witness(L, t)

Parsable(L) == Counted(L) /\ Succession(L) /\ Dated(L) /\ Fronted(L) /\ Reached(L)

CheckpointParsable ==
  checkpoint # None => \E L : Good(L) /\ Parsable(L) /\ checkpoint = Snapshot(L)

\* What expiry and consumption at a tick do to the decisions.
Moves(L, M, at) ==
  /\ M.lastTick = at /\ M.nextDecisionSequence = L.nextDecisionSequence
  /\ DOMAIN M.records = DOMAIN L.records
  /\ \A t \in DOMAIN L.records :
       /\ M.records[t].id = L.records[t].id
       /\ M.records[t].principal = L.records[t].principal
       /\ M.records[t].issuedTick = L.records[t].issuedTick
       /\ M.records[t].validThroughTick = L.records[t].validThroughTick
       /\ L.records[t].status # "active" => M.records[t].status = L.records[t].status
       /\ L.records[t].status = "active" =>
            (M.records[t].status = "expired" <=> at > L.records[t].validThroughTick)

\* The phase and its ticks are those of another state.
SameFrontiers(L, M) ==
  /\ M.phase = L.phase /\ M.cutoffTick = L.cutoffTick
  /\ M.admissionsClosedTick = L.admissionsClosedTick /\ M.finalizedTick = L.finalizedTick

(* Expiry changes the status of a decision that is late, and nothing else. *)
LEMMA ExpireFields ==
  ASSUME NEW r \in DecisionRecord, NEW at \in Ticks
  PROVE  LET e == Expire(r, at) IN
         /\ e.id = r.id /\ e.principal = r.principal
         /\ e.issuedTick = r.issuedTick /\ e.validThroughTick = r.validThroughTick
         /\ r.status # "active" => e.status = r.status
         /\ r.status = "active" => (e.status = "expired" <=> at > r.validThroughTick)
<1>1. CASE Late(r, at)
  BY <1>1 DEF Expire, Late, DecisionRecord
<1>2. CASE ~Late(r, at)
  BY <1>2 DEF Expire, Late, DecisionRecord
<1> QED
  BY <1>1, <1>2

(* Expiry moves the decisions and nothing else. *)
LEMMA CommitTickMoves ==
  ASSUME NEW L, LiveType(L), NEW at \in Ticks
  PROVE  Moves(L, CommitTick(L, at), at) /\ SameFrontiers(L, CommitTick(L, at))
<1> DEFINE C == CommitTick(L, at)
<1>1. /\ C.lastTick = at /\ C.nextDecisionSequence = L.nextDecisionSequence
      /\ C.records = [t \in DOMAIN L.records |-> Expire(L.records[t], at)]
  BY CommitTickFields
<1>2. SameFrontiers(L, C)
  BY DEF SameFrontiers, CommitTick, LiveType
<1>3. \A t \in DOMAIN L.records : L.records[t] \in DecisionRecord
  BY DEF LiveType, IsMap
<1> HIDE DEF C
<1>4. /\ DOMAIN C.records = DOMAIN L.records
      /\ \A t \in DOMAIN L.records : C.records[t] = Expire(L.records[t], at)
  BY <1>1
<1>5. Moves(L, C, at)
  BY <1>1, <1>3, <1>4, ExpireFields DEF Moves
<1> QED
  BY <1>2, <1>5 DEF C

(* So does the consumption of a decision in its window. *)
LEMMA ConsumedStateMoves ==
  ASSUME NEW L, LiveType(L), NEW at \in Ticks, NEW token \in DOMAIN L.records,
         L.records[token].status = "active", at <= L.records[token].validThroughTick
  PROVE  /\ Moves(L, ConsumedState(L, token, at), at)
         /\ SameFrontiers(L, ConsumedState(L, token, at))
<1> DEFINE C == ConsumedState(L, token, at)
<1>1. /\ C.lastTick = at /\ C.nextDecisionSequence = L.nextDecisionSequence
      /\ C.records = [t \in DOMAIN L.records |->
                        IF t = token THEN [L.records[t] EXCEPT !.status = "consumed"]
                        ELSE Expire(L.records[t], at)]
  BY DEF ConsumedState, LiveType
<1>2. SameFrontiers(L, C)
  BY DEF SameFrontiers, ConsumedState, LiveType
<1>3. \A t \in DOMAIN L.records : L.records[t] \in DecisionRecord
  BY DEF LiveType, IsMap
<1>4. L.records[token].validThroughTick \in Int /\ at \in Int
  BY <1>3, TickAssumption DEF DecisionRecord, Ticks
<1>5. ~(at > L.records[token].validThroughTick)
  BY <1>4
<1> HIDE DEF C
<1>6. ASSUME NEW t \in DOMAIN L.records
      PROVE  /\ C.records[t].id = L.records[t].id
             /\ C.records[t].principal = L.records[t].principal
             /\ C.records[t].issuedTick = L.records[t].issuedTick
             /\ C.records[t].validThroughTick = L.records[t].validThroughTick
             /\ L.records[t].status # "active" => C.records[t].status = L.records[t].status
             /\ L.records[t].status = "active" =>
                  (C.records[t].status = "expired" <=> at > L.records[t].validThroughTick)
  <2>1. CASE t = token
    BY <1>1, <1>3, <1>5, <2>1 DEF DecisionRecord
  <2>2. CASE t # token
    <3>1. C.records[t] = Expire(L.records[t], at)
      BY <1>1, <2>2
    <3> QED
      BY <1>3, <3>1, ExpireFields
  <2> QED
    BY <2>1, <2>2
<1>7. DOMAIN C.records = DOMAIN L.records
  BY <1>1
<1>8. Moves(L, C, at)
  BY <1>1, <1>6, <1>7 DEF Moves
<1> QED
  BY <1>2, <1>8 DEF C

(* Decisions that only moved are still numbered, in succession and dated. *)
LEMMA MovesKeep ==
  ASSUME NEW L, LiveType(L), NEW M, NEW at \in Ticks, Moves(L, M, at), at >= L.lastTick,
         Counted(L), Succession(L), Dated(L)
  PROVE  Counted(M) /\ Succession(M) /\ Dated(M)
<1> USE DEF Moves
<1>1. \A t \in DOMAIN L.records : L.records[t] \in DecisionRecord
  BY DEF LiveType, IsMap
<1>2. at \in Int /\ L.lastTick \in Int
  BY TickAssumption DEF LiveType, NullableTicks, NoTick, Ticks
<1>3. Counted(M)
  <2>1. {M.records[t].id : t \in DOMAIN M.records} = {L.records[t].id : t \in DOMAIN L.records}
    BY DEF Moves
  <2> QED
    BY <2>1 DEF Counted
<1>4. Succession(M)
  BY DEF Succession
<1>5. Dated(M)
  BY <1>1, <1>2, TickAssumption DEF Dated, DecisionRecord, Ticks
<1> QED
  BY <1>3, <1>4, <1>5

(* A call made under a decision that was active, in a phase that admits calls, keeps
   the state parsable, in its window or after it. *)
LEMMA CallParsable ==
  ASSUME NEW L, Good(L), Parsable(L), NEW M, NEW at \in Ticks, Moves(L, M, at),
         SameFrontiers(L, M), at >= L.lastTick, L.phase \in {"open", "cutoff"},
         NEW token \in DOMAIN L.records, L.records[token].status = "active"
  PROVE  Parsable(M)
<1> USE DEF Good, Parsable
<1>1. \A t \in DOMAIN L.records : L.records[t] \in DecisionRecord
  BY DEF LiveType, IsMap
<1>2. /\ at \in Int /\ at # NoTick /\ L.lastTick \in Int /\ L.cutoffTick \in Int
      /\ L.admissionsClosedTick \in Int /\ L.finalizedTick \in Int /\ NoTick \in Int
  BY TickAssumption DEF LiveType, NullableTicks, NoTick, Ticks
<1>3. Counted(M) /\ Succession(M) /\ Dated(M)
  BY MovesKeep
<1>4. ~Settled(M) /\ ~Settled(L)
  BY DEF Settled, SameFrontiers
<1>5. Fronted(M)
  <2>1. HasValidFrontiers(M)
    BY DEF Fronted, HasValidFrontiers, SameFrontiers
  <2>2. ~HasFutureFrontier(M)
    BY <1>2 DEF Fronted, HasFutureFrontier, SameFrontiers, Moves
  <2>3. M.lastTick # NoTick /\ DOMAIN M.records # {}
    BY <1>2 DEF Moves
  <2>4. \A t \in DOMAIN M.records : M.cutoffTick # NoTick => M.records[t].issuedTick <= M.cutoffTick
    BY DEF Fronted, SameFrontiers, Moves
  <2> QED
    BY <1>4, <2>1, <2>2, <2>3, <2>4 DEF Fronted
<1>6. Witness(M, token)
  <2>1. /\ L.records[token].issuedTick <= L.lastTick
        /\ L.lastTick <= L.records[token].validThroughTick
        /\ L.records[token].validThroughTick \in Int /\ L.records[token].id \in Int
    BY <1>1, <1>2, SequenceAssumption, TickAssumption DEF ActiveInWindow, DecisionRecord, Ticks
  <2>2. ASSUME NEW u \in DOMAIN M.records,
               M.records[u].principal = M.records[token].principal
        PROVE  M.records[u].id <= M.records[token].id
    <3>1. u \in DOMAIN L.records /\ L.records[u].principal = L.records[token].principal
          /\ L.records[u].id \in Int
      BY <1>1, <2>2, SequenceAssumption DEF Moves, DecisionRecord
    <3>2. ~(L.records[token].id < L.records[u].id)
      BY <3>1 DEF Succession
    <3>3. M.records[u].id = L.records[u].id /\ M.records[token].id = L.records[token].id
      BY <3>1 DEF Moves
    <3> QED
      BY <2>1, <3>1, <3>2, <3>3
  <2>3. M.records[token].validThroughTick = L.records[token].validThroughTick
        /\ M.lastTick = at
        /\ (M.records[token].status = "expired" <=> at > L.records[token].validThroughTick)
    BY DEF Moves
  <2>4. L.phase = "cutoff" => L.cutoffTick <= L.records[token].validThroughTick
    BY <1>2, <2>1 DEF Fronted, HasFutureFrontier, HasValidFrontiers
  <2>5. ASSUME NEW u \in DOMAIN M.records
        PROVE  M.records[u].issuedTick <= M.records[token].validThroughTick
    <3>1. u \in DOMAIN L.records /\ L.records[u].issuedTick <= L.lastTick
          /\ L.records[u].issuedTick \in Int /\ M.records[u].issuedTick = L.records[u].issuedTick
      BY <1>1, <2>5, TickAssumption DEF Moves, Dated, DecisionRecord, Ticks
    <3> QED
      BY <1>2, <2>1, <2>3, <3>1
  <2> QED
    BY <1>2, <2>1, <2>2, <2>3, <2>4, <2>5 DEF Witness, SameFrontiers
<1>7. Reached(M)
  BY <1>4, <1>6 DEF Reached, Settled, Moves
<1> QED
  BY <1>3, <1>5, <1>7

(* A mint keeps the state parsable: the new decision has the next number and comes
   after whatever its principal had. *)
LEMMA MintParsable ==
  ASSUME NEW L, Good(L), Parsable(L), NEW token \in Tokens, token \notin DOMAIN L.records,
         NEW request \in Mints, request.issuedTick <= request.validThroughTick,
         request.issuedTick >= L.lastTick, L.phase = "open",
         L.nextDecisionSequence <= MaxDecisionSequence,
         ~(/\ request.principal \in DOMAIN L.activeByPrincipal
           /\ request.issuedTick <=
                L.records[L.activeByPrincipal[request.principal]].validThroughTick)
  PROVE  Parsable(MintedState(L, token, request))
<1> DEFINE at == request.issuedTick
           E == CommitTick(L, at)
           M == MintedState(L, token, request)
           new == NewRecord(L, request)
<1> USE DEF Good, Parsable
<1>1. \A t \in DOMAIN L.records : L.records[t] \in DecisionRecord
  BY DEF LiveType, IsMap
<1>2. /\ at \in Ticks /\ at \in Int /\ at # NoTick /\ L.lastTick \in Int /\ NoTick \in Int
      /\ L.nextDecisionSequence \in Nat /\ L.nextDecisionSequence >= 1
      /\ request.validThroughTick \in Int
  BY SequenceAssumption, TickAssumption DEF LiveType, NullableTicks, NoTick, Ticks, Mints
<1>3. Moves(L, E, at) /\ SameFrontiers(L, E)
  BY <1>2, CommitTickMoves
<1>4. Counted(E) /\ Succession(E) /\ Dated(E)
  BY <1>2, <1>3, MovesKeep
<1>5. /\ M.records = [t \in DOMAIN E.records \cup {token} |->
                        IF t = token THEN new ELSE E.records[t]]
      /\ M.lastTick = at /\ M.nextDecisionSequence = L.nextDecisionSequence + 1
      /\ SameFrontiers(L, M)
  BY DEF MintedState, CommitTick, LiveType, SameFrontiers
<1>6. /\ new.id = L.nextDecisionSequence /\ new.principal = request.principal
      /\ new.status = "active" /\ new.issuedTick = at
      /\ new.validThroughTick = request.validThroughTick
  BY DEF NewRecord
<1> HIDE DEF E, M, new
<1>7. /\ DOMAIN E.records = DOMAIN L.records /\ token \notin DOMAIN E.records
      /\ DOMAIN M.records = DOMAIN E.records \cup {token} /\ M.records[token] = new
      /\ \A t \in DOMAIN E.records : M.records[t] = E.records[t]
  BY <1>3, <1>5 DEF Moves
<1>8. \A t \in DOMAIN E.records :
        /\ E.records[t].id \in 1 .. L.nextDecisionSequence - 1
        /\ E.records[t].issuedTick \in Int /\ E.records[t].validThroughTick \in Int
        /\ E.records[t].issuedTick <= at
  BY <1>1, <1>2, <1>3, <1>4, TickAssumption DEF Counted, Dated, Moves, DecisionRecord, Ticks
<1>9. Counted(M)
  <2>1. IsFiniteSet(DOMAIN M.records)
        /\ Cardinality(DOMAIN M.records) = Cardinality(DOMAIN E.records) + 1
    BY <1>4, <1>7, FS_AddElement, ZenonT(60) DEF Counted
  <2>2. Cardinality(DOMAIN E.records) = L.nextDecisionSequence - 1
        /\ {E.records[t].id : t \in DOMAIN E.records} = 1 .. L.nextDecisionSequence - 1
    BY <1>3, <1>4 DEF Counted, Moves
  <2>3. {M.records[t].id : t \in DOMAIN M.records} =
          {E.records[t].id : t \in DOMAIN E.records} \cup {L.nextDecisionSequence}
    BY <1>6, <1>7
  <2>4. (1 .. L.nextDecisionSequence - 1) \cup {L.nextDecisionSequence} =
          1 .. L.nextDecisionSequence
    BY <1>2
  <2>5. M.nextDecisionSequence - 1 = L.nextDecisionSequence
    BY <1>2, <1>5
  <2>6. Cardinality(DOMAIN M.records) = M.nextDecisionSequence - 1
    BY <1>2, <2>1, <2>2, <2>5
  <2>7. {M.records[t].id : t \in DOMAIN M.records} = 1 .. M.nextDecisionSequence - 1
    BY <2>2, <2>3, <2>4, <2>5
  <2> QED
    BY <2>1, <2>6, <2>7 DEF Counted
<1>10. ASSUME NEW t \in DOMAIN E.records, E.records[t].principal = request.principal
       PROVE  /\ E.records[t].status # "active"
              /\ E.records[t].status = "expired" => at > E.records[t].validThroughTick
  <2>1. /\ t \in DOMAIN L.records /\ L.records[t].principal = request.principal
        /\ L.records[t].validThroughTick \in Int
        /\ E.records[t].validThroughTick = L.records[t].validThroughTick
    BY <1>1, <1>3, <1>10, TickAssumption DEF Moves, DecisionRecord, Ticks
  <2>2. CASE L.records[t].status = "active"
    <3>1. at > L.records[t].validThroughTick
      BY <1>2, <2>1, <2>2 DEF IndexExact
    <3> QED
      BY <1>3, <2>1, <2>2, <3>1 DEF Moves
  <2>3. CASE L.records[t].status # "active"
    <3>1. E.records[t].status = L.records[t].status
      BY <1>3, <2>1, <2>3 DEF Moves
    <3>2. E.records[t].status = "expired" => L.records[t].validThroughTick < L.lastTick
      BY <2>1, <3>1 DEF Dated
    <3> QED
      BY <1>2, <2>1, <2>3, <3>1, <3>2
  <2> QED
    BY <2>2, <2>3
<1>11. Succession(M)
  <2> SUFFICES ASSUME NEW t \in DOMAIN M.records, NEW u \in DOMAIN M.records,
                      M.records[t].id < M.records[u].id
               PROVE  /\ M.records[t].issuedTick <= M.records[u].issuedTick
                      /\ M.records[t].principal = M.records[u].principal =>
                           /\ M.records[t].status # "active"
                           /\ M.records[t].status = "expired" =>
                                M.records[u].issuedTick > M.records[t].validThroughTick
    BY DEF Succession
  <2>1. t # token
    BY <1>2, <1>6, <1>7, <1>8
  <2>2. CASE u = token
    BY <1>6, <1>7, <1>8, <1>10, <2>1, <2>2
  <2>3. CASE u # token
    BY <1>4, <1>7, <2>1, <2>3 DEF Succession
  <2> QED
    BY <2>2, <2>3
<1>12. Dated(M)
  <2>1. E.lastTick = at
    BY <1>3 DEF Moves
  <2> QED
    BY <1>2, <1>4, <1>5, <1>6, <1>7, <2>1 DEF Dated
<1>13. Fronted(M)
  <2>1. /\ M.phase = "open" /\ M.cutoffTick = NoTick /\ M.admissionsClosedTick = NoTick
        /\ M.finalizedTick = NoTick
    BY <1>5 DEF Fronted, HasValidFrontiers, SameFrontiers
  <2>2. M.lastTick # NoTick /\ DOMAIN M.records # {}
    BY <1>2, <1>5, <1>7
  <2> QED
    BY <2>1, <2>2 DEF Fronted, HasValidFrontiers, HasFutureFrontier, Settled
<1>14. Reached(M)
  BY <1>5, <1>6, <1>7 DEF Reached, Settled, SameFrontiers
<1>15. Parsable(M)
  BY <1>9, <1>11, <1>12, <1>13, <1>14
<1> QED
  BY <1>15 DEF M

(* A phase transition keeps the state parsable. *)
LEMMA TransitionParsable ==
  ASSUME NEW L, Good(L), Parsable(L), NEW A, NEW M, NEW at \in Ticks,
         Moves(L, M, at), SameFrontiers(A, M), at >= L.lastTick,
         \/ /\ L.phase = "open" /\ A.phase = "cutoff" /\ A.cutoffTick = at
            /\ A.admissionsClosedTick = L.admissionsClosedTick
            /\ A.finalizedTick = L.finalizedTick
         \/ /\ L.phase = "cutoff" /\ A.phase = "admissions_closed"
            /\ A.cutoffTick = L.cutoffTick /\ A.admissionsClosedTick = at
            /\ A.finalizedTick = L.finalizedTick
         \/ /\ L.phase = "admissions_closed" /\ A.phase = "finalized"
            /\ A.cutoffTick = L.cutoffTick
            /\ A.admissionsClosedTick = L.admissionsClosedTick /\ A.finalizedTick = at
  PROVE  Parsable(M)
<1> USE DEF Good, Parsable
<1>1. \A t \in DOMAIN L.records : L.records[t] \in DecisionRecord
  BY DEF LiveType, IsMap
<1>2. /\ at \in Int /\ at # NoTick /\ L.lastTick \in Int /\ L.cutoffTick \in Int
      /\ L.admissionsClosedTick \in Int /\ L.finalizedTick \in Int /\ NoTick \in Int
  BY TickAssumption DEF LiveType, NullableTicks, NoTick, Ticks
<1>3. Counted(M) /\ Succession(M) /\ Dated(M)
  BY MovesKeep
<1>4. M.lastTick = at /\ DOMAIN M.records = DOMAIN L.records
  BY DEF Moves
<1>5. HasValidFrontiers(M) /\ ~HasFutureFrontier(M)
  <2>1. /\ M.phase = A.phase /\ M.cutoffTick = A.cutoffTick
        /\ M.admissionsClosedTick = A.admissionsClosedTick /\ M.finalizedTick = A.finalizedTick
    BY DEF SameFrontiers
  <2>2. CASE L.phase = "open"
    <3>1. /\ M.phase = "cutoff" /\ M.cutoffTick = at /\ M.admissionsClosedTick = NoTick
          /\ M.finalizedTick = NoTick
      BY <2>1, <2>2 DEF Fronted, HasValidFrontiers
    <3>2. HasValidFrontiers(M)
      BY <1>2, <3>1 DEF HasValidFrontiers
    <3>3. ~HasFutureFrontier(M)
      BY <1>2, <1>4, <3>1 DEF HasFutureFrontier
    <3> QED
      BY <3>2, <3>3
  <2>3. CASE L.phase = "cutoff"
    <3>1. L.cutoffTick # NoTick /\ L.cutoffTick <= L.lastTick /\ L.finalizedTick = NoTick
      BY <1>2, <2>3 DEF Fronted, HasValidFrontiers, HasFutureFrontier
    <3>2. /\ M.phase = "admissions_closed" /\ M.cutoffTick = L.cutoffTick
          /\ M.admissionsClosedTick = at /\ M.finalizedTick = NoTick
      BY <2>1, <2>3, <3>1
    <3>3. HasValidFrontiers(M)
      BY <1>2, <3>1, <3>2 DEF HasValidFrontiers
    <3>4. ~HasFutureFrontier(M)
      BY <1>2, <1>4, <3>1, <3>2 DEF HasFutureFrontier
    <3> QED
      BY <3>3, <3>4
  <2>4. CASE L.phase = "admissions_closed"
    <3>1. /\ L.cutoffTick # NoTick /\ L.cutoffTick <= L.lastTick
          /\ L.admissionsClosedTick # NoTick /\ L.admissionsClosedTick <= L.lastTick
          /\ L.cutoffTick <= L.admissionsClosedTick
      BY <1>2, <2>4 DEF Fronted, HasValidFrontiers, HasFutureFrontier
    <3>2. /\ M.phase = "finalized" /\ M.cutoffTick = L.cutoffTick
          /\ M.admissionsClosedTick = L.admissionsClosedTick /\ M.finalizedTick = at
      BY <2>1, <2>4
    <3>3. HasValidFrontiers(M)
      BY <1>2, <3>1, <3>2 DEF HasValidFrontiers
    <3>4. ~HasFutureFrontier(M)
      BY <1>2, <1>4, <3>1, <3>2 DEF HasFutureFrontier
    <3> QED
      BY <3>3, <3>4
  <2> QED
    BY <2>2, <2>3, <2>4
<1>6. M.phase # "open"
  BY DEF SameFrontiers
<1>7. ASSUME NEW t \in DOMAIN M.records, M.cutoffTick # NoTick
      PROVE  M.records[t].issuedTick <= M.cutoffTick
  <2>1. /\ t \in DOMAIN L.records /\ M.records[t].issuedTick = L.records[t].issuedTick
        /\ L.records[t].issuedTick \in Int /\ L.records[t].issuedTick <= L.lastTick
        /\ L.cutoffTick # NoTick => L.records[t].issuedTick <= L.cutoffTick
    BY <1>1, <1>7, TickAssumption DEF Moves, Dated, Fronted, DecisionRecord, Ticks
  <2> QED
    BY <1>2, <1>7, <2>1 DEF SameFrontiers
<1>8. ASSUME NEW t \in DOMAIN M.records, M.records[t].status = "expired", Settled(M)
      PROVE  M.records[t].validThroughTick < M.admissionsClosedTick
  <2>1. /\ t \in DOMAIN L.records
        /\ M.records[t].validThroughTick = L.records[t].validThroughTick
        /\ L.records[t].validThroughTick \in Int
        /\ M.records[t].validThroughTick < at
    BY <1>1, <1>3, <1>4, <1>8, TickAssumption DEF Moves, Dated, DecisionRecord, Ticks
  <2>2. CASE M.phase = "admissions_closed"
    BY <2>1, <2>2 DEF SameFrontiers
  <2>3. CASE M.phase = "finalized"
    <3>1. L.phase = "admissions_closed" /\ M.admissionsClosedTick = L.admissionsClosedTick
      BY <2>3 DEF SameFrontiers
    <3>2. L.records[t].status = "expired"
      BY <1>8, <2>1, <3>1 DEF ActiveInWindow, Moves
    <3> QED
      BY <2>1, <3>1, <3>2 DEF Fronted, Settled
  <2> QED
    BY <1>8, <2>2, <2>3 DEF Settled
<1>9. Fronted(M)
  BY <1>2, <1>4, <1>5, <1>6, <1>7, <1>8 DEF Fronted
<1>10. Reached(M)
  BY <1>4 DEF Reached, Settled, SameFrontiers
<1> QED
  BY <1>3, <1>9, <1>10

(* Restoring the snapshot of a state gives back that state, but for the permission to
   restore: the index is rebuilt as it was. *)
LEMMA SnapshotRestores ==
  ASSUME NEW L, Good(L)
  PROVE  RestoredState(Snapshot(L)) = [L EXCEPT !.restoreAllowed = FALSE]
<1> DEFINE S == Snapshot(L)
           R == RestoredState(S)
           index == [p \in {Listed(S, t).principal : t \in Indexed(S)} |->
                       CHOOSE t \in Indexed(S) : Listed(S, t).principal = p]
<1> USE DEF Good
<1>1. Digests(S) = DOMAIN L.records /\ \A t \in DOMAIN L.records : Listed(S, t) = L.records[t]
  BY SnapshotLists
<1>2. [t \in Digests(S) |-> Listed(S, t)] = L.records
  <2>1. L.records = [t \in DOMAIN L.records |-> L.records[t]]
    BY DEF LiveType, IsMap
  <2> HIDE DEF S
  <2> QED
    BY <1>1, <2>1
<1>3. index = L.activeByPrincipal
  <2> HIDE DEF S
  <2>1. Indexed(S) = {t \in DOMAIN L.records : L.records[t].status = "active"}
    BY <1>1 DEF Indexed
  <2>2. \A p : p \in {Listed(S, t).principal : t \in Indexed(S)} <=> p \in DOMAIN L.activeByPrincipal
    <3>1. ASSUME NEW p \in DOMAIN L.activeByPrincipal
          PROVE  p \in {Listed(S, t).principal : t \in Indexed(S)}
      BY <1>1, <2>1, <3>1 DEF IndexExact
    <3>2. ASSUME NEW t \in Indexed(S) PROVE Listed(S, t).principal \in DOMAIN L.activeByPrincipal
      BY <1>1, <2>1, <3>2 DEF IndexExact
    <3> QED
      BY <3>1, <3>2
  <2>3. {Listed(S, t).principal : t \in Indexed(S)} = DOMAIN L.activeByPrincipal
    BY <2>2
  <2>4. ASSUME NEW p \in DOMAIN L.activeByPrincipal
        PROVE  (CHOOSE t \in Indexed(S) : Listed(S, t).principal = p) = L.activeByPrincipal[p]
    BY <1>1, <2>1, <2>4 DEF IndexExact
  <2>5. L.activeByPrincipal = [p \in DOMAIN L.activeByPrincipal |-> L.activeByPrincipal[p]]
    BY DEF LiveType, IsMap
  <2> QED
    BY <2>3, <2>4, <2>5
<1>4. R = [records |-> L.records, activeByPrincipal |-> L.activeByPrincipal,
           phase |-> L.phase, cutoffTick |-> L.cutoffTick,
           admissionsClosedTick |-> L.admissionsClosedTick, finalizedTick |-> L.finalizedTick,
           lastTick |-> L.lastTick, nextDecisionSequence |-> L.nextDecisionSequence,
           restoreAllowed |-> FALSE]
  <2>1. /\ S.phase = L.phase /\ S.cutoffTick = L.cutoffTick
        /\ S.admissionsClosedTick = L.admissionsClosedTick /\ S.finalizedTick = L.finalizedTick
        /\ S.lastTick = L.lastTick /\ S.nextDecisionSequence = L.nextDecisionSequence
    BY DEF Snapshot
  <2> HIDE DEF S
  <2> QED
    BY <1>2, <1>3, <2>1 DEF RestoredState
<1> HIDE DEF R
<1>5. LiveType(R)
  BY RestoredStateGood DEF R
<1>6. /\ R.records = L.records /\ R.activeByPrincipal = L.activeByPrincipal
      /\ R.phase = L.phase /\ R.cutoffTick = L.cutoffTick
      /\ R.admissionsClosedTick = L.admissionsClosedTick /\ R.finalizedTick = L.finalizedTick
      /\ R.lastTick = L.lastTick /\ R.nextDecisionSequence = L.nextDecisionSequence
      /\ R.restoreAllowed = FALSE
  BY <1>4
<1>7. R = [L EXCEPT !.restoreAllowed = FALSE]
  BY <1>5, <1>6 DEF LiveType
<1> QED
  BY <1>7 DEF R

(* The parser accepts the snapshot of a parsable state. *)
LEMMA SnapshotParses ==
  ASSUME NEW L, Good(L), Parsable(L)
  PROVE  ParseSnapshot(Snapshot(L))
<1> DEFINE S == Snapshot(L)
<1> USE DEF Good, Parsable
<1>1. \A t \in DOMAIN L.records : L.records[t] \in DecisionRecord
  BY DEF LiveType, IsMap
<1>2. /\ L.lastTick \in Int /\ L.cutoffTick \in Int /\ L.admissionsClosedTick \in Int
      /\ L.finalizedTick \in Int /\ NoTick \in Int /\ L.nextDecisionSequence \in Nat \ {0}
  BY TickAssumption, SequenceAssumption DEF LiveType, NullableTicks, NoTick, Ticks
<1>3. /\ S.decisions = {[tokenDigest |-> t, record |-> L.records[t]] : t \in DOMAIN L.records}
      /\ S.phase = L.phase /\ S.cutoffTick = L.cutoffTick
      /\ S.admissionsClosedTick = L.admissionsClosedTick /\ S.finalizedTick = L.finalizedTick
      /\ S.lastTick = L.lastTick /\ S.nextDecisionSequence = L.nextDecisionSequence
  BY DEF Snapshot
<1> HIDE DEF S
<1>4. \A d \in S.decisions : d.tokenDigest \in DOMAIN L.records
                             /\ d.record = L.records[d.tokenDigest]
  BY <1>3
<1>5. \A t \in DOMAIN L.records : \E d \in S.decisions : d.record = L.records[t]
  <2> TAKE t \in DOMAIN L.records
  <2>1. [tokenDigest |-> t, record |-> L.records[t]] \in S.decisions
    BY <1>3
  <2> QED
    BY <2>1
<1>6. Cardinality(S.decisions) = L.nextDecisionSequence - 1
  <2> DEFINE f == [t \in DOMAIN L.records |-> [tokenDigest |-> t, record |-> L.records[t]]]
  <2>1. f \in [DOMAIN L.records -> S.decisions]
    BY <1>3
  <2>2. \A t \in DOMAIN L.records : f[t].tokenDigest = t
    OBVIOUS
  <2>3. \A d \in S.decisions : \E t \in DOMAIN L.records : f[t] = d
    BY <1>3
  <2> HIDE DEF f
  <2>4. f \in Injection(DOMAIN L.records, S.decisions)
    BY <2>1, <2>2 DEF Injection, IsInjective
  <2>5. f \in Surjection(DOMAIN L.records, S.decisions)
    BY <2>1, <2>3 DEF Surjection
  <2>6. ExistsBijection(DOMAIN L.records, S.decisions)
    BY <2>4, <2>5 DEF ExistsBijection, Bijection
  <2> QED
    BY <2>6, FS_Bijection DEF Counted
<1>7. ParseDecisions(S.decisions)
  <2>1. {d.record.id : d \in S.decisions} = 1 .. Cardinality(S.decisions)
    <3>1. {d.record.id : d \in S.decisions} = {L.records[t].id : t \in DOMAIN L.records}
      BY <1>4, <1>5
    <3> QED
      BY <1>6, <3>1 DEF Counted
  <2>2. \A d \in S.decisions : d.record.issuedTick <= d.record.validThroughTick
    BY <1>4 DEF Dated
  <2>3. ASSUME NEW d \in S.decisions, NEW e \in S.decisions, d.record.id < e.record.id
        PROVE  /\ d.record.issuedTick <= e.record.issuedTick
               /\ d.tokenDigest # e.tokenDigest
               /\ d.record.principal = e.record.principal =>
                    /\ d.record.status # "active"
                    /\ d.record.status = "expired" =>
                         e.record.issuedTick > d.record.validThroughTick
    <3>1. /\ d.tokenDigest \in DOMAIN L.records /\ d.record = L.records[d.tokenDigest]
          /\ e.tokenDigest \in DOMAIN L.records /\ e.record = L.records[e.tokenDigest]
      BY <1>4
    <3>2. d.record.id \in Int
      BY <1>1, <3>1, SequenceAssumption DEF DecisionRecord
    <3> QED
      BY <2>3, <3>1, <3>2 DEF Succession
  <2> QED
    BY <2>1, <2>2, <2>3 DEF ParseDecisions
<1>8. S.nextDecisionSequence = Cardinality(S.decisions) + 1
  BY <1>2, <1>3, <1>6
<1>9. HasValidFrontiers(S)
  BY <1>3 DEF Fronted, HasValidFrontiers
<1>10. ~HasFutureFrontier(S)
  BY <1>3 DEF Fronted, HasFutureFrontier
<1>11. \A d \in S.decisions : IsDecisionReachable(d.record, S)
  <2> SUFFICES ASSUME NEW t \in DOMAIN L.records PROVE IsDecisionReachable(L.records[t], S)
    BY <1>4
  <2>1. /\ L.records[t].issuedTick \in Int /\ L.records[t].validThroughTick \in Int
        /\ L.records[t].issuedTick <= L.lastTick
        /\ L.cutoffTick # NoTick => L.records[t].issuedTick <= L.cutoffTick
    BY <1>1, TickAssumption DEF DecisionRecord, Ticks, Dated, Fronted
  <2>2. L.records[t].status = "active" =>
          ~Settled(L) /\ L.lastTick <= L.records[t].validThroughTick
    BY <1>2, <2>1 DEF ActiveInWindow, Settled
  <2>3. L.records[t].status = "expired" =>
          /\ L.lastTick > L.records[t].validThroughTick
          /\ Settled(L) => L.records[t].validThroughTick < L.admissionsClosedTick
    BY <1>2, <2>1 DEF Dated, Fronted
  <2> QED
    BY <1>3, <2>1, <2>2, <2>3 DEF IsDecisionReachable, Settled
<1>12. ASSUME L.lastTick # NoTick PROVE HasReachableLastTick(S)
  <2> DEFINE D == {d.record : d \in S.decisions}
             newest == {d \in D : \A e \in D : e.principal = d.principal => e.id <= d.id}
  <2>1. \A r : r \in D <=> \E t \in DOMAIN L.records : r = L.records[t]
    BY <1>4, <1>5
  <2>2. CASE Settled(L)
    BY <1>3, <2>2 DEF Settled, Reached, HasReachableLastTick
  <2>3. CASE L.phase = "cutoff" /\ L.lastTick = L.cutoffTick
    BY <1>3, <2>3 DEF HasReachableLastTick
  <2>4. ASSUME L.phase = "open", NEW t \in DOMAIN L.records, L.records[t].issuedTick = L.lastTick
        PROVE  HasReachableLastTick(S)
    <3>1. L.records[t] \in D
      BY <2>1
    <3> HIDE DEF newest
    <3> QED
      BY <1>3, <2>4, <3>1 DEF HasReachableLastTick
  <2>5. ASSUME L.phase \in {"open", "cutoff"}, NEW t \in DOMAIN L.records, Witness(L, t)
        PROVE  HasReachableLastTick(S)
    <3> DEFINE r == L.records[t]
    <3>1. r \in newest
      BY <2>1, <2>5, ZenonT(60) DEF Witness
    <3>2. IF r.status = "expired"
          THEN /\ S.lastTick > r.validThroughTick
               /\ IF S.phase = "cutoff" THEN S.cutoffTick <= r.validThroughTick
                  ELSE \A e \in D : e.issuedTick <= r.validThroughTick
          ELSE S.lastTick <= r.validThroughTick
      BY <1>3, <2>1, <2>5 DEF Witness
    <3>3. S.phase # "admissions_closed" /\ S.phase # "finalized"
      BY <1>3, <2>5
    <3> HIDE DEF r
    <3> QED
      BY <3>1, <3>2, <3>3 DEF HasReachableLastTick
  <2>6. L.phase \in Phases
    BY DEF LiveType
  <2> QED
    BY <1>12, <2>2, <2>3, <2>4, <2>5, <2>6 DEF Reached, Settled, Phases
<1>13. IsLifecycleConsistent(S)
  <2>1. CASE L.lastTick = NoTick
    BY <1>3, <1>9, <2>1 DEF Fronted, IsLifecycleConsistent
  <2>2. CASE L.lastTick # NoTick
    <3>1. S.decisions # {} \/ S.phase # "open"
      BY <1>3, <1>5, <2>2 DEF Fronted
    <3> QED
      BY <1>3, <1>9, <1>10, <1>11, <1>12, <2>2, <3>1 DEF IsLifecycleConsistent
  <2> QED
    BY <2>1, <2>2
<1>14. ParseSnapshot(S)
  BY <1>7, <1>8, <1>13 DEF ParseSnapshot
<1> QED
  BY <1>14 DEF S

(* What a snapshot is restored to is as parsable as what it was taken from. *)
LEMMA RestoredParsable ==
  ASSUME NEW L, Good(L), Parsable(L)
  PROVE  Parsable(RestoredState(Snapshot(L)))
<1> DEFINE R == RestoredState(Snapshot(L))
<1>1. /\ R.records = L.records /\ R.phase = L.phase /\ R.cutoffTick = L.cutoffTick
      /\ R.admissionsClosedTick = L.admissionsClosedTick /\ R.finalizedTick = L.finalizedTick
      /\ R.lastTick = L.lastTick /\ R.nextDecisionSequence = L.nextDecisionSequence
  BY SnapshotRestores DEF Good, LiveType
<1> HIDE DEF R
<1>2. Counted(R) /\ Succession(R) /\ Dated(R)
  BY <1>1 DEF Parsable, Counted, Succession, Dated
<1>3. Fronted(R)
  BY <1>1 DEF Parsable, Fronted, HasValidFrontiers, HasFutureFrontier, Settled
<1>4. Reached(R)
  <2>1. \A t \in DOMAIN L.records : Witness(L, t) => Witness(R, t)
    BY <1>1 DEF Witness
  <2> QED
    BY <1>1, <2>1 DEF Parsable, Reached, Settled
<1> QED
  BY <1>2, <1>3, <1>4 DEF Parsable, R


(* Every step of the registry leaves it, and its checkpoint, parsable. *)
LEMMA ParsableStep ==
  Inv /\ Parsable(live) /\ CheckpointParsable /\ [Next]_vars =>
    Parsable(live)' /\ CheckpointParsable'
<1> SUFFICES ASSUME Inv, Parsable(live), CheckpointParsable, [Next]_vars
             PROVE  Parsable(live') /\ CheckpointParsable'
  OBVIOUS
<1>0. /\ Good(live) /\ LiveType(live) /\ ReservedNow /\ MintingNow
  BY DEF Inv, Good
<1>1. ASSUME checkpoint' = checkpoint PROVE CheckpointParsable'
  BY <1>1 DEF CheckpointParsable
<1>2. CASE UNCHANGED vars
  BY <1>1, <1>2 DEF vars
<1>3. ASSUME NEW t \in Tokens, MintFresh(t) PROVE Parsable(live') /\ CheckpointParsable'
  <2>1. Parsable(MintedState(live, t, minting))
    BY <1>0, <1>3, MintParsable DEF MintFresh, MintingNow, HasActiveDecision, CheckTick
  <2> QED
    BY <1>1, <1>3, <2>1 DEF MintFresh, outside
<1>4. ASSUME NEW t, NEW p, NEW i \in Ticks, Presented(t, p, i)
      PROVE  Parsable(CommitTick(live, i))
  <2>1. /\ t \in DOMAIN live.records /\ live.records[t].status = "active"
        /\ i >= live.lastTick /\ live.phase \in {"open", "cutoff"}
    BY <1>4 DEF Presented, CheckTick, Admitting
  <2>2. Moves(live, CommitTick(live, i), i) /\ SameFrontiers(live, CommitTick(live, i))
    BY <1>0, CommitTickMoves
  <2> QED
    BY <1>0, <2>1, <2>2, CallParsable
<1>5. ASSUME NEW t, NEW p, NEW i \in Ticks, Admissible(t, p, i)
      PROVE  Parsable(ConsumedState(live, t, i))
  <2>1. /\ t \in DOMAIN live.records /\ live.records[t].status = "active"
        /\ i >= live.lastTick /\ live.phase \in {"open", "cutoff"}
        /\ i <= live.records[t].validThroughTick
    BY <1>5 DEF Admissible, Presented, CheckTick, Admitting
  <2>2. Moves(live, ConsumedState(live, t, i), i) /\ SameFrontiers(live, ConsumedState(live, t, i))
    BY <1>0, <2>1, ConsumedStateMoves
  <2> QED
    BY <1>0, <2>1, <2>2, CallParsable
<1>6. ASSUME NEW t \in Tokens, NEW p \in Principals, NEW i \in Ticks,
             AdmitRead(t, p, i) \/ RefuseLateToken(t, p, i)
      PROVE  Parsable(live') /\ CheckpointParsable'
  BY <1>1, <1>4, <1>6 DEF AdmitRead, Admissible, RefuseLateToken, outside
<1>7. ASSUME NEW t \in Tokens, NEW p \in Principals, NEW i \in Ticks, ConsumeForAct(t, p, i)
      PROVE  Parsable(live') /\ CheckpointParsable'
  BY <1>1, <1>5, <1>7 DEF ConsumeForAct, outside
<1>8. ASSUME CommitReservation PROVE Parsable(live') /\ CheckpointParsable'
  <2>1. /\ live' = ConsumedState(live, reservation.token, reservation.atTick)
        /\ reservation.atTick \in Ticks
        /\ Admissible(reservation.token, live.records[reservation.token].principal,
                      reservation.atTick)
    BY <1>0, <1>8 DEF CommitReservation, ReservedNow
  <2> QED
    BY <1>1, <1>5, <1>8, <2>1 DEF CommitReservation, outside
<1>9. ASSUME NEW i \in Ticks, BeginCutoff(i) \/ CloseAdmissions(i) \/ Finalize(i)
      PROVE  Parsable(live') /\ CheckpointParsable'
  <2>1. PICK A : /\ live' = [CommitTick(A, i) EXCEPT !.restoreAllowed = FALSE]
                 /\ i >= live.lastTick
                 /\ \/ /\ live.phase = "open"
                       /\ A = [live EXCEPT !.phase = "cutoff", !.cutoffTick = i]
                    \/ /\ live.phase = "cutoff"
                       /\ A = [live EXCEPT !.phase = "admissions_closed",
                                           !.admissionsClosedTick = i]
                    \/ /\ live.phase = "admissions_closed"
                       /\ A = [live EXCEPT !.phase = "finalized", !.finalizedTick = i]
    BY <1>9 DEF BeginCutoff, CloseAdmissions, Finalize, Transition, CheckTick
  <2>2. /\ LiveType(A) /\ A.records = live.records /\ A.lastTick = live.lastTick
        /\ A.nextDecisionSequence = live.nextDecisionSequence
    BY <1>0, <2>1, ZenonT(60) DEF LiveType, NullableTicks, Phases
  <2>3. \/ /\ live.phase = "open" /\ A.phase = "cutoff" /\ A.cutoffTick = i
           /\ A.admissionsClosedTick = live.admissionsClosedTick
           /\ A.finalizedTick = live.finalizedTick
        \/ /\ live.phase = "cutoff" /\ A.phase = "admissions_closed"
           /\ A.cutoffTick = live.cutoffTick /\ A.admissionsClosedTick = i
           /\ A.finalizedTick = live.finalizedTick
        \/ /\ live.phase = "admissions_closed" /\ A.phase = "finalized"
           /\ A.cutoffTick = live.cutoffTick
           /\ A.admissionsClosedTick = live.admissionsClosedTick /\ A.finalizedTick = i
    BY <1>0, <2>1 DEF LiveType
  <2>4. Moves(A, CommitTick(A, i), i) /\ SameFrontiers(A, CommitTick(A, i))
    BY <2>2, CommitTickMoves
  <2>5. /\ live'.records = CommitTick(A, i).records /\ live'.lastTick = CommitTick(A, i).lastTick
        /\ live'.nextDecisionSequence = CommitTick(A, i).nextDecisionSequence
        /\ live'.phase = CommitTick(A, i).phase
        /\ live'.cutoffTick = CommitTick(A, i).cutoffTick
        /\ live'.admissionsClosedTick = CommitTick(A, i).admissionsClosedTick
        /\ live'.finalizedTick = CommitTick(A, i).finalizedTick
    BY <2>1, <2>2, CommitTickFields DEF LiveType
  <2>6. Moves(live, live', i) /\ SameFrontiers(A, live')
    BY <2>2, <2>4, <2>5 DEF Moves, SameFrontiers
  <2>7. Parsable(live')
    BY <1>0, <2>1, <2>3, <2>6, TransitionParsable
  <2>8. checkpoint' = checkpoint
    BY <1>9 DEF BeginCutoff, CloseAdmissions, Finalize, Transition, outside
  <2> QED
    BY <1>1, <2>7, <2>8
<1>10. ASSUME TakeSnapshot PROVE Parsable(live') /\ CheckpointParsable'
  BY <1>0, <1>10 DEF TakeSnapshot, CheckpointParsable, process
<1>11. ASSUME Restore \/ Recover PROVE Parsable(live') /\ CheckpointParsable'
  <2>1. checkpoint # None /\ live' = RestoredState(checkpoint) /\ checkpoint' = checkpoint
    BY <1>11 DEF Restore, Recover, outside
  <2> QED
    BY <1>1, <2>1, RestoredParsable DEF CheckpointParsable
<1>12. ASSUME live' = live, checkpoint' = checkpoint
       PROVE  Parsable(live') /\ CheckpointParsable'
  BY <1>1, <1>12
<1> QED
  BY <1>2, <1>3, <1>6, <1>7, <1>8, <1>9, <1>10, <1>11, <1>12
     DEF Next, MintRequest, MintReentered, MintCollision, MintFailed, ReserveForAct,
         AbortReservation, outside

(* A new registry is parsable. *)
LEMMA InitParsable == Init => Parsable(live) /\ CheckpointParsable
<1> SUFFICES ASSUME Init PROVE Parsable(live) /\ CheckpointParsable
  OBVIOUS
<1>1. /\ DOMAIN live.records = {} /\ live.nextDecisionSequence = 1 /\ live.phase = "open"
      /\ live.cutoffTick = NoTick /\ live.admissionsClosedTick = NoTick
      /\ live.finalizedTick = NoTick /\ live.lastTick = NoTick
  BY DEF Init, PristineState
<1>2. Counted(live)
  BY <1>1, FS_EmptySet DEF Counted
<1>3. Succession(live) /\ Dated(live) /\ Fronted(live) /\ Reached(live)
  BY <1>1 DEF Succession, Dated, Fronted, Reached, Settled, HasValidFrontiers, HasFutureFrontier
<1> QED
  BY <1>2, <1>3 DEF Parsable, Init, CheckpointParsable

(* Whatever the history, of any length and with any number of principals, the strict
   parser accepts the snapshot of a quiet registry, and restoring it gives back the
   very state it was taken from. *)
THEOREM SnapshotsFaithful == Spec => []SnapshotFaithful
<1>1. Inv /\ Parsable(live) => SnapshotFaithful
  <2> SUFFICES ASSUME Inv, Parsable(live)
               PROVE  /\ ParseSnapshot(Snapshot(live))
                      /\ RestoredState(Snapshot(live)) = [live EXCEPT !.restoreAllowed = FALSE]
    BY DEF SnapshotFaithful
  <2>1. Good(live)
    BY DEF Inv
  <2> QED
    BY <2>1, SnapshotParses, SnapshotRestores
<1> QED
  BY <1>1, InitParsable, ParsableStep, Invariance, PTL DEF Spec
=============================================================================
