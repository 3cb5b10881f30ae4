------------------------- MODULE DecisionRegistry -------------------------
(***************************************************************************)
(* The decision registry of a world runtime (world/decisionRegistry.ts).   *)
(*                                                                         *)
(* The registry mints one single-use decision token at a time for a        *)
(* principal, admits reads under it, lets one act consume it, and walks    *)
(* the phases open -> cutoff -> admissions_closed -> finalized.            *)
(*                                                                         *)
(* JavaScript is single-threaded, so what interleaves is re-entrant calls: *)
(* minting calls out to the entropy source, and an act holds a reservation *)
(* across the surface's callbacks before it commits or aborts it.          *)
(*                                                                         *)
(* A call that is refused and changes nothing is a stuttering step; the    *)
(* refused calls that do change state have actions of their own.           *)
(***************************************************************************)
EXTENDS Integers, FiniteSets

CONSTANTS
  Principals,           \* principals that own decisions
  Tokens,               \* token digests the entropy source can produce
  MaxTick,              \* bound: ticks offered by callers are 0 .. MaxTick
  MaxDecisionSequence,  \* last decision sequence the registry may issue
  MaxEntropyDraws,      \* draws before minting gives up
  MaxRecoveries,        \* bound: recoveries from a checkpoint (0: none is taken)
  None                  \* "no reservation", "no mint", "no checkpoint"

ASSUME TickAssumption == MaxTick \in Nat
ASSUME SequenceAssumption == MaxDecisionSequence \in Nat \ {0}
ASSUME RecoveryAssumption == MaxRecoveries \in Nat
ASSUME DrawAssumption == MaxEntropyDraws \in Nat \ {0}

VARIABLES
  live,         \* the LiveState object the registry's pointer refers to
  reservation,  \* the outstanding act reservation, or None
  minting,      \* the mint waiting for the entropy source, or None
  checkpoint,   \* the last snapshot kept outside the process, or None
  recoveries    \* how often the process was lost and recovered

process == <<live, reservation, minting>>
outside == <<checkpoint, recoveries>>
vars == <<live, reservation, minting, checkpoint, recoveries>>

Ticks == 0 .. MaxTick
NoTick == -1                       \* the code's null tick
Phases == {"open", "cutoff", "admissions_closed", "finalized"}
Statuses == {"active", "consumed", "expired"}

DecisionRecord ==
  [id : 1 .. MaxDecisionSequence, principal : Principals, status : Statuses,
   issuedTick : Ticks, validThroughTick : Ticks]

(***************************************************************************)
(* The live state.  records is the Map from token digest to record and     *)
(* activeByPrincipal the Map from principal to the digest of its active    *)
(* decision; both are partial functions.                                   *)
(***************************************************************************)
PristineState ==
  [records |-> [t \in {} |-> None], activeByPrincipal |-> [p \in {} |-> None],
   phase |-> "open", cutoffTick |-> NoTick, admissionsClosedTick |-> NoTick,
   finalizedTick |-> NoTick, lastTick |-> NoTick,
   nextDecisionSequence |-> 1, restoreAllowed |-> TRUE]

Late(record, atTick) ==
  record.status = "active" /\ atTick > record.validThroughTick

(* The principals whose index entry the expiry loop deletes at atTick. *)
Lapsed(L, atTick) ==
  {p \in DOMAIN L.activeByPrincipal :
     LET token == L.activeByPrincipal[p] IN
       /\ token \in DOMAIN L.records
       /\ L.records[token].principal = p
       /\ Late(L.records[token], atTick)}

Expire(record, atTick) ==
  IF Late(record, atTick) THEN [record EXCEPT !.status = "expired"] ELSE record

Without(index, gone) == [p \in DOMAIN index \ gone |-> index[p]]

(* Faulty: expires the records but leaves the index alone. *)
FaultyCommitTick(L, atTick) ==
  [L EXCEPT !.lastTick = atTick,
            !.records = [t \in DOMAIN L.records |-> Expire(L.records[t], atTick)]]

CommitTick(L, atTick) ==
  [L EXCEPT !.lastTick = atTick,
            !.records = [t \in DOMAIN L.records |-> Expire(L.records[t], atTick)],
            !.activeByPrincipal = Without(L.activeByPrincipal, Lapsed(L, atTick))]

(* The post-consumption graph that a reservation's commit swaps in. *)
ConsumedState(L, token, atTick) ==
  LET owner == L.records[token].principal
      own   == {p \in DOMAIN L.activeByPrincipal :
                  p = owner /\ L.activeByPrincipal[p] = token}
  IN [L EXCEPT !.lastTick = atTick,
               !.records = [t \in DOMAIN L.records |->
                              IF t = token
                              THEN [L.records[t] EXCEPT !.status = "consumed"]
                              ELSE Expire(L.records[t], atTick)],
               !.activeByPrincipal =
                  Without(L.activeByPrincipal, own \cup Lapsed(L, atTick)),
               !.restoreAllowed = FALSE]

NewRecord(L, request) ==
  [id |-> L.nextDecisionSequence, principal |-> request.principal,
   status |-> "active", issuedTick |-> request.issuedTick,
   validThroughTick |-> request.validThroughTick]

(* Minting adds the record, indexes it and advances the sequence. *)
MintedState(L, token, request) ==
  LET E == CommitTick(L, request.issuedTick)
      owner == request.principal
  IN [E EXCEPT !.records = [t \in DOMAIN E.records \cup {token} |->
                              IF t = token THEN NewRecord(L, request) ELSE E.records[t]],
               !.activeByPrincipal =
                  [p \in DOMAIN E.activeByPrincipal \cup {owner} |->
                     IF p = owner THEN token ELSE E.activeByPrincipal[p]],
               !.nextDecisionSequence = L.nextDecisionSequence + 1,
               !.restoreAllowed = FALSE]

(***************************************************************************)
(* Snapshots.  The decisions of a snapshot are listed by id; the index and *)
(* restoreAllowed are not part of it and are rebuilt on restore.           *)
(***************************************************************************)
Snapshot(L) ==
  [phase |-> L.phase, cutoffTick |-> L.cutoffTick,
   admissionsClosedTick |-> L.admissionsClosedTick,
   finalizedTick |-> L.finalizedTick, lastTick |-> L.lastTick,
   nextDecisionSequence |-> L.nextDecisionSequence,
   decisions |-> {[tokenDigest |-> t, record |-> L.records[t]] : t \in DOMAIN L.records}]

(* parseDecisions: ids 1..n, issue ticks in id order, distinct digests, and a
   principal's next decision only once the one before it can no longer act. *)
ParseDecisions(S) ==
  /\ {d.record.id : d \in S} = 1 .. Cardinality(S)
  /\ \A d \in S : d.record.issuedTick <= d.record.validThroughTick
  /\ \A d, e \in S : d.record.id < e.record.id =>
       /\ d.record.issuedTick <= e.record.issuedTick
       /\ d.tokenDigest # e.tokenDigest
       /\ d.record.principal = e.record.principal =>
            /\ d.record.status # "active"
            /\ (d.record.status = "expired"
                /\ ~ \E m \in S : /\ m.record.principal = d.record.principal
                                  /\ m.record.id \in d.record.id + 1 .. e.record.id - 1)
                 => e.record.issuedTick > d.record.validThroughTick

HasValidFrontiers(S) ==
  LET set(t) == t # NoTick IN
  CASE S.phase = "open" ->
         ~set(S.cutoffTick) /\ ~set(S.admissionsClosedTick) /\ ~set(S.finalizedTick)
    [] S.phase = "cutoff" ->
         set(S.cutoffTick) /\ ~set(S.admissionsClosedTick) /\ ~set(S.finalizedTick)
    [] S.phase = "admissions_closed" ->
         set(S.cutoffTick) /\ set(S.admissionsClosedTick) /\ ~set(S.finalizedTick)
    [] S.phase = "finalized" ->
         set(S.cutoffTick) /\ set(S.admissionsClosedTick) /\ set(S.finalizedTick)

HasFutureFrontier(S) ==
  \/ \E t \in {S.cutoffTick, S.admissionsClosedTick, S.finalizedTick} :
       t # NoTick /\ t > S.lastTick
  \/ S.admissionsClosedTick # NoTick /\ S.cutoffTick > S.admissionsClosedTick
  \/ S.finalizedTick # NoTick /\ S.admissionsClosedTick > S.finalizedTick

(* The last tick must be one some call in this history can have committed. *)
HasReachableLastTick(S) ==
  LET D == {d.record : d \in S.decisions}
      newest == {d \in D : \A e \in D : e.principal = d.principal => e.id <= d.id}
      beforeExpiry(d) ==
        IF S.phase = "cutoff" THEN S.cutoffTick <= d.validThroughTick
        ELSE \A e \in D : e.issuedTick <= d.validThroughTick
  IN CASE S.phase = "admissions_closed" -> S.lastTick = S.admissionsClosedTick
       [] S.phase = "finalized" -> S.lastTick = S.finalizedTick
       [] OTHER ->
            \/ S.phase = "cutoff" /\ S.lastTick = S.cutoffTick
            \/ S.phase = "open" /\ \E d \in D : d.issuedTick = S.lastTick
            \/ \E d \in newest :
                 IF d.status = "expired"
                 THEN S.lastTick > d.validThroughTick /\ beforeExpiry(d)
                 ELSE S.lastTick <= d.validThroughTick

IsDecisionReachable(d, S) ==
  LET settled == S.phase \in {"admissions_closed", "finalized"} IN
  /\ d.issuedTick <= S.lastTick
  /\ S.cutoffTick # NoTick => d.issuedTick <= S.cutoffTick
  /\ d.status = "active" => ~settled /\ S.lastTick <= d.validThroughTick
  /\ d.status = "expired" =>
       /\ S.lastTick > d.validThroughTick
       /\ settled => d.validThroughTick < S.admissionsClosedTick

IsLifecycleConsistent(S) ==
  /\ HasValidFrontiers(S)
  /\ IF S.lastTick = NoTick
     THEN S.decisions = {} /\ S.phase = "open"
     ELSE /\ S.decisions # {} \/ S.phase # "open"
          /\ ~HasFutureFrontier(S)
          /\ HasReachableLastTick(S)
          /\ \A d \in S.decisions : IsDecisionReachable(d.record, S)

ParseSnapshot(S) ==
  /\ ParseDecisions(S.decisions)
  /\ S.nextDecisionSequence = Cardinality(S.decisions) + 1
  /\ IsLifecycleConsistent(S)

Listed(S, t) == (CHOOSE d \in S.decisions : d.tokenDigest = t).record
Digests(S) == {d.tokenDigest : d \in S.decisions}

(* Faulty: indexes every decision, not only the active ones. *)
FaultyIndexed(S) == Digests(S)

Indexed(S) == {t \in Digests(S) : Listed(S, t).status = "active"}

RestoredState(S) ==
  [records |-> [t \in Digests(S) |-> Listed(S, t)],
   activeByPrincipal |->
     [p \in {Listed(S, t).principal : t \in Indexed(S)} |->
        CHOOSE t \in Indexed(S) : Listed(S, t).principal = p],
   phase |-> S.phase, cutoffTick |-> S.cutoffTick,
   admissionsClosedTick |-> S.admissionsClosedTick,
   finalizedTick |-> S.finalizedTick, lastTick |-> S.lastTick,
   nextDecisionSequence |-> S.nextDecisionSequence, restoreAllowed |-> FALSE]

(***************************************************************************)
(* The guards every operation shares.                                      *)
(***************************************************************************)
(* Faulty: a held reservation does not keep other calls out. *)
FaultyOperable == minting = None

Operable == reservation = None /\ minting = None
CheckTick(atTick) == atTick >= live.lastTick
Admitting == live.phase \in {"open", "cutoff"}

(* verifyAdmission up to the expiry test: a known, active token of its owner. *)
Presented(token, principal, atTick) ==
  /\ CheckTick(atTick)
  /\ Admitting
  /\ token \in DOMAIN live.records
  /\ live.records[token].principal = principal
  /\ atTick >= live.records[token].issuedTick
  /\ live.records[token].status = "active"

Admissible(token, principal, atTick) ==
  Presented(token, principal, atTick) /\ atTick <= live.records[token].validThroughTick

Init ==
  /\ live = PristineState
  /\ reservation = None
  /\ minting = None
  /\ checkpoint = None
  /\ recoveries = 0

(***************************************************************************)
(* Minting: the request is checked, then the entropy source runs.          *)
(***************************************************************************)
HasActiveDecision(principal, atTick) ==
  /\ principal \in DOMAIN live.activeByPrincipal
  /\ atTick <= live.records[live.activeByPrincipal[principal]].validThroughTick

MintRequest(principal, issuedTick, validThroughTick) ==
  /\ Operable
  /\ issuedTick <= validThroughTick
  /\ CheckTick(issuedTick)
  /\ live.phase = "open"
  /\ ~HasActiveDecision(principal, issuedTick)
  /\ live.nextDecisionSequence <= MaxDecisionSequence
  /\ minting' = [principal |-> principal, issuedTick |-> issuedTick,
                 validThroughTick |-> validThroughTick, draws |-> 0, reentered |-> FALSE]
  /\ UNCHANGED <<live, reservation, outside>>

(* Any registry call made from inside the entropy source: refused, but noticed. *)
MintReentered ==
  /\ minting # None
  /\ minting' = [minting EXCEPT !.reentered = TRUE]
  /\ UNCHANGED <<live, reservation, outside>>

(* The source returns a fresh token, and the mint takes effect. *)
MintFresh(token) ==
  /\ minting # None
  /\ ~minting.reentered
  /\ token \notin DOMAIN live.records
  /\ live' = MintedState(live, token, minting)
  /\ minting' = None
  /\ UNCHANGED <<reservation, outside>>

(* The source returns a token in use: another draw, up to the limit. *)
MintCollision ==
  /\ minting # None
  /\ ~minting.reentered
  /\ DOMAIN live.records # {}
  /\ minting.draws + 1 < MaxEntropyDraws
  /\ minting' = [minting EXCEPT !.draws = @ + 1]
  /\ UNCHANGED <<live, reservation, outside>>

(* The source threw, was re-entered, or used up its draws. *)
MintFailed ==
  /\ minting # None
  /\ minting' = None
  /\ UNCHANGED <<live, reservation, outside>>

(***************************************************************************)
(* Admissions.                                                             *)
(***************************************************************************)
AdmitRead(token, principal, atTick) ==
  /\ Operable
  /\ Admissible(token, principal, atTick)
  /\ live' = CommitTick(live, atTick)
  /\ UNCHANGED <<reservation, minting, outside>>

(* admitRead and consumeForAct refuse a late token, but commit the tick first. *)
RefuseLateToken(token, principal, atTick) ==
  /\ Operable
  /\ Presented(token, principal, atTick)
  /\ atTick > live.records[token].validThroughTick
  /\ live' = CommitTick(live, atTick)
  /\ UNCHANGED <<reservation, minting, outside>>

ReserveForAct(token, principal, atTick) ==
  /\ Operable
  /\ Admissible(token, principal, atTick)
  /\ reservation' = [token |-> token, atTick |-> atTick,
                     committed |-> ConsumedState(live, token, atTick)]
  /\ UNCHANGED <<live, minting, outside>>

CommitReservation ==
  /\ reservation # None
  /\ live' = reservation.committed
  /\ reservation' = None
  /\ UNCHANGED <<minting, outside>>

AbortReservation ==
  /\ reservation # None
  /\ reservation' = None
  /\ UNCHANGED <<live, minting, outside>>

ConsumeForAct(token, principal, atTick) ==
  /\ Operable
  /\ Admissible(token, principal, atTick)
  /\ live' = ConsumedState(live, token, atTick)
  /\ UNCHANGED <<reservation, minting, outside>>

(***************************************************************************)
(* Phase transitions.  Each one also commits its tick.                     *)
(***************************************************************************)
HasActiveDecisionAt(L, atTick) ==
  \E t \in DOMAIN L.records :
    L.records[t].status = "active" /\ atTick <= L.records[t].validThroughTick

Transition(atTick, expected, advanced) ==
  /\ Operable
  /\ CheckTick(atTick)
  /\ live.phase = expected
  /\ live' = [CommitTick(advanced, atTick) EXCEPT !.restoreAllowed = FALSE]
  /\ UNCHANGED <<reservation, minting, outside>>

BeginCutoff(atTick) ==
  Transition(atTick, "open", [live EXCEPT !.phase = "cutoff", !.cutoffTick = atTick])

CloseAdmissions(atTick) ==
  /\ ~HasActiveDecisionAt(live, atTick)
  /\ Transition(atTick, "cutoff",
       [live EXCEPT !.phase = "admissions_closed", !.admissionsClosedTick = atTick])

Finalize(atTick) ==
  Transition(atTick, "admissions_closed",
    [live EXCEPT !.phase = "finalized", !.finalizedTick = atTick])

(***************************************************************************)
(* Checkpoint, loss of the process, and restore into a fresh registry.     *)
(***************************************************************************)
TakeSnapshot ==
  /\ recoveries < MaxRecoveries
  /\ Operable
  /\ checkpoint' = Snapshot(live)
  /\ UNCHANGED <<process, recoveries>>

(* restore is accepted by a registry no operation has changed yet. *)
Restore ==
  /\ Operable
  /\ checkpoint # None
  /\ live.restoreAllowed
  /\ ParseSnapshot(checkpoint)
  /\ live' = RestoredState(checkpoint)
  /\ UNCHANGED <<reservation, minting, outside>>

(* The process dies, with whatever it was doing; the host creates a registry and
   restores the checkpoint into it before any other call can reach it. *)
Recover ==
  /\ recoveries < MaxRecoveries
  /\ checkpoint # None
  /\ ParseSnapshot(checkpoint)
  /\ live' = RestoredState(checkpoint)
  /\ reservation' = None
  /\ minting' = None
  /\ recoveries' = recoveries + 1
  /\ UNCHANGED checkpoint

Next ==
  \/ \E p \in Principals, i, v \in Ticks : MintRequest(p, i, v)
  \/ MintReentered
  \/ \E t \in Tokens : MintFresh(t)
  \/ MintCollision
  \/ MintFailed
  \/ \E t \in Tokens, p \in Principals, i \in Ticks :
       \/ AdmitRead(t, p, i)
       \/ RefuseLateToken(t, p, i)
       \/ ReserveForAct(t, p, i)
       \/ ConsumeForAct(t, p, i)
  \/ CommitReservation
  \/ AbortReservation
  \/ \E i \in Ticks : BeginCutoff(i) \/ CloseAdmissions(i) \/ Finalize(i)
  \/ TakeSnapshot
  \/ Restore
  \/ Recover

Spec == Init /\ [][Next]_vars
-----------------------------------------------------------------------------
(***************************************************************************)
(* Properties.                                                             *)
(***************************************************************************)
NullableTicks == Ticks \cup {NoTick}
IsMap(f, S, T) == DOMAIN f \subseteq S /\ f \in [DOMAIN f -> T]

LiveType(L) ==
  /\ L \in [records : {L.records}, activeByPrincipal : {L.activeByPrincipal},
            phase : Phases, cutoffTick : NullableTicks,
            admissionsClosedTick : NullableTicks, finalizedTick : NullableTicks,
            lastTick : NullableTicks,
            nextDecisionSequence : 1 .. MaxDecisionSequence + 1,
            restoreAllowed : BOOLEAN]
  /\ IsMap(L.records, Tokens, DecisionRecord)
  /\ IsMap(L.activeByPrincipal, Principals, Tokens)

Mints == [principal : Principals, issuedTick : Ticks, validThroughTick : Ticks,
          draws : 0 .. MaxEntropyDraws, reentered : BOOLEAN]

(* Every variable of the registry has the type its declaration in
   decisionRegistry.ts gives it. *)
TypeOK ==
  /\ LiveType(live)
  /\ reservation = None \/
       /\ reservation \in [token : Tokens, atTick : Ticks, committed : {reservation.committed}]
       /\ LiveType(reservation.committed)
  /\ minting = None \/ minting \in Mints
  /\ recoveries \in 0 .. MaxRecoveries

IndexExact(L) ==
  /\ \A p \in DOMAIN L.activeByPrincipal :
       LET t == L.activeByPrincipal[p] IN
         /\ t \in DOMAIN L.records
         /\ L.records[t].principal = p
         /\ L.records[t].status = "active"
  /\ \A t \in DOMAIN L.records : L.records[t].status = "active" =>
       /\ L.records[t].principal \in DOMAIN L.activeByPrincipal
       /\ L.activeByPrincipal[L.records[t].principal] = t

ActiveInWindow(L) ==
  \A t \in DOMAIN L.records : L.records[t].status = "active" =>
    /\ L.lastTick \in L.records[t].issuedTick .. L.records[t].validThroughTick
    /\ L.phase \in {"open", "cutoff"}

(* The activeByPrincipal index and the record statuses never disagree: it names
   exactly the active decisions, so a principal has at most one (mint, commitTick,
   consumedState and restoredState each maintain the two maps separately). *)
ActiveIndexExact == IndexExact(live)

(* The graph a reservation will swap in is the one consumption would build from
   the state at commit time: nothing committed between reserve and commit is lost. *)
ReservationCurrent ==
  reservation # None =>
    /\ reservation.token \in DOMAIN live.records
    /\ reservation.committed = ConsumedState(live, reservation.token, reservation.atTick)

(* Nothing acts on a decision whose window is over: a decision is active only while
   the last committed tick is within its validity, and none is active once
   admissions are closed. *)
NoStaleActive == ActiveInWindow(live)

(* Within one process a decision is never forgotten, renumbered or revived, and
   neither the sequence nor the tick goes back. *)
DecisionsMonotone ==
  [][ recoveries' = recoveries =>
      /\ DOMAIN live.records \subseteq DOMAIN live'.records
      /\ \A t \in DOMAIN live.records :
           LET old == live.records[t] new == live'.records[t] IN
           /\ new = [old EXCEPT !.status = new.status]
           /\ old.status # "active" => new.status = old.status
      /\ live.nextDecisionSequence <= live'.nextDecisionSequence
      /\ live.lastTick <= live'.lastTick ]_live

(* A decision is consumed only inside its window, while admissions are open. *)
ConsumedInWindow ==
  [][ \A t \in DOMAIN live.records \cap DOMAIN live'.records :
        live.records[t].status = "active" /\ live'.records[t].status = "consumed" =>
          /\ live'.lastTick \in live.records[t].issuedTick .. live.records[t].validThroughTick
          /\ live.phase \in {"open", "cutoff"}
          /\ live.phase = live'.phase ]_live

(* What a checkpoint has recorded stays recorded, also after a crash and recovery
   from it: its decisions keep their tokens and owners, and one it saw consumed or
   expired never becomes usable again. *)
CheckpointIsPast ==
  checkpoint # None => \A d \in checkpoint.decisions :
    /\ d.tokenDigest \in DOMAIN live.records
    /\ LET now == live.records[d.tokenDigest] IN
         /\ now = [d.record EXCEPT !.status = now.status]
         /\ d.record.status # "active" => now.status = d.record.status

(* Whatever the history, the snapshot of a quiet registry passes the strict
   snapshot parser and restores the very state it was taken from. *)
SnapshotFaithful ==
  Operable => LET S == Snapshot(live) IN
    /\ ParseSnapshot(S)
    /\ RestoredState(S) = [live EXCEPT !.restoreAllowed = FALSE]
=============================================================================
