-------------------------- MODULE DynamicsSession --------------------------
(***************************************************************************)
(* The checked session around an authored mechanics provider               *)
(* (dynamics/session.ts): actions are queued for the coming tick under an  *)
(* identity that may be repeated, applied by a step in the order of their  *)
(* numbers, and kept for a while so that a repetition is recognised; the   *)
(* provider is watched while it steps, observes or is restored, and taken  *)
(* back to where it was when it throws, answers out of contract or changes *)
(* its state without being asked; the whole may be captured and restored.  *)
(*                                                                         *)
(* A correct provider's state is named by the tick it is about to make, a  *)
(* state it should not be in is Spoilt.  What an author's rule computes is *)
(* a nondeterministic reply.  WorldRuntime drives a session as one part of *)
(* a world; here it is a library that any host may drive.                  *)
(***************************************************************************)
EXTENDS Integers, FiniteSets, Sequences, SequencesExt, FiniteSetsExt

CONSTANTS
  Attempts,      \* what hosts may queue: [key, at]
  OutcomeSets,   \* commitment outcomes a step may declare
  QueueLimit,    \* DYNAMICS_LIMITS.actions_per_tick
  AcceptedAbove, \* DYNAMICS_LIMITS.retained_action_records
  DrainsEarly,   \* whether a host acknowledges evidence in the middle of a tick
  SessionTicks,  \* bound: ticks stepped
  MaxSpoils      \* bound: times the provider misbehaves

ASSUME SessionAssumption ==
  /\ QueueLimit \in Nat \ {0}
  /\ SessionTicks \in Nat /\ MaxSpoils \in Nat
  /\ \A a \in Attempts : a.at \in Nat

VARIABLES
  dyn,       \* the session, with its provider's state
  snapshotted, \* the snapshots a host keeps, at most one
  story      \* [told: receipts given, applied, orphan: an action was queued ...
             \*  that has no record, spoils] of the time line that is current

sessionVars == <<dyn, snapshotted, story>>

Nobody == "none"
Spoilt == -1
Retention == QueueLimit  \* DYNAMICS_ACTION_RETENTION_LIMITS.records
NumbersOf(s) == [i \in DOMAIN s.pending |-> s.pending[i].seq]

\* compareDynamicsActionIdempotencyRecords, for records that are not queued.
Before(a, b) ==
  \/ a.retained < b.retained
  \/ a.retained = b.retained /\ a.apply < b.apply
  \/ a.retained = b.retained /\ a.apply = b.apply /\ a.at < b.at
  \/ a.retained = b.retained /\ a.apply = b.apply /\ a.at = b.at /\ a.key < b.key

\* The n oldest of them.
Oldest(records, n) ==
  {r \in records : Cardinality({q \in records : Before(q, r)}) < n}

\* A mutant of Evicted: records of the current tick are forgotten too.
FaultyEvicted(s) ==
  LET over == Cardinality(s.ingress) + 1 - Retention
  IN  IF over <= 0 THEN {} ELSE Oldest(s.ingress, over)

\* retainAction: what it leaves of the records, and whether there was room.
Evicted(s) ==
  LET old == {r \in s.ingress : r.retained < s.tick}
      over == Cardinality(s.ingress) + 1 - Retention
  IN  IF over <= 0 THEN {} ELSE IF Cardinality(old) < over THEN old ELSE Oldest(old, over)

HasRoom(s) == Cardinality(s.ingress \ Evicted(s)) < Retention
Retain(s, record) ==
  [s EXCEPT !.ingress = (@ \ Evicted(s)) \cup (IF HasRoom(s) THEN {record} ELSE {})]

\* createDynamicsActionIngressEvidenceBuffer.
Available(s) == Len(s.evidence) < Retention
Evidenced(s, key) ==
  [s EXCEPT !.ordinal = @ + 1,
            !.evidence = Append(@, [ordinal |-> s.ordinal + 1, key |-> key])]

Record(s, a, queued) ==
  [key |-> a.key, at |-> a.at, retained |-> s.tick, queued |-> queued,
   seq |-> IF queued THEN s.nextSeq ELSE 0, apply |-> s.tick]

------------------------------------------------------------------------------
(* queueAction.  A key that is retained is answered from its record, with   *)
(* the receipt of the same attempt or as a conflict, and changes nothing.   *)

\* Where evidence is not available, nothing is done.
Fresh(a) ==
  dyn.closed = FALSE /\ Available(dyn) /\ \A r \in dyn.ingress : r.key # a.key

WrongTick(a) ==
  /\ Fresh(a) /\ a.at # dyn.tick
  /\ LET s == Retain(dyn, Record(dyn, a, FALSE))
     IN  dyn' = IF HasRoom(dyn) THEN Evidenced(s, a.key) ELSE s
  /\ UNCHANGED <<snapshotted, story>>

\* The action is queued before it is retained, and stays when it is not.
QueueAttempt(a) ==
  /\ Fresh(a) /\ a.at = dyn.tick
  /\ Len(dyn.pending) < QueueLimit
  /\ LET action == [key |-> a.key, seq |-> dyn.nextSeq]
         s == [Retain(dyn, Record(dyn, a, TRUE)) EXCEPT
                !.nextSeq = @ + 1, !.pending = Append(@, action)]
     IN  /\ dyn' = IF HasRoom(dyn) THEN Evidenced(s, a.key) ELSE s
         /\ story' = IF HasRoom(dyn)
                     THEN [story EXCEPT !.told = @ \cup {[key |-> a.key, at |-> a.at,
                                                         seq |-> dyn.nextSeq]}]
                     ELSE [story EXCEPT !.orphan = TRUE]
  /\ UNCHANGED snapshotted

\* acknowledgeActionIngressEvidence, of everything issued.
Acknowledge ==
  /\ ~dyn.closed /\ dyn.evidence # <<>>
  /\ DrainsEarly \/ dyn.pending = <<>>
  /\ dyn' = [dyn EXCEPT !.evidence = <<>>]
  /\ UNCHANGED <<snapshotted, story>>

------------------------------------------------------------------------------
(* The provider. *)

Spoils == story' = [story EXCEPT !.spoils = @ + 1]

\* restoreProviderExactly: the state is the one asked for, or the provider
\* refused, or did something else.
Rollback(s) == {s, [s EXCEPT !.provider = Spoilt, !.closed = TRUE]}

\* observe and spatial: a provider that throws, answers out of contract or
\* changes its state is taken back.
Watch ==
  /\ ~dyn.closed /\ story.spoils < MaxSpoils
  /\ dyn' \in Rollback(dyn)
  /\ Spoils
  /\ UNCHANGED snapshotted

\* createDynamicsActionSequenceIndex: the members above the first number that is
\* not one, of which only so many are kept.
AboveFloor(numbers) ==
  LET floor == Min({n \in 1 .. Cardinality(numbers) + 1 : n \notin numbers})
  IN  {n \in numbers : n > floor}

\* parseDynamicsCommitmentOutcomeDraft: who an outcome names.
OutcomeFits(o) ==
  /\ o.outcome \in {"matched", "unmatched"} => o.counterparty # Nobody
  /\ o.outcome \in {"fulfilled", "abandoned"} => o.counterparty = Nobody
  /\ o.counterparty # o.participant

\* parseDynamicsCommitmentOutcomeDrafts: one outcome a commitment.
OutcomesFit(outcomes) ==
  \A o \in outcomes : OutcomeFits(o) /\ \A p \in outcomes : o.id = p.id => o = p

\* parseDynamicsStepResult: every queued action is answered once, in order.
ReplyParses(s, reply) ==
  /\ reply.tick = s.tick
  /\ reply.results = NumbersOf(s)
  /\ OutcomesFit(reply.outcomes)
  /\ \A n \in reply.causes : n < s.nextSeq

\* An event and an outcome come of actions that were accepted, now or before.
CausesAccepted(s, reply) ==
  LET acceptable == s.accepted \cup reply.accepted
  IN  /\ reply.causes \subseteq acceptable
      /\ \A o \in reply.outcomes : o.seq \in acceptable

InContract(s, reply) ==
  /\ ReplyParses(s, reply)
  /\ CausesAccepted(s, reply)
  /\ Cardinality(AboveFloor(s.accepted \cup reply.accepted)) <= AcceptedAbove

Replies(s) ==
  [tick : {s.tick, s.tick + 1}, results : {NumbersOf(s), Reverse(NumbersOf(s))},
   accepted : SUBSET ToSet(NumbersOf(s)), causes : {{}, {1}}, outcomes : OutcomeSets]

\* What a step leaves of a record: the receipt of a repetition is of another tick.
Over(r, tick) ==
  IF r.queued THEN [r EXCEPT !.queued = FALSE, !.seq = 0, !.apply = tick + 1] ELSE r

Stepped(s, reply) ==
  [s EXCEPT
    !.accepted = @ \cup reply.accepted,
    !.resolved = @ \cup ToSet(NumbersOf(s)),
    !.pending = <<>>,
    !.tick = @ + 1,
    !.ingress = {Over(r, s.tick) : r \in @},
    !.floor = s.nextSeq,
    !.evidence = <<>>,
    !.provider = s.tick + 1]

Applied(s) == [i \in DOMAIN s.pending |->
                [key |-> s.pending[i].key, at |-> s.tick, seq |-> s.pending[i].seq]]

Step ==
  /\ ~dyn.closed /\ dyn.tick < SessionTicks
  /\ \E reply \in Replies(dyn) :
       /\ InContract(dyn, reply)
       /\ dyn' = Stepped(dyn, reply)
       /\ story' = [story EXCEPT !.applied = @ \o Applied(dyn)]
  /\ UNCHANGED snapshotted

\* The provider throws, which may be tried again, or its reply is refused, or an
\* action it accepts no longer fits above the floor.
StepFails ==
  /\ ~dyn.closed /\ dyn.tick < SessionTicks /\ story.spoils < MaxSpoils
  /\ dyn' \in Rollback(dyn)
  /\ Spoils
  /\ UNCHANGED snapshotted

------------------------------------------------------------------------------
(* snapshot and restore. *)

\* parseReceipt and parseIngress: the records of a snapshot.
RecordsParse(s) ==
  /\ Cardinality(s.ingress) <= Retention
  /\ \A r \in s.ingress : IF r.queued THEN r.apply = r.at ELSE r.apply # r.at
  /\ \A r, q \in s.ingress : r.key = q.key => r = q

\* assertActionInvariants: what the parts of a snapshot owe each other.
Parses(s) ==
  LET queued == {r \in s.ingress : r.queued}
  IN  /\ RecordsParse(s)
      /\ Len(s.pending) <= QueueLimit
      /\ s.floor <= s.nextSeq
      /\ {r.seq : r \in queued} = s.floor .. (s.nextSeq - 1)
      /\ NumbersOf(s) = [i \in 1..Cardinality(queued) |-> s.floor + i - 1]
      /\ \A i \in DOMAIN s.pending : \E r \in queued :
           r.key = s.pending[i].key /\ r.seq = s.pending[i].seq /\ r.at = s.tick
      /\ \A r \in s.ingress :
           IF r.queued THEN r.retained = s.tick /\ r.apply = s.tick
           ELSE r.retained <= r.apply /\ r.apply <= s.tick
      /\ s.resolved = 1 .. (s.floor - 1)
      /\ s.accepted \subseteq s.resolved

Snapshot ==
  /\ ~dyn.closed /\ snapshotted = {}
  /\ snapshotted' = {[dyn |-> [dyn EXCEPT !.evidence = <<>>], told |-> story.told,
                      applied |-> story.applied, orphan |-> story.orphan]}
  /\ UNCHANGED <<dyn, story>>

\* A mutant of Restored: evidence of the time line that was left stays.
FaultyRestored(snap) == [snap EXCEPT !.evidence = dyn.evidence]

\* The entries up to an ordinal, in order: SelectSeq, as a recursive function.
IssuedUpTo(entries, ordinal) ==
  LET kept[i \in 0 .. Len(entries)] ==
        IF i = 0 THEN <<>>
        ELSE IF entries[i].ordinal <= ordinal THEN Append(kept[i - 1], entries[i])
        ELSE kept[i - 1]
  IN  kept[Len(entries)]

\* The evidence that was not acknowledged is kept up to the restored ordinal.
Restored(snap) == [snap EXCEPT !.evidence = IssuedUpTo(dyn.evidence, snap.ordinal)]

Restore ==
  /\ ~dyn.closed
  /\ \E kept \in snapshotted :
       /\ Parses(kept.dyn)
       /\ dyn' = Restored(kept.dyn)
       /\ story' = [story EXCEPT !.told = kept.told, !.applied = kept.applied,
                                 !.orphan = kept.orphan]
  /\ snapshotted' = {}

RestoreFails ==
  /\ ~dyn.closed /\ snapshotted # {} /\ story.spoils < MaxSpoils
  /\ dyn' \in Rollback(dyn)
  /\ Spoils
  /\ snapshotted' = {}

------------------------------------------------------------------------------
SessionInit ==
  /\ dyn = [tick |-> 0, nextSeq |-> 1, pending |-> <<>>, ingress |-> {},
            floor |-> 1, accepted |-> {}, resolved |-> {}, closed |-> FALSE,
            evidence |-> <<>>, ordinal |-> 0, provider |-> 0]
  /\ snapshotted = {}
  /\ story = [told |-> {}, applied |-> <<>>, orphan |-> FALSE, spoils |-> 0]

SessionNext ==
  \/ \E a \in Attempts : WrongTick(a) \/ QueueAttempt(a)
  \/ Acknowledge \/ Watch \/ Step \/ StepFails
  \/ Snapshot \/ Restore \/ RestoreFails

SessionSpec == SessionInit /\ [][SessionNext]_sessionVars

------------------------------------------------------------------------------
\* Every action a host was given a receipt for is applied once, in the tick and
\* under the number the receipt names, and nothing else is, however often it was
\* sent, steps were taken back and the session was restored.
AppliedAsTold ==
  LET applied == story.applied
  IN  /\ \A i, j \in DOMAIN applied : i < j =>
           applied[i].seq < applied[j].seq /\ <<applied[i].key, applied[i].at>>
                                               # <<applied[j].key, applied[j].at>>
      /\ ToSet(applied) = {t \in story.told : t.at < dyn.tick}
      /\ {t \in story.told : t.at >= dyn.tick} = ToSet(Applied(dyn))

\* An open session's provider is in the state of the last step that counted.
ProviderKept == ~dyn.closed => dyn.provider = dyn.tick

\* The evidence a host has not acknowledged is in order and of what was issued.
EvidenceInOrder ==
  \A i, j \in DOMAIN dyn.evidence :
    dyn.evidence[i].ordinal <= dyn.ordinal
    /\ (i < j => dyn.evidence[i].ordinal < dyn.evidence[j].ordinal)

\* What the session would write down at any moment is what it would accept again
\* (snapshotValidation.ts:188: "dynamics snapshot pending actions must equal
\* retained queued receipts").
Restorable == ~dyn.closed => Parses(dyn)

\* All of it, until an action is queued that finds no room for its record: it stays
\* in the queue without one (session.ts:198-200), is applied though its host was
\* refused, and cannot be written down while it waits.  That is a defect, and the
\* one case left out; a session that goes back to before it is exact again.
SessionExact ==
  /\ ProviderKept /\ EvidenceInOrder
  /\ ~story.orphan => AppliedAsTold /\ Restorable
==============================================================================
