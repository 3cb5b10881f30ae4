--------------------------- MODULE RunRecordProofs ---------------------------
(***************************************************************************)
(* The recorder implements the slot, and so never shares its directory.    *)
(*                                                                         *)
(* Of a step only the directory and the stages matter: most steps move one *)
(* run between stages in which it holds the directory (Inside), and the    *)
(* others are taken one by one.                                            *)
(***************************************************************************)
EXTENDS RunRecord, DynamicsSession, FiniteSetTheorems, WellFoundedInduction, TLAPS

Holding == Underway \cup {"create", "abort", "abortStaging", "abortOut",
                           "stuck", "crashed"}

\* A step in which a run goes from one stage of holding to another, or stays.
Inside(r) ==
    /\ outDir' = outDir
    /\ \/ pc' = pc
       \/ \E to \in Holding : /\ pc[r] \in Holding
                             /\ pc' = [pc EXCEPT ![r] = to]

\* What the source does moves no run.
LEMMA SourceInside == ASSUME NEW r \in Run, Source(r) PROVE Inside(r)
<1>1. CASE \E origin \in Origin : QueueAction(r, origin)
  BY <1>1 DEF QueueAction, Inside
<1>2. CASE RefuseAction(r)
  BY <1>2 DEF RefuseAction, Inside
<1>3. CASE LogObservation(r)
  BY <1>3 DEF LogObservation, Inside
<1>4. QED
  BY <1>1, <1>2, <1>3 DEF Source

\* The steps of a tick move a run from one stage of holding to another.
LEMMA TickInside == ASSUME NEW r \in Run, RecordTick(r) PROVE Inside(r)
<1>1. CASE OpenTick(r)
  BY <1>1 DEF OpenTick, Goto, Inside, Holding, Underway
<1>2. CASE CloseTick(r)
  BY <1>2 DEF CloseTick, Goto, Inside, Holding, Underway
<1>3. CASE RecordIngress(r)
  BY <1>3 DEF RecordIngress, Goto, Inside, Holding, Underway
<1>4. CASE AcknowledgeIngress(r)
  BY <1>4 DEF AcknowledgeIngress, Goto, Inside, Holding, Underway
<1>5. CASE ReadRefusals(r)
  BY <1>5 DEF ReadRefusals, Goto, Inside, Holding, Underway
<1>6. CASE RefusalsLost(r)
  BY <1>6 DEF RefusalsLost, Goto, Inside, Holding, Underway
<1>7. CASE RecordRefusal(r)
  BY <1>7 DEF RecordRefusal, Goto, Inside, Holding, Underway
<1>8. CASE AcknowledgeRefusal(r)
  BY <1>8 DEF AcknowledgeRefusal, Goto, Inside, Holding, Underway
<1>9. CASE ReadPerceptions(r)
  BY <1>9 DEF ReadPerceptions, Goto, Inside, Holding, Underway
<1>10. CASE RecordPerception(r)
  BY <1>10 DEF RecordPerception, Goto, Inside, Holding, Underway
<1>11. CASE StepSession(r)
  BY <1>11 DEF StepSession, Goto, Inside, Holding, Underway
<1>12. CASE RecordResult(r)
  BY <1>12 DEF RecordResult, Goto, Inside, Holding, Underway
<1>13. CASE RecordStep(r)
  BY <1>13 DEF RecordStep, Goto, Inside, Holding, Underway
<1>14. CASE RecordOutcome(r)
  BY <1>14 DEF RecordOutcome, Goto, Inside, Holding, Underway
<1>15. CASE EndTick(r)
  BY <1>15 DEF EndTick, Goto, Inside, Holding, Underway
<1>16. QED
  BY <1>1, <1>2, <1>3, <1>4, <1>5, <1>6, <1>7, <1>8, <1>9, <1>10, <1>11, <1>12, <1>13, <1>14, <1>15 DEF RecordTick

\* So do the steps of an ending, but for the seal and the giving back.
LEMMA EndingInside ==
  ASSUME NEW r \in Run, Ending(r), ~ SealStaging(r), ~ AbortOut(r)
  PROVE  Inside(r)
<1>1. CASE EndRun(r)
  BY <1>1 DEF EndRun, Goto, Inside, Holding, Underway
<1>2. CASE Decide(r)
  BY <1>2 DEF Decide, Goto, Inside, Holding, Underway
<1>3. CASE MixedOrigins(r)
  BY <1>3 DEF MixedOrigins, Goto, Inside, Holding, Underway
<1>4. CASE WriteReplay(r)
  BY <1>4 DEF WriteReplay, Goto, Inside, Holding, Underway
<1>5. CASE CloseHandles(r)
  BY <1>5 DEF CloseHandles, Goto, Inside, Holding, Underway
<1>6. CASE FailRun(r)
  BY <1>6 DEF FailRun, Goto, Inside, Holding, Underway
<1>7. CASE AbortHandles(r)
  BY <1>7 DEF AbortHandles, Goto, Inside, Holding, Underway
<1>8. CASE AbortStaging(r)
  BY <1>8 DEF AbortStaging, Goto, Inside, Holding, Underway
<1>9. CASE AbortOutFails(r)
  BY <1>9 DEF AbortOutFails, Goto, Inside, Holding, Underway
<1>10. CASE RunCrashes(r)
  BY <1>10 DEF RunCrashes, Goto, Inside, Holding, Underway
<1>11. QED
  BY <1>1, <1>2, <1>3, <1>4, <1>5, <1>6, <1>7, <1>8, <1>9, <1>10 DEF Ending

\* Every step is one that the slot can see, or stays inside.
LEMMA StepKinds ==
  ASSUME [RecordNext]_recordVars
  PROVE  \/ UNCHANGED << outDir, pc >>
         \/ Intrude
         \/ \E r \in Run : \/ Refuse(r) \/ ReserveOut(r) \/ SealStaging(r) \/ AbortOut(r)
                          \/ Inside(r)
<1>1. CASE UNCHANGED recordVars
  BY <1>1 DEF recordVars
<1>2. ASSUME NEW r \in Run, CreateStaging(r) \/ CreateFails(r) \/ Load(r)
      PROVE  Inside(r)
  <2>1. CASE CreateStaging(r)
    BY <2>1 DEF CreateStaging, Goto, Inside, Holding, Underway
  <2>2. CASE CreateFails(r)
    BY <2>2 DEF CreateFails, Goto, Inside, Holding, Underway
  <2>3. CASE Load(r)
    BY <2>3 DEF Load, Goto, Inside, Holding, Underway
  <2>4. QED
    BY <1>2, <2>1, <2>2, <2>3
<1>3. QED
  BY <1>1, <1>2, SourceInside, TickInside, EndingInside, Zenon DEF RecordNext

\* The directory and the stages keep their types.
THEOREM TypeAlways == RecordSpec => []RecordTypeOK
<1>1. RecordInit => RecordTypeOK
  BY DEF RecordInit, RecordTypeOK, RecordStage
<1>2. RecordTypeOK /\ [RecordNext]_recordVars => RecordTypeOK'
  <2> SUFFICES ASSUME RecordTypeOK, [RecordNext]_recordVars PROVE RecordTypeOK'
    OBVIOUS
  <2>1. ASSUME NEW r \in Run, Inside(r) PROVE RecordTypeOK'
    BY <2>1 DEF Inside, Holding, RecordStage, RecordTypeOK
  <2>2. ASSUME NEW r \in Run, Refuse(r) \/ ReserveOut(r) PROVE RecordTypeOK'
    BY <2>2 DEF Refuse, ReserveOut, Goto, RecordStage, RecordTypeOK
  <2>3. ASSUME NEW r \in Run, SealStaging(r) \/ AbortOut(r) PROVE RecordTypeOK'
    BY <2>3 DEF SealStaging, AbortOut, Goto, RecordStage, RecordTypeOK
  <2>4. QED
    BY <2>1, <2>2, <2>3, StepKinds DEF Intrude, RecordTypeOK
<1>3. QED
  BY <1>1, <1>2, PTL DEF RecordSpec

\* The slot as the recorder has it.
Place == IF outDir = "absent" THEN "free"
         ELSE IF outDir \in {"empty", "foreign"} THEN "taken" ELSE outDir

Status == [r \in Run |->
             IF pc[r] = "start" THEN "none"
             ELSE IF pc[r] \in {"refused", "failed"} THEN "gone"
             ELSE IF pc[r] = "sealed" THEN "sealed" ELSE "holds"]

LEMMA SlotStep ==
  ASSUME RecordTypeOK, [RecordNext]_recordVars
  PROVE  [Slot!Next]_<< Place, Status >>
<1> USE RunRecordAssumption DEF RunRecordAssumption
<1>1. ASSUME NEW r \in Run, Inside(r)
      PROVE  UNCHANGED << Place, Status >>
  BY <1>1 DEF Inside, Holding, Underway, Place, Status, RecordTypeOK
<1>2. ASSUME UNCHANGED << outDir, pc >>
      PROVE  UNCHANGED << Place, Status >>
  BY <1>2 DEF Place, Status
<1>3. ASSUME Intrude PROVE UNCHANGED << Place, Status >>
  BY <1>3 DEF Intrude, Place, Status
<1>4. ASSUME NEW r \in Run, Refuse(r) PROVE Slot!Refuse(r)
  BY <1>4 DEF Refuse, Goto, Slot!Refuse, Slot!Become, RecordTypeOK
<1>5. ASSUME NEW r \in Run, ReserveOut(r) PROVE Slot!Take(r)
  BY <1>5 DEF ReserveOut, Goto, Slot!Take, Slot!Become, RecordTypeOK
<1>6. ASSUME NEW r \in Run, SealStaging(r) PROVE Slot!Seal(r)
  BY <1>6 DEF SealStaging, Goto, Slot!Seal, Slot!Become, RecordTypeOK
<1>7. ASSUME NEW r \in Run, AbortOut(r) PROVE Slot!GiveBack(r)
  BY <1>7 DEF AbortOut, Goto, Slot!GiveBack, Slot!Become, RecordTypeOK
<1>8. QED
  BY <1>1, <1>2, <1>3, <1>4, <1>5, <1>6, <1>7, StepKinds, Zenon
  DEF Slot!Next, Place, Status

\* The recorder implements the slot: a directory is taken by one run at a
\* time, sealed for good, or given back by the run that took it.
THEOREM SlotImplemented == RecordSpec => SlotSpec
<1>1. RecordInit => Slot!Init
  BY DEF RecordInit, Slot!Init
<1>2. RecordTypeOK /\ [RecordNext]_recordVars => [Slot!Next]_<< Place, Status >>
  BY SlotStep
<1>3. QED
  BY <1>1, <1>2, TypeAlways, PTL DEF RecordSpec, SlotSpec, Slot!Spec, Place, Status

\* A step of the slot keeps it exclusive.
LEMMA ExclusiveStep ==
  ASSUME Slot!Exclusive, [Slot!Next]_<< Place, Status >>
  PROVE  Slot!Exclusive'
<1> USE RunRecordAssumption DEF RunRecordAssumption
<1> DEFINE Kept(place, status) ==
      /\ \A r \in Run : status[r] = "holds" => place = "taken"
      /\ \A r \in Run : status[r] = "sealed" => place = r
      /\ \A q, r \in Run : status[q] = "holds" /\ status[r] = "holds" => q = r
<1>1. Kept(Place, Status)
  BY DEF Slot!Exclusive, Place, Status
<1>2. SUFFICES Kept(Place', Status')
  BY Zenon DEF Slot!Exclusive, Place, Status
<1>3. Status = [r \in Run |-> Status[r]]
  BY DEF Status
<1>4. ASSUME NEW r \in Run, Slot!Take(r) PROVE Kept(Place', Status')
  <2>1. Place = "free" /\ Place' = "taken" /\ Status[r] = "none"
        /\ Status' = [Status EXCEPT ![r] = "holds"]
    BY <1>4, Zenon DEF Slot!Take, Slot!Become, Place, Status
  <2>2. QED
    BY <1>1, <1>3, <2>1
<1>5. ASSUME NEW r \in Run, Slot!Refuse(r) PROVE Kept(Place', Status')
  <2>1. Place' = Place /\ Status' = [Status EXCEPT ![r] = "gone"]
    BY <1>5, Zenon DEF Slot!Refuse, Slot!Become, Place, Status
  <2>2. QED
    BY <1>1, <1>3, <2>1
<1>6. ASSUME NEW r \in Run, Slot!Seal(r) PROVE Kept(Place', Status')
  <2>1. Place = "taken" /\ Place' = r /\ Status[r] = "holds"
        /\ Status' = [Status EXCEPT ![r] = "sealed"]
    BY <1>6, Zenon DEF Slot!Seal, Slot!Become, Place, Status
  <2>2. QED
    BY <1>1, <1>3, <2>1
<1>7. ASSUME NEW r \in Run, Slot!GiveBack(r) PROVE Kept(Place', Status')
  <2>1. Place = "taken" /\ Place' = "free" /\ Status[r] = "holds"
        /\ Status' = [Status EXCEPT ![r] = "gone"]
    BY <1>7, Zenon DEF Slot!GiveBack, Slot!Become, Place, Status
  <2>2. QED
    BY <1>1, <1>3, <2>1
<1>8. CASE UNCHANGED << Place, Status >>
  BY <1>1, <1>8
<1>9. QED
  BY <1>4, <1>5, <1>6, <1>7, <1>8, Zenon DEF Slot!Next, Place, Status

\* One run at a time holds the directory, none while a record is in it, and
\* the record is that of the one run that sealed it.
THEOREM OneHolder == RecordSpec => []Slot!Exclusive
<1>1. RecordInit => Slot!Exclusive
  BY DEF RecordInit, Slot!Exclusive
<1>2. RecordTypeOK /\ Slot!Exclusive /\ [RecordNext]_recordVars => Slot!Exclusive'
  BY SlotStep, ExclusiveStep
<1>3. QED
  BY <1>1, <1>2, TypeAlways, PTL DEF RecordSpec

------------------------------------------------------------------------------
(* The checked session.  An action that is queued without a record spoils   *)
(* what is said of the actions, so most of the invariant is about sessions  *)
(* without one (Kept), and about snapshots that were taken of such.         *)

Keys == {a.key : a \in Attempts}
Note == [key : Keys, at : Nat, seq : Nat]
Queued == [key : Keys, seq : Nat]
Issued == [ordinal : Nat, key : Keys]
IngressRecord ==
  [key : Keys, at : Nat, retained : Nat, queued : BOOLEAN, seq : Nat, apply : Nat]

SessionState ==
  [tick : Nat, nextSeq : Nat \ {0}, pending : Seq(Queued), ingress : SUBSET IngressRecord,
   floor : Nat \ {0}, accepted : SUBSET Nat, resolved : SUBSET Nat, closed : BOOLEAN,
   evidence : Seq(Issued), ordinal : Nat, provider : Int]

SessionStory ==
  [told : SUBSET Note, applied : Seq(Note), orphan : BOOLEAN, spoils : Int]

SessionSnapshot ==
  [dyn : SessionState, told : SUBSET Note, applied : Seq(Note), orphan : BOOLEAN]

(* The records of a session: of each key one, no more than are kept, and each of them
   either of an action that is queued or of one that is over. *)
RecordsFit(s) ==
  /\ IsFiniteSet(s.ingress) /\ Cardinality(s.ingress) <= Retention
  /\ \A r, q \in s.ingress : r.key = q.key => r = q
  /\ \A r \in s.ingress :
       IF r.queued THEN r.at = s.tick /\ r.retained = s.tick /\ r.apply = s.tick
       ELSE r.apply # r.at /\ r.retained <= r.apply /\ r.apply <= s.tick

(* The queue: its numbers follow one another up to the next one, and the records of
   queued actions are those of the queue. *)
QueueFits(s) ==
  /\ Len(s.pending) <= QueueLimit
  /\ s.nextSeq = s.floor + Len(s.pending)
  /\ \A i \in DOMAIN s.pending :
       /\ s.pending[i].seq = s.floor + i - 1
       /\ \E r \in s.ingress : r.queued /\ r.key = s.pending[i].key /\ r.seq = s.pending[i].seq
  /\ \A r \in s.ingress : r.queued =>
       \E i \in DOMAIN s.pending : r.key = s.pending[i].key /\ r.seq = s.pending[i].seq
  /\ s.resolved = 1 .. (s.floor - 1)
  /\ s.accepted \subseteq s.resolved

(* What hosts were told: the actions that were applied, in order, and those queued. *)
ToldFits(s, told, applied) ==
  /\ \A i \in DOMAIN applied : applied[i].at < s.tick /\ applied[i].seq < s.floor
  /\ \A i, j \in DOMAIN applied : i < j =>
       /\ applied[i].seq < applied[j].seq
       /\ applied[i].key # applied[j].key \/ applied[i].at # applied[j].at
  /\ \A t \in told : t.at <= s.tick
  /\ \A t \in Note : t \in told /\ t.at < s.tick <=> \E i \in DOMAIN applied : t = applied[i]
  /\ \A t \in Note : t \in told /\ t.at = s.tick <=>
       /\ t.at = s.tick
       /\ \E i \in DOMAIN s.pending : t.key = s.pending[i].key /\ t.seq = s.pending[i].seq

Kept(s, told, applied) == RecordsFit(s) /\ QueueFits(s) /\ ToldFits(s, told, applied)

EvidenceFits(s) ==
  \A i, j \in DOMAIN s.evidence :
    s.evidence[i].ordinal <= s.ordinal
    /\ (i < j => s.evidence[i].ordinal < s.evidence[j].ordinal)

Open(s) == s.closed \/ s.provider = s.tick

(* A session, the snapshots a host keeps of it and its story, together. *)
Fits(s, kept, st) ==
  /\ s \in SessionState /\ Open(s) /\ EvidenceFits(s)
  /\ st \in SessionStory
  /\ kept \subseteq SessionSnapshot
  /\ \A k \in kept : Open(k.dyn) /\ ~k.dyn.closed
  /\ ~st.orphan => Kept(s, st.told, st.applied)
  /\ \A k \in kept : ~k.orphan => Kept(k.dyn, k.told, k.applied)

SessionInv == Fits(dyn, snapshotted, story)

(* What a session is for those who ask does not depend on its evidence, nor on where its
   provider is. *)
LEMMA KeptAlike ==
  ASSUME NEW s, NEW t, NEW told, NEW applied,
         t.tick = s.tick, t.nextSeq = s.nextSeq, t.pending = s.pending,
         t.ingress = s.ingress, t.floor = s.floor, t.accepted = s.accepted,
         t.resolved = s.resolved, Kept(s, told, applied)
  PROVE  Kept(t, told, applied)
  BY DEF Kept, RecordsFit, QueueFits, ToldFits

(* Only records of earlier ticks are forgotten. *)
LEMMA EvictedIs ==
  ASSUME NEW s \in SessionState
  PROVE  Evicted(s) \subseteq {r \in s.ingress : r.retained < s.tick}
<1> DEFINE old == {r \in s.ingress : r.retained < s.tick}
<1>1. \A n : Oldest(old, n) \subseteq old
  BY DEF Oldest
<1> HIDE DEF old
<1>2. Evicted(s) \subseteq old
  BY <1>1 DEF Evicted, old
<1> QED
  BY <1>2 DEF old

(* What retaining a record makes of the others, where there is room for it. *)
LEMMA RetainIs ==
  ASSUME NEW s \in SessionState, NEW record \in IngressRecord
  PROVE  \E left \in SUBSET s.ingress :
           /\ \A r \in s.ingress \ left : r.retained < s.tick
           /\ HasRoom(s) => Cardinality(left) < Retention
           /\ LET now == left \cup (IF HasRoom(s) THEN {record} ELSE {})
              IN  /\ now \in SUBSET IngressRecord
                  /\ Retain(s, record) = [s EXCEPT !.ingress = now]
<1> DEFINE left == s.ingress \ Evicted(s)
           now == left \cup (IF HasRoom(s) THEN {record} ELSE {})
<1>1. left \in SUBSET s.ingress /\ \A r \in s.ingress \ left : r.retained < s.tick
  BY EvictedIs
<1>2. now \in SUBSET IngressRecord
  BY <1>1 DEF SessionState
<1>3. Retain(s, record) = [s EXCEPT !.ingress = now]
  BY DEF Retain
<1>4. HasRoom(s) => Cardinality(left) < Retention
  BY DEF HasRoom
<1> QED
  BY <1>1, <1>2, <1>3, <1>4

(* Room for one more record. *)
LEMMA OneMoreRecord ==
  ASSUME NEW s \in SessionState, RecordsFit(s), NEW left \in SUBSET s.ingress,
         Cardinality(left) < Retention, NEW record
  PROVE  /\ IsFiniteSet(left \cup {record})
         /\ Cardinality(left \cup {record}) <= Retention
<1>1. IsFiniteSet(left)
  BY FS_Subset DEF RecordsFit
<1>2. Cardinality(left) \in Nat /\ Retention \in Nat
  BY <1>1, FS_CardinalityType, SessionAssumption DEF Retention
<1> QED
  BY <1>1, <1>2, FS_AddElement

(* A record of an action that is not queued joins the others. *)
LEMMA RefusalKept ==
  ASSUME NEW s \in SessionState, NEW t \in SessionState, NEW told, NEW applied,
         Kept(s, told, applied),
         NEW left \in SUBSET s.ingress, \A r \in s.ingress \ left : r.retained < s.tick,
         Cardinality(left) < Retention,
         NEW record \in IngressRecord, ~record.queued, record.apply # record.at,
         record.retained = s.tick, record.apply = s.tick,
         \A r \in s.ingress : r.key # record.key,
         t.ingress = left \cup {record},
         t.tick = s.tick, t.nextSeq = s.nextSeq, t.pending = s.pending,
         t.floor = s.floor, t.accepted = s.accepted, t.resolved = s.resolved
  PROVE  Kept(t, told, applied)
<1>1. RecordsFit(t)
  <2>1. IsFiniteSet(t.ingress) /\ Cardinality(t.ingress) <= Retention
    <3>1. RecordsFit(s)
      BY DEF Kept
    <3>2. /\ IsFiniteSet(left \cup {record})
          /\ Cardinality(left \cup {record}) <= Retention
      BY <3>1, OneMoreRecord
    <3> QED
      BY <3>2
  <2>2. \A r, q \in t.ingress : r.key = q.key => r = q
    BY DEF Kept, RecordsFit
  <2>3. \A r \in t.ingress :
          IF r.queued THEN r.at = t.tick /\ r.retained = t.tick /\ r.apply = t.tick
          ELSE r.apply # r.at /\ r.retained <= r.apply /\ r.apply <= t.tick
    BY DEF Kept, RecordsFit, SessionState
  <2> QED
    BY <2>1, <2>2, <2>3 DEF RecordsFit
<1>2. QueueFits(t)
  <2>1. \A r \in s.ingress : r.queued => r \in left
    BY DEF Kept, RecordsFit, SessionState, IngressRecord
  <2>2. \A i \in DOMAIN t.pending : \E r \in t.ingress :
          r.queued /\ r.key = t.pending[i].key /\ r.seq = t.pending[i].seq
    BY <2>1 DEF Kept, QueueFits
  <2>3. \A r \in t.ingress : r.queued =>
          \E i \in DOMAIN t.pending : r.key = t.pending[i].key /\ r.seq = t.pending[i].seq
    BY DEF Kept, QueueFits
  <2> QED
    BY <2>2, <2>3 DEF Kept, QueueFits
<1>3. ToldFits(t, told, applied)
  BY DEF Kept, ToldFits
<1> QED
  BY <1>1, <1>2, <1>3 DEF Kept

(* An action is queued, under the next number, and its host told. *)
LEMMA QueuedKept ==
  ASSUME NEW s \in SessionState, NEW t \in SessionState,
         NEW told \in SUBSET Note, NEW applied \in Seq(Note),
         Kept(s, told, applied), Len(s.pending) < QueueLimit,
         NEW left \in SUBSET s.ingress, \A r \in s.ingress \ left : r.retained < s.tick,
         Cardinality(left) < Retention, NEW k \in Keys,
         \A r \in s.ingress : r.key # k,
         t.ingress = left \cup {[key |-> k, at |-> s.tick, retained |-> s.tick,
                                queued |-> TRUE, seq |-> s.nextSeq, apply |-> s.tick]},
         t.pending = Append(s.pending, [key |-> k, seq |-> s.nextSeq]),
         t.nextSeq = s.nextSeq + 1,
         t.tick = s.tick, t.floor = s.floor, t.accepted = s.accepted,
         t.resolved = s.resolved
  PROVE  Kept(t, told \cup {[key |-> k, at |-> s.tick, seq |-> s.nextSeq]}, applied)
<1> DEFINE record == [key |-> k, at |-> s.tick, retained |-> s.tick,
                      queued |-> TRUE, seq |-> s.nextSeq, apply |-> s.tick]
           action == [key |-> k, seq |-> s.nextSeq]
           note == [key |-> k, at |-> s.tick, seq |-> s.nextSeq]
<1>0. /\ s.pending \in Seq(Queued) /\ s.tick \in Nat
      /\ s.nextSeq \in Nat \ {0} /\ s.floor \in Nat \ {0}
      /\ action \in Queued /\ record \in IngressRecord /\ note \in Note
  BY DEF SessionState, Queued, IngressRecord, Note
<1>1. RecordsFit(t)
  <2>1. IsFiniteSet(t.ingress) /\ Cardinality(t.ingress) <= Retention
    <3>1. RecordsFit(s)
      BY DEF Kept
    <3> QED
      BY <3>1, OneMoreRecord
  <2>2. \A r, q \in t.ingress : r.key = q.key => r = q
    <3>1. /\ t.ingress = left \cup {record} /\ record.key = k
          /\ \A r, q \in left : r.key = q.key => r = q
          /\ \A r \in left : r.key # k
      BY DEF Kept, RecordsFit
    <3> HIDE DEF record
    <3> QED
      BY <3>1
  <2>3. \A r \in t.ingress :
          IF r.queued THEN r.at = t.tick /\ r.retained = t.tick /\ r.apply = t.tick
          ELSE r.apply # r.at /\ r.retained <= r.apply /\ r.apply <= t.tick
    BY DEF Kept, RecordsFit
  <2> QED
    BY <2>1, <2>2, <2>3 DEF RecordsFit
<1>2. /\ Len(t.pending) = Len(s.pending) + 1
      /\ DOMAIN t.pending = 1 .. Len(s.pending) + 1
      /\ DOMAIN s.pending = 1 .. Len(s.pending)
      /\ Len(s.pending) \in Nat
      /\ \A i \in DOMAIN s.pending : t.pending[i] = s.pending[i]
      /\ t.pending[Len(s.pending) + 1] = action
  BY <1>0
<1>3. s.nextSeq = s.floor + Len(s.pending)
  BY DEF Kept, QueueFits
<1>4. QueueFits(t)
  <2>1. \A r \in s.ingress : r.queued => r \in left
    BY DEF Kept, RecordsFit, SessionState, IngressRecord
  <2>2. ASSUME NEW i \in DOMAIN t.pending
        PROVE  /\ t.pending[i].seq = t.floor + i - 1
               /\ \E r \in t.ingress :
                    r.queued /\ r.key = t.pending[i].key /\ r.seq = t.pending[i].seq
    <3>1. CASE i \in DOMAIN s.pending
      <4>1. t.pending[i] = s.pending[i]
        BY <1>2, <3>1
      <4>2. PICK r \in s.ingress :
              r.queued /\ r.key = s.pending[i].key /\ r.seq = s.pending[i].seq
        BY <3>1 DEF Kept, QueueFits
      <4>3. s.pending[i].seq = s.floor + i - 1
        BY <3>1 DEF Kept, QueueFits
      <4> QED
        BY <2>1, <4>1, <4>2, <4>3
    <3>2. CASE i = Len(s.pending) + 1
      <4>1. t.pending[i] = action
        BY <1>2, <3>2
      <4>2. record \in t.ingress /\ record.queued /\ record.key = k /\ record.seq = s.nextSeq
        OBVIOUS
      <4>3. s.nextSeq = t.floor + i - 1
        BY <1>0, <1>2, <1>3, <3>2
      <4>4. action.key = k /\ action.seq = s.nextSeq
        OBVIOUS
      <4> HIDE DEF action, record
      <4> QED
        BY <4>1, <4>2, <4>3, <4>4
    <3> QED
      BY <1>2, <3>1, <3>2
  <2>3. ASSUME NEW r \in t.ingress, r.queued
        PROVE  \E i \in DOMAIN t.pending :
                 r.key = t.pending[i].key /\ r.seq = t.pending[i].seq
    <3>1. CASE r \in left
      <4>1. PICK i \in DOMAIN s.pending :
              r.key = s.pending[i].key /\ r.seq = s.pending[i].seq
        BY <2>3, <3>1 DEF Kept, QueueFits
      <4> QED
        BY <1>2, <4>1
    <3>2. CASE r = record
      BY <1>2, <3>2
    <3> QED
      BY <3>1, <3>2
  <2>4. Len(t.pending) <= QueueLimit /\ t.nextSeq = t.floor + Len(t.pending)
    BY <1>0, <1>2, <1>3, SessionAssumption
  <2> QED
    BY <2>2, <2>3, <2>4 DEF Kept, QueueFits
<1>5. ToldFits(t, told \cup {note}, applied)
  <2>1. /\ \A i \in DOMAIN applied : applied[i].at < s.tick /\ applied[i].seq < s.floor
        /\ \A i, j \in DOMAIN applied : i < j =>
             /\ applied[i].seq < applied[j].seq
             /\ applied[i].key # applied[j].key \/ applied[i].at # applied[j].at
        /\ \A n \in told : n.at <= s.tick
        /\ \A n \in Note : n \in told /\ n.at < s.tick <=>
             \E i \in DOMAIN applied : n = applied[i]
        /\ \A n \in Note : n \in told /\ n.at = s.tick <=>
             /\ n.at = s.tick
             /\ \E i \in DOMAIN s.pending : n.key = s.pending[i].key /\ n.seq = s.pending[i].seq
    BY DEF Kept, ToldFits
  <2>2. \A n \in told \cup {note} : n.at <= s.tick
    BY <1>0, <2>1
  <2>3. \A n \in Note : n \in told \cup {note} /\ n.at < s.tick <=>
          \E i \in DOMAIN applied : n = applied[i]
    BY <1>0, <2>1
  <2>4. ASSUME NEW n \in Note
        PROVE  n \in told \cup {note} /\ n.at = s.tick <=>
                 /\ n.at = s.tick
                 /\ \E i \in DOMAIN t.pending :
                      n.key = t.pending[i].key /\ n.seq = t.pending[i].seq
    <3>1. n = note <=> n.at = s.tick /\ n.key = action.key /\ n.seq = action.seq
      BY DEF Note
    <3>2. (\E i \in DOMAIN t.pending : n.key = t.pending[i].key /\ n.seq = t.pending[i].seq)
            <=> \/ \E i \in DOMAIN s.pending :
                      n.key = s.pending[i].key /\ n.seq = s.pending[i].seq
                \/ n.key = action.key /\ n.seq = action.seq
      <4> DEFINE last == Len(s.pending) + 1
      <4>1. /\ DOMAIN t.pending = DOMAIN s.pending \cup {last}
            /\ t.pending[last] = action
            /\ \A i \in DOMAIN s.pending : t.pending[i] = s.pending[i]
        BY <1>2
      <4> HIDE DEF action, last
      <4> QED
        BY <4>1
    <3>3. n \in told /\ n.at = s.tick <=>
            /\ n.at = s.tick
            /\ \E i \in DOMAIN s.pending : n.key = s.pending[i].key /\ n.seq = s.pending[i].seq
      BY <2>1
    <3> HIDE DEF action, note
    <3> QED
      BY <3>1, <3>2, <3>3
  <2> HIDE DEF note
  <2> QED
    BY <2>1, <2>2, <2>3, <2>4 DEF ToldFits
<1> QED
  BY <1>1, <1>4, <1>5 DEF Kept

(* It is a record of the same key, of an action that is not queued. *)
LEMMA OverIs ==
  ASSUME NEW r \in IngressRecord, NEW tick \in Nat
  PROVE  /\ Over(r, tick) \in IngressRecord /\ Over(r, tick).key = r.key
         /\ Over(r, tick).at = r.at /\ Over(r, tick).retained = r.retained
         /\ ~Over(r, tick).queued
         /\ r.queued => Over(r, tick).apply = tick + 1
         /\ ~r.queued => Over(r, tick).apply = r.apply
<1>1. CASE r.queued
  <2>1. PICK q : q = [r EXCEPT !.queued = FALSE]
    OBVIOUS
  <2>2. /\ q \in IngressRecord /\ q.key = r.key /\ q.at = r.at
        /\ q.retained = r.retained /\ ~q.queued
    BY <2>1 DEF IngressRecord
  <2>3. PICK p : p = [q EXCEPT !.seq = 0]
    OBVIOUS
  <2>4. /\ p \in IngressRecord /\ p.key = r.key /\ p.at = r.at
        /\ p.retained = r.retained /\ ~p.queued
    BY <2>2, <2>3 DEF IngressRecord
  <2>5. PICK o : o = [p EXCEPT !.apply = tick + 1]
    OBVIOUS
  <2>6. /\ o \in IngressRecord /\ o.key = r.key /\ o.at = r.at
        /\ o.retained = r.retained /\ ~o.queued /\ o.apply = tick + 1
    BY <2>4, <2>5 DEF IngressRecord
  <2>7. Over(r, tick) = o
    BY <1>1, <2>1, <2>3, <2>5 DEF Over
  <2> QED
    BY <1>1, <2>6, <2>7
<1>2. CASE ~r.queued
  BY <1>2 DEF Over
<1> QED
  BY <1>1, <1>2

(* What a step that counts leaves of the records: each under its key, and none of them
   queued any more. *)
LEMMA RecordsStepped ==
  ASSUME NEW s \in SessionState, RecordsFit(s), NEW now,
         now = {Over(r, s.tick) : r \in s.ingress}
  PROVE  /\ now \in SUBSET IngressRecord
         /\ IsFiniteSet(now) /\ Cardinality(now) <= Retention
         /\ \A r, q \in now : r.key = q.key => r = q
         /\ \A r \in now : /\ ~r.queued /\ r.apply # r.at
                          /\ r.retained <= r.apply /\ r.apply <= s.tick + 1
<1>1. ASSUME NEW r \in s.ingress
      PROVE  /\ Over(r, s.tick) \in IngressRecord /\ Over(r, s.tick).key = r.key
             /\ ~Over(r, s.tick).queued /\ Over(r, s.tick).apply # Over(r, s.tick).at
             /\ Over(r, s.tick).retained <= Over(r, s.tick).apply
             /\ Over(r, s.tick).apply <= s.tick + 1
  <2>1. r \in IngressRecord /\ s.tick \in Nat
    BY DEF SessionState
  <2>2. r.at \in Nat /\ r.apply \in Nat /\ r.retained \in Nat /\ r.queued \in BOOLEAN
    BY <2>1 DEF IngressRecord
  <2>3. IF r.queued THEN r.at = s.tick /\ r.retained = s.tick
        ELSE r.apply # r.at /\ r.retained <= r.apply /\ r.apply <= s.tick
    BY DEF RecordsFit
  <2>4. /\ Over(r, s.tick) \in IngressRecord /\ Over(r, s.tick).key = r.key
        /\ Over(r, s.tick).at = r.at /\ Over(r, s.tick).retained = r.retained
        /\ ~Over(r, s.tick).queued
        /\ r.queued => Over(r, s.tick).apply = s.tick + 1
        /\ ~r.queued => Over(r, s.tick).apply = r.apply
    BY <2>1, OverIs
  <2> QED
    BY <2>1, <2>2, <2>3, <2>4
<1> DEFINE f == [r \in s.ingress |-> Over(r, s.tick)]
<1>2. f \in Surjection(s.ingress, now)
  BY DEF Surjection
<1>3. IsFiniteSet(now) /\ Cardinality(now) <= Retention
  <2>1. IsFiniteSet(s.ingress) /\ Cardinality(s.ingress) <= Retention /\ Retention \in Nat
    BY SessionAssumption DEF RecordsFit, Retention
  <2>2. IsFiniteSet(now) /\ Cardinality(now) <= Cardinality(s.ingress)
    BY <1>2, <2>1, FS_Surjection
  <2>3. Cardinality(now) \in Nat /\ Cardinality(s.ingress) \in Nat
    BY <2>1, <2>2, FS_CardinalityType
  <2> QED
    BY <2>1, <2>2, <2>3
<1>4. \A r, q \in now : r.key = q.key => r = q
  <2>1. \A r, q \in s.ingress : r.key = q.key => r = q
    BY DEF RecordsFit
  <2> QED
    BY <1>1, <2>1
<1>5. now \in SUBSET IngressRecord
  BY <1>1
<1>6. \A r \in now : /\ ~r.queued /\ r.apply # r.at
                     /\ r.retained <= r.apply /\ r.apply <= s.tick + 1
  BY <1>1
<1> QED
  BY <1>3, <1>4, <1>5, <1>6

(* The numbers of a queue that fits, and the actions as they are applied. *)
LEMMA QueueIs ==
  ASSUME NEW s \in SessionState, QueueFits(s)
  PROVE  /\ Len(s.pending) \in Nat
         /\ DOMAIN s.pending = 1 .. Len(s.pending)
         /\ ToSet(NumbersOf(s)) = s.floor .. (s.nextSeq - 1)
         /\ Applied(s) \in Seq(Note)
         /\ Len(Applied(s)) = Len(s.pending)
         /\ \A i \in DOMAIN s.pending :
              /\ Applied(s)[i] = [key |-> s.pending[i].key, at |-> s.tick,
                                  seq |-> s.floor + i - 1]
              /\ s.pending[i].seq = s.floor + i - 1
              /\ s.pending[i].key \in Keys
<1>1. /\ s.pending \in Seq(Queued) /\ s.tick \in Nat
      /\ s.nextSeq \in Nat \ {0} /\ s.floor \in Nat \ {0}
  BY DEF SessionState
<1>2. Len(s.pending) \in Nat /\ DOMAIN s.pending = 1 .. Len(s.pending)
  BY <1>1
<1>3. \A i \in DOMAIN s.pending : s.pending[i] \in Queued
  BY <1>1, <1>2
<1>4. \A i \in DOMAIN s.pending : s.pending[i].seq = s.floor + i - 1
  BY DEF QueueFits
<1>5. s.nextSeq = s.floor + Len(s.pending)
  BY DEF QueueFits
<1>6. ToSet(NumbersOf(s)) = s.floor .. (s.nextSeq - 1)
  <2>1. ToSet(NumbersOf(s)) = {s.floor + i - 1 : i \in 1 .. Len(s.pending)}
    BY <1>2, <1>4 DEF ToSet, NumbersOf
  <2>2. ASSUME NEW n \in s.floor .. (s.nextSeq - 1)
        PROVE  n \in {s.floor + i - 1 : i \in 1 .. Len(s.pending)}
    <3>1. n - s.floor + 1 \in 1 .. Len(s.pending) /\ n = s.floor + (n - s.floor + 1) - 1
      BY <1>1, <1>2, <1>5
    <3> QED
      BY <3>1
  <2>3. ASSUME NEW i \in 1 .. Len(s.pending)
        PROVE  s.floor + i - 1 \in s.floor .. (s.nextSeq - 1)
    BY <1>1, <1>2, <1>5
  <2> QED
    BY <2>1, <2>2, <2>3
<1>7. \A i \in DOMAIN s.pending :
        Applied(s)[i] = [key |-> s.pending[i].key, at |-> s.tick, seq |-> s.floor + i - 1]
  BY <1>4 DEF Applied
<1>8. Applied(s) \in Seq(Note) /\ Len(Applied(s)) = Len(s.pending)
  <2>1. \A i \in 1 .. Len(s.pending) :
          [key |-> s.pending[i].key, at |-> s.tick, seq |-> s.pending[i].seq] \in Note
    BY <1>1, <1>2, <1>3 DEF Note, Queued
  <2>2. Applied(s) = [i \in 1 .. Len(s.pending) |->
           [key |-> s.pending[i].key, at |-> s.tick, seq |-> s.pending[i].seq]]
    BY <1>2 DEF Applied
  <2> QED
    BY <1>2, <2>1, <2>2
<1>9. \A i \in DOMAIN s.pending : s.pending[i].key \in Keys
  BY <1>3 DEF Queued
<1> QED
  BY <1>2, <1>4, <1>6, <1>7, <1>8, <1>9

(* The types of the queue's numbers, and of what a step applies. *)
LEMMA QueueTyped ==
  ASSUME NEW s \in SessionState
  PROVE  ToSet(NumbersOf(s)) \in SUBSET Nat /\ Applied(s) \in Seq(Note)
<1>1. s.pending \in Seq(Queued) /\ s.tick \in Nat
  BY DEF SessionState
<1>2. /\ Len(s.pending) \in Nat /\ DOMAIN s.pending = 1 .. Len(s.pending)
      /\ \A i \in DOMAIN s.pending : s.pending[i] \in Queued
  BY <1>1
<1>3. \A i \in DOMAIN s.pending : s.pending[i].seq \in Nat /\ s.pending[i].key \in Keys
  BY <1>2 DEF Queued
<1>4. ToSet(NumbersOf(s)) = {s.pending[i].seq : i \in DOMAIN s.pending}
  BY DEF ToSet, NumbersOf
<1>5. \A i \in 1 .. Len(s.pending) :
        [key |-> s.pending[i].key, at |-> s.tick, seq |-> s.pending[i].seq] \in Note
  BY <1>1, <1>2, <1>3 DEF Note
<1>6. Applied(s) = [i \in 1 .. Len(s.pending) |->
         [key |-> s.pending[i].key, at |-> s.tick, seq |-> s.pending[i].seq]]
  BY <1>2 DEF Applied
<1>7. Applied(s) \in Seq(Note)
  BY <1>2, <1>5, <1>6
<1> QED
  BY <1>3, <1>4, <1>7

(* What a step that counts makes of a session. *)
LEMMA SteppedIs ==
  ASSUME NEW s \in SessionState, NEW reply,
         reply.accepted \subseteq ToSet(NumbersOf(s))
  PROVE  \E t \in SessionState :
           /\ t = Stepped(s, reply)
           /\ t.accepted = s.accepted \cup reply.accepted
           /\ t.resolved = s.resolved \cup ToSet(NumbersOf(s))
           /\ t.pending = <<>> /\ t.tick = s.tick + 1
           /\ t.ingress = {Over(r, s.tick) : r \in s.ingress}
           /\ t.floor = s.nextSeq /\ t.evidence = <<>> /\ t.provider = s.tick + 1
           /\ t.nextSeq = s.nextSeq /\ t.closed = s.closed /\ t.ordinal = s.ordinal
<1>0. PICK now : now = {Over(r, s.tick) : r \in s.ingress}
  OBVIOUS
<1>1. now \in SUBSET IngressRecord
  <2>1. s.tick \in Nat /\ \A r \in s.ingress : r \in IngressRecord
    BY DEF SessionState
  <2>2. \A r \in s.ingress : Over(r, s.tick) \in IngressRecord
    BY <2>1, OverIs
  <2> QED
    BY <1>0, <2>2
<1>2. /\ s.tick \in Nat /\ s.nextSeq \in Nat \ {0} /\ s.floor \in Nat \ {0}
      /\ s.accepted \in SUBSET Nat /\ s.resolved \in SUBSET Nat
  BY DEF SessionState
<1>3. ToSet(NumbersOf(s)) \in SUBSET Nat
  BY QueueTyped
<1>4. <<>> \in Seq(Queued) /\ <<>> \in Seq(Issued)
  OBVIOUS
<1>2a. PICK next \in Nat : next = s.tick + 1
  BY <1>2
<1>5a. PICK a : a = [s EXCEPT !.accepted = s.accepted \cup reply.accepted]
  OBVIOUS
<1>5. /\ a \in SessionState
      /\ a.accepted = s.accepted \cup reply.accepted
      /\ a.resolved = s.resolved /\ a.tick = s.tick /\ a.nextSeq = s.nextSeq
      /\ a.closed = s.closed /\ a.ordinal = s.ordinal
      /\ a.ingress = s.ingress
  BY <1>2, <1>3, <1>5a DEF SessionState
<1>6a. PICK b : b = [a EXCEPT !.resolved = s.resolved \cup ToSet(NumbersOf(s))]
  OBVIOUS
<1>6. /\ b \in SessionState
      /\ b.resolved = s.resolved \cup ToSet(NumbersOf(s))
      /\ b.accepted = s.accepted \cup reply.accepted
      /\ b.tick = s.tick /\ b.nextSeq = s.nextSeq
      /\ b.closed = s.closed /\ b.ordinal = s.ordinal
      /\ b.ingress = s.ingress
  BY <1>2, <1>3, <1>5, <1>6a DEF SessionState
<1>7a. PICK c : c = [b EXCEPT !.pending = <<>>]
  OBVIOUS
<1>7. /\ c \in SessionState
      /\ c.pending = <<>>
      /\ c.resolved = s.resolved \cup ToSet(NumbersOf(s))
      /\ c.accepted = s.accepted \cup reply.accepted
      /\ c.tick = s.tick /\ c.nextSeq = s.nextSeq
      /\ c.closed = s.closed /\ c.ordinal = s.ordinal
      /\ c.ingress = s.ingress
  BY <1>4, <1>6, <1>7a DEF SessionState
<1>8a. PICK d : d = [c EXCEPT !.tick = next]
  OBVIOUS
<1>8. /\ d \in SessionState
      /\ d.tick = next
      /\ d.pending = <<>>
      /\ d.resolved = s.resolved \cup ToSet(NumbersOf(s))
      /\ d.accepted = s.accepted \cup reply.accepted
      /\ d.nextSeq = s.nextSeq
      /\ d.closed = s.closed /\ d.ordinal = s.ordinal
      /\ d.ingress = s.ingress
  BY <1>2, <1>2a, <1>7, <1>8a DEF SessionState
<1>9a. PICK e : e = [d EXCEPT !.ingress = now]
  OBVIOUS
<1>9. /\ e \in SessionState
      /\ e.ingress = now
      /\ e.tick = next
      /\ e.pending = <<>>
      /\ e.resolved = s.resolved \cup ToSet(NumbersOf(s))
      /\ e.accepted = s.accepted \cup reply.accepted
      /\ e.nextSeq = s.nextSeq
      /\ e.closed = s.closed /\ e.ordinal = s.ordinal
  BY <1>1, <1>8, <1>9a DEF SessionState
<1>10a. PICK f : f = [e EXCEPT !.floor = s.nextSeq]
  OBVIOUS
<1>10. /\ f \in SessionState
      /\ f.floor = s.nextSeq
      /\ f.ingress = now
      /\ f.tick = next
      /\ f.pending = <<>>
      /\ f.resolved = s.resolved \cup ToSet(NumbersOf(s))
      /\ f.accepted = s.accepted \cup reply.accepted
      /\ f.nextSeq = s.nextSeq
      /\ f.closed = s.closed /\ f.ordinal = s.ordinal
  BY <1>2, <1>9, <1>10a DEF SessionState
<1>11a. PICK g : g = [f EXCEPT !.evidence = <<>>]
  OBVIOUS
<1>11. /\ g \in SessionState
      /\ g.evidence = <<>>
      /\ g.floor = s.nextSeq
      /\ g.ingress = now
      /\ g.tick = next
      /\ g.pending = <<>>
      /\ g.resolved = s.resolved \cup ToSet(NumbersOf(s))
      /\ g.accepted = s.accepted \cup reply.accepted
      /\ g.nextSeq = s.nextSeq
      /\ g.closed = s.closed /\ g.ordinal = s.ordinal
  BY <1>4, <1>10, <1>11a DEF SessionState
<1>12a. PICK t : t = [g EXCEPT !.provider = next]
  OBVIOUS
<1>12. /\ t \in SessionState
      /\ t.provider = next
      /\ t.evidence = <<>>
      /\ t.floor = s.nextSeq
      /\ t.ingress = now
      /\ t.tick = next
      /\ t.pending = <<>>
      /\ t.resolved = s.resolved \cup ToSet(NumbersOf(s))
      /\ t.accepted = s.accepted \cup reply.accepted
      /\ t.nextSeq = s.nextSeq
      /\ t.closed = s.closed /\ t.ordinal = s.ordinal
  <2>1. t \in SessionState
    <3>1. next \in Int
      OBVIOUS
    <3> QED
      BY <1>11, <1>12a, <3>1 DEF SessionState
  <2>2. /\ t.provider = next /\ t.evidence = g.evidence /\ t.floor = g.floor
        /\ t.ingress = g.ingress /\ t.tick = g.tick /\ t.pending = g.pending
        /\ t.resolved = g.resolved /\ t.accepted = g.accepted /\ t.nextSeq = g.nextSeq
        /\ t.closed = g.closed /\ t.ordinal = g.ordinal
    BY <1>11, <1>12a DEF SessionState
  <2> QED
    BY <1>11, <2>1, <2>2
<1>13. t = Stepped(s, reply)
  BY <1>5a, <1>6a, <1>7a, <1>8a, <1>9a, <1>10a, <1>11a, <1>12a,
     <1>0, <1>2a, <1>5, <1>6, <1>7, <1>8, <1>9, <1>10, <1>11, <1>12 DEF Stepped
<1> QED
  BY <1>0, <1>2a, <1>12, <1>13

(* A step that counts keeps what was told: the actions queued are the last applied. *)
LEMMA StepKept ==
  ASSUME NEW s \in SessionState, NEW t \in SessionState,
         NEW told \in SUBSET Note, NEW applied \in Seq(Note), Kept(s, told, applied),
         t.accepted \subseteq s.accepted \cup ToSet(NumbersOf(s)),
         t.resolved = s.resolved \cup ToSet(NumbersOf(s)),
         t.pending = <<>>, t.tick = s.tick + 1,
         t.ingress = {Over(r, s.tick) : r \in s.ingress},
         t.floor = s.nextSeq, t.nextSeq = s.nextSeq
  PROVE  Kept(t, told, applied \o Applied(s))
<1>0. /\ s.tick \in Nat /\ s.nextSeq \in Nat \ {0} /\ s.floor \in Nat \ {0}
      /\ RecordsFit(s) /\ QueueFits(s) /\ ToldFits(s, told, applied)
  BY DEF SessionState, Kept
<1>1. /\ t.ingress \in SUBSET IngressRecord
      /\ IsFiniteSet(t.ingress) /\ Cardinality(t.ingress) <= Retention
      /\ \A r, q \in t.ingress : r.key = q.key => r = q
      /\ \A r \in t.ingress : /\ ~r.queued /\ r.apply # r.at
                             /\ r.retained <= r.apply /\ r.apply <= s.tick + 1
  BY <1>0, RecordsStepped
<1>2. RecordsFit(t)
  BY <1>1 DEF RecordsFit
<1>3. /\ Len(s.pending) \in Nat /\ DOMAIN s.pending = 1 .. Len(s.pending)
      /\ ToSet(NumbersOf(s)) = s.floor .. (s.nextSeq - 1)
      /\ Applied(s) \in Seq(Note) /\ Len(Applied(s)) = Len(s.pending)
      /\ \A i \in DOMAIN s.pending :
           /\ Applied(s)[i] = [key |-> s.pending[i].key, at |-> s.tick,
                               seq |-> s.floor + i - 1]
           /\ s.pending[i].seq = s.floor + i - 1
           /\ s.pending[i].key \in Keys
  BY <1>0, QueueIs
<1>4. s.nextSeq = s.floor + Len(s.pending)
  BY <1>0 DEF QueueFits
<1>5. QueueFits(t)
  <2>1. Len(t.pending) = 0 /\ DOMAIN t.pending = {}
    OBVIOUS
  <2>2. s.resolved = 1 .. (s.floor - 1) /\ s.accepted \subseteq s.resolved
    BY <1>0 DEF QueueFits
  <2>3. t.resolved = 1 .. (t.floor - 1)
    BY <1>0, <1>3, <1>4, <2>2
  <2>4. t.accepted \subseteq t.resolved
    BY <2>2
  <2>5. Len(t.pending) <= QueueLimit /\ t.nextSeq = t.floor + Len(t.pending)
    BY <1>0, <2>1, SessionAssumption
  <2> QED
    BY <1>1, <2>1, <2>3, <2>4, <2>5 DEF QueueFits
<1> DEFINE m == Len(applied)
           n == Len(s.pending)
           now == applied \o Applied(s)
<1>6. /\ m \in Nat /\ n \in Nat
      /\ now \in Seq(Note) /\ DOMAIN now = 1 .. (m + n) /\ DOMAIN applied = 1 .. m
      /\ \A i \in 1 .. m : now[i] = applied[i]
      /\ \A i \in 1 .. n : now[m + i] = Applied(s)[i]
  BY <1>3
<1>7. \A i \in 1 .. n : /\ now[m + i].at = s.tick /\ now[m + i].seq = s.floor + i - 1
                        /\ now[m + i].key = s.pending[i].key
  <2> SUFFICES ASSUME NEW i \in 1 .. n
               PROVE  /\ now[m + i].at = s.tick /\ now[m + i].seq = s.floor + i - 1
                      /\ now[m + i].key = s.pending[i].key
    OBVIOUS
  <2>1. now[m + i] = Applied(s)[i]
    BY <1>6
  <2>2. Applied(s)[i] = [key |-> s.pending[i].key, at |-> s.tick, seq |-> s.floor + i - 1]
    BY <1>3
  <2> QED
    BY <2>1, <2>2
<1>8. \A i \in 1 .. m : /\ now[i].at < s.tick /\ now[i].seq < s.floor
                        /\ now[i].at \in Nat /\ now[i].seq \in Nat
  <2>1. \A i \in 1 .. m : applied[i] \in Note
    BY <1>6
  <2>2. \A i \in 1 .. m : applied[i].at < s.tick /\ applied[i].seq < s.floor
    BY <1>0, <1>6 DEF ToldFits
  <2>3. \A i \in 1 .. m : applied[i].at \in Nat /\ applied[i].seq \in Nat
    BY <2>1 DEF Note
  <2> QED
    BY <1>6, <2>2, <2>3
<1>9. \A i \in DOMAIN now : (i \in 1 .. m) \/ \E j \in 1 .. n : i = m + j
  <2>1. ASSUME NEW i \in 1 .. (m + n), i \notin 1 .. m
        PROVE  \E j \in 1 .. n : i = m + j
    <3> HIDE DEF now, m, n
    <3>1. i - m \in 1 .. n /\ i = m + (i - m)
      BY <1>6, <2>1
    <3> QED
      BY <3>1
  <2>2. DOMAIN now = 1 .. (m + n)
    BY <1>6
  <2> HIDE DEF now, m, n
  <2> QED
    BY <2>1, <2>2
<1> HIDE DEF now, m, n
<1>10. ToldFits(t, told, now)
  <2>1. \A i \in DOMAIN now : now[i].at < t.tick /\ now[i].seq < t.floor
    <3>1. ASSUME NEW i \in 1 .. m PROVE now[i].at < t.tick /\ now[i].seq < t.floor
      BY <1>0, <1>3, <1>4, <1>8
    <3>2. ASSUME NEW j \in 1 .. n PROVE now[m + j].at < t.tick /\ now[m + j].seq < t.floor
      BY <1>0, <1>3, <1>4, <1>7 DEF n
    <3> QED
      BY <1>9, <3>1, <3>2
  <2>2. ASSUME NEW i \in DOMAIN now, NEW j \in DOMAIN now, i < j
        PROVE  /\ now[i].seq < now[j].seq
               /\ now[i].key # now[j].key \/ now[i].at # now[j].at
    <3>1. CASE i \in 1 .. m /\ j \in 1 .. m
      <4>1. /\ applied[i].seq < applied[j].seq
            /\ applied[i].key # applied[j].key \/ applied[i].at # applied[j].at
        BY <1>0, <1>6, <2>2, <3>1 DEF ToldFits
      <4> QED
        BY <1>6, <3>1, <4>1
    <3>2. ASSUME i \in 1 .. m, NEW k \in 1 .. n, j = m + k
          PROVE  now[i].seq < now[j].seq /\ now[i].at # now[j].at
      <4>1. now[i].at < s.tick /\ now[i].seq < s.floor /\ now[i].at \in Nat /\ now[i].seq \in Nat
        BY <1>8, <3>2
      <4>2. now[j].at = s.tick /\ now[j].seq = s.floor + k - 1
        BY <1>7, <3>2
      <4> QED
        BY <1>0, <1>6, <4>1, <4>2
    <3>3. ASSUME NEW h \in 1 .. n, NEW k \in 1 .. n, i = m + h, j = m + k
          PROVE  now[i].seq < now[j].seq /\ now[i].key # now[j].key
      <4>1. h < k
        BY <1>6, <2>2, <3>3
      <4>2. now[i].seq < now[j].seq
        BY <1>0, <1>7, <3>3, <4>1
      <4>3. s.pending[h].key # s.pending[k].key
        <5>1. h \in DOMAIN s.pending /\ k \in DOMAIN s.pending
          BY <1>3 DEF n
        <5>2. PICK r \in s.ingress : r.queued /\ r.key = s.pending[h].key /\ r.seq = s.pending[h].seq
          BY <1>0, <5>1 DEF QueueFits
        <5>3. PICK q \in s.ingress : q.queued /\ q.key = s.pending[k].key /\ q.seq = s.pending[k].seq
          BY <1>0, <5>1 DEF QueueFits
        <5>4. s.pending[h].seq = s.floor + h - 1 /\ s.pending[k].seq = s.floor + k - 1
          BY <1>3, <5>1
        <5>5. r # q
          BY <1>0, <4>1, <5>2, <5>3, <5>4
        <5> QED
          BY <1>0, <5>2, <5>3, <5>5 DEF RecordsFit
      <4> QED
        BY <1>7, <3>3, <4>2, <4>3
    <3>4. ASSUME NEW h \in 1 .. n, i = m + h, j \in 1 .. m PROVE FALSE
      BY <1>6, <2>2, <3>4
    <3> QED
      BY <1>9, <3>1, <3>2, <3>3, <3>4
  <2>3. \A x \in told : x.at <= t.tick
    <3>1. \A x \in told : x.at <= s.tick /\ x.at \in Nat
      BY <1>0 DEF ToldFits, Note
    <3> QED
      BY <1>0, <3>1
  <2>4. ASSUME NEW x \in Note
        PROVE  x \in told /\ x.at < t.tick <=> \E i \in DOMAIN now : x = now[i]
    <3>1. x.at \in Nat /\ (x \in told => x.at <= s.tick)
      BY <1>0 DEF ToldFits, Note
    <3>2. (x \in told /\ x.at < t.tick) <=>
             (x \in told /\ x.at < s.tick) \/ (x \in told /\ x.at = s.tick)
      BY <1>0, <3>1
    <3>3. x \in told /\ x.at < s.tick <=> \E i \in 1 .. m : x = now[i]
      <4>1. x \in told /\ x.at < s.tick <=> \E i \in DOMAIN applied : x = applied[i]
        BY <1>0 DEF ToldFits
      <4>2. DOMAIN applied = 1 .. m /\ \A i \in 1 .. m : now[i] = applied[i]
        BY <1>6
      <4> QED
        BY <4>1, <4>2
    <3>4. x \in told /\ x.at = s.tick <=> \E i \in 1 .. n : x = now[m + i]
      <4>1. x \in told /\ x.at = s.tick <=>
              /\ x.at = s.tick
              /\ \E i \in DOMAIN s.pending : x.key = s.pending[i].key /\ x.seq = s.pending[i].seq
        BY <1>0 DEF ToldFits
      <4>2. ASSUME NEW i \in 1 .. n
            PROVE  x = now[m + i] <=> /\ x.at = s.tick
                                      /\ x.key = s.pending[i].key /\ x.seq = s.pending[i].seq
        <5>1. /\ i \in DOMAIN s.pending
              /\ now[m + i] = [key |-> s.pending[i].key, at |-> s.tick, seq |-> s.pending[i].seq]
          BY <1>3, <1>6 DEF n
        <5> DEFINE e == now[m + i]
              ki == s.pending[i].key
              si == s.pending[i].seq
        <5>3. e = [key |-> ki, at |-> s.tick, seq |-> si]
          BY <5>1
        <5> HIDE DEF e, ki, si
        <5>4. x = e <=> x.at = s.tick /\ x.key = ki /\ x.seq = si
          BY <5>3 DEF Note
        <5> QED
          BY <5>4 DEF e, ki, si
      <4> QED
        BY <1>3, <4>1, <4>2 DEF n
    <3>5. (\E i \in DOMAIN now : x = now[i]) <=>
             (\E i \in 1 .. m : x = now[i]) \/ (\E i \in 1 .. n : x = now[m + i])
      <4>1. 1 .. m \subseteq DOMAIN now /\ \A i \in 1 .. n : m + i \in DOMAIN now
        BY <1>6
      <4> QED
        BY <1>9, <4>1
    <3> QED
      BY <3>2, <3>3, <3>4, <3>5
  <2>5. ASSUME NEW x \in Note
        PROVE  x \in told /\ x.at = t.tick <=>
                 /\ x.at = t.tick
                 /\ \E i \in DOMAIN t.pending : x.key = t.pending[i].key /\ x.seq = t.pending[i].seq
    <3>1. DOMAIN t.pending = {}
      OBVIOUS
    <3>2. x \in told => x.at <= s.tick
      BY <1>0 DEF ToldFits
    <3>3. x.at \in Nat
      BY DEF Note
    <3> QED
      BY <1>0, <3>1, <3>2, <3>3
  <2> QED
    BY <2>1, <2>2, <2>3, <2>4, <2>5 DEF ToldFits
<1> QED
  BY <1>2, <1>5, <1>10 DEF Kept, now

(* A set of numbers with zero and with the next of each of them has them all. *)
LEMMA EveryNumber ==
  ASSUME NEW T, 0 \in T, \A n \in Nat : n \in T => n + 1 \in T
  PROVE  \A n \in Nat : n \in T
<1> SUFFICES ASSUME Nat \ T # {} PROVE FALSE
  OBVIOUS
<1> DEFINE R == {p \in Nat \X Nat : p[1] < p[2]}
           rest == Nat \ T
<1>1. IsWellFoundedOn(R, Nat)
  BY NatLessThanWellFounded DEF OpToRel
<1>2. \E x \in rest : \A y \in rest : ~ (<<y, x>> \in R)
  <2>1. rest \subseteq Nat /\ rest # {}
    OBVIOUS
  <2> HIDE DEF R, rest
  <2> QED
    BY <1>1, <2>1, WFMin
<1>3. \A x, y \in Nat : y < x => <<y, x>> \in R
  OBVIOUS
<1> HIDE DEF R
<1>4. PICK x \in Nat : x \notin T /\ \A y \in Nat : y \notin T => ~ (y < x)
  BY <1>2, <1>3
<1>5. x - 1 \in Nat /\ x - 1 < x
  BY <1>4
<1> QED
  BY <1>4, <1>5

(* What a restored session keeps of the evidence: entries of before, in their order, none
   of them above the restored ordinal. *)
LEMMA IssuedUpToIs ==
  ASSUME NEW entries \in Seq(Issued), NEW ordinal \in Nat,
         \A i, j \in DOMAIN entries : i < j => entries[i].ordinal < entries[j].ordinal
  PROVE  /\ IssuedUpTo(entries, ordinal) \in Seq(Issued)
         /\ \A i, j \in DOMAIN IssuedUpTo(entries, ordinal) :
              /\ IssuedUpTo(entries, ordinal)[i].ordinal <= ordinal
              /\ i < j => IssuedUpTo(entries, ordinal)[i].ordinal < IssuedUpTo(entries, ordinal)[j].ordinal
<1> DEFINE m == Len(entries)
           Next(before, i) == IF entries[i].ordinal <= ordinal
                              THEN Append(before, entries[i]) ELSE before
           Solves(g, n) == g = [i \in 0 .. n |-> IF i = 0 THEN <<>> ELSE Next(g[i - 1], i)]
           Solved == {n \in Nat : n <= m => \E g : Solves(g, n)}
<1>1. m \in Nat /\ DOMAIN entries = 1 .. m /\ \A i \in 1 .. m : entries[i] \in Issued
  OBVIOUS
<1> HIDE DEF m, Next
<1>2. \A n \in Nat : n \in Solved
  <2>1. 0 \in Solved
    <3> DEFINE g == [i \in 0 .. 0 |-> <<>>]
    <3>1. Solves(g, 0)
      OBVIOUS
    <3> QED
      BY <3>1
  <2>2. ASSUME NEW n \in Nat, n \in Solved PROVE n + 1 \in Solved
    <3>1. SUFFICES ASSUME n + 1 <= m PROVE \E g : Solves(g, n + 1)
      BY <1>1
    <3>2. PICK g : Solves(g, n)
      BY <1>1, <2>2, <3>1
    <3> DEFINE h == [i \in 0 .. n + 1 |-> IF i = n + 1 THEN Next(g[n], n + 1) ELSE g[i]]
    <3>3. \A i \in 0 .. n : g[i] = IF i = 0 THEN <<>> ELSE Next(g[i - 1], i)
      BY <3>2
    <3>4. \A i \in 0 .. n + 1 : h[i] = IF i = 0 THEN <<>> ELSE Next(h[i - 1], i)
      <4> SUFFICES ASSUME NEW i \in 0 .. n + 1
                   PROVE  h[i] = IF i = 0 THEN <<>> ELSE Next(h[i - 1], i)
        OBVIOUS
      <4>1. CASE i = n + 1
        <5>1. i # 0 /\ i - 1 = n /\ h[n] = g[n] /\ h[i] = Next(g[n], n + 1)
          BY <4>1
        <5> HIDE DEF h
        <5> QED
          BY <4>1, <5>1
      <4>2. CASE i = 0
        BY <3>3, <4>2
      <4>3. CASE i \in 1 .. n
        <5>1. i # 0 /\ i \in 0 .. n /\ h[i - 1] = g[i - 1] /\ h[i] = g[i]
          BY <4>3
        <5> HIDE DEF h
        <5> QED
          BY <3>3, <5>1
      <4> QED
        BY <4>1, <4>2, <4>3
    <3>5. Solves(h, n + 1)
      <4>1. h = [i \in 0 .. n + 1 |-> h[i]]
        OBVIOUS
      <4> HIDE DEF h
      <4> QED
        BY <3>4, <4>1
    <3> QED
      BY <3>5
  <2> HIDE DEF Solved
  <2> QED
    BY <2>1, <2>2, EveryNumber
<1>3. \E g : Solves(g, m)
  BY <1>1, <1>2
<1> DEFINE f == CHOOSE g : Solves(g, m)
<1>4. Solves(f, m)
  BY <1>3
<1>5. IssuedUpTo(entries, ordinal) = f[m]
  BY DEF IssuedUpTo, Next, m
<1> HIDE DEF f
<1>6. f[0] = <<>> /\ \A i \in 1 .. m : f[i] = Next(f[i - 1], i)
  BY <1>1, <1>4
<1> HIDE DEF Solves, Solved
<1> DEFINE Good(n) ==
             /\ f[n] \in Seq(Issued)
             /\ \A i \in 1 .. Len(f[n]) :
                  f[n][i].ordinal <= ordinal /\ \E j \in 1 .. n : f[n][i] = entries[j]
             /\ \A i, j \in 1 .. Len(f[n]) : i < j => f[n][i].ordinal < f[n][j].ordinal
           T == {n \in Nat : n <= m => Good(n)}
<1>7. \A n \in Nat : n \in T
  <2>1. 0 \in T
    <3>1. f[0] = <<>> /\ Len(f[0]) = 0 /\ 1 .. Len(f[0]) = {} /\ f[0] \in Seq(Issued)
      BY <1>6
    <3>2. Good(0)
      BY <3>1
    <3> HIDE DEF Good
    <3> QED
      BY <3>2
  <2>2. ASSUME NEW n \in Nat, n \in T PROVE n + 1 \in T
    <3>1. SUFFICES ASSUME n + 1 <= m PROVE Good(n + 1)
      BY <1>1
    <3>2. Good(n)
      BY <1>1, <2>2, <3>1
    <3>3. f[n + 1] = Next(f[n], n + 1) /\ n + 1 \in 1 .. m /\ entries[n + 1] \in Issued
      BY <1>1, <1>6, <3>1
    <3>4. CASE entries[n + 1].ordinal <= ordinal
      <4> DEFINE a == f[n]
                 e == entries[n + 1]
                 b == Append(a, e)
      <4>1. f[n + 1] = b
        BY <3>3, <3>4 DEF Next
      <4>2. /\ a \in Seq(Issued) /\ e \in Issued /\ e.ordinal <= ordinal /\ e = entries[n + 1]
            /\ \A i \in 1 .. Len(a) : a[i].ordinal <= ordinal /\ \E j \in 1 .. n : a[i] = entries[j]
            /\ \A i, j \in 1 .. Len(a) : i < j => a[i].ordinal < a[j].ordinal
        BY <3>2, <3>3, <3>4
      <4>3. \A j \in 1 .. n : entries[j].ordinal < e.ordinal
        BY <1>1, <3>1, <3>3
      <4> HIDE DEF a, e
      <4>4. /\ b \in Seq(Issued) /\ Len(a) \in Nat /\ Len(b) = Len(a) + 1
            /\ \A i \in 1 .. Len(a) : b[i] = a[i]
            /\ b[Len(a) + 1] = e
            /\ \A i \in 1 .. Len(b) : i \in 1 .. Len(a) \/ i = Len(a) + 1
        BY <4>2
      <4> HIDE DEF b
      <4>5. \A i \in 1 .. Len(b) :
              b[i].ordinal <= ordinal /\ \E j \in 1 .. n + 1 : b[i] = entries[j]
        <5> SUFFICES ASSUME NEW i \in 1 .. Len(b)
                     PROVE  /\ b[i].ordinal <= ordinal
                            /\ \E j \in 1 .. n + 1 : b[i] = entries[j]
          OBVIOUS
        <5>1. CASE i \in 1 .. Len(a)
          <6>1. a[i].ordinal <= ordinal /\ b[i] = a[i]
            BY <4>2, <4>4, <5>1
          <6>2. PICK j \in 1 .. n : a[i] = entries[j]
            BY <4>2, <5>1
          <6>3. j \in 1 .. n + 1
            OBVIOUS
          <6> QED
            BY <6>1, <6>2, <6>3
        <5>2. CASE i = Len(a) + 1
          <6>1. n + 1 \in 1 .. n + 1
            OBVIOUS
          <6> QED
            BY <4>2, <4>4, <5>2, <6>1
        <5> QED
          BY <4>4, <5>1, <5>2
      <4>6. \A i \in 1 .. Len(a) : a[i].ordinal < e.ordinal
        BY <4>2, <4>3
      <4>7. ASSUME NEW i \in 1 .. Len(b), NEW j \in 1 .. Len(b), i < j
            PROVE  b[i].ordinal < b[j].ordinal
        <5>1. i \in 1 .. Len(a)
          BY <4>4, <4>7
        <5>2. CASE j \in 1 .. Len(a)
          <6>1. a[i].ordinal < a[j].ordinal
            BY <4>2, <4>7, <5>1, <5>2
          <6> QED
            BY <4>4, <5>1, <5>2, <6>1
        <5>3. CASE j = Len(a) + 1
          BY <4>4, <4>6, <5>1, <5>3
        <5> QED
          BY <4>4, <5>2, <5>3
      <4> QED
        BY <4>1, <4>4, <4>5, <4>7
    <3>5. CASE ~(entries[n + 1].ordinal <= ordinal)
      <4>1. f[n + 1] = f[n]
        BY <3>3, <3>5 DEF Next
      <4>2. \A j \in 1 .. n : j \in 1 .. n + 1
        OBVIOUS
      <4> QED
        BY <3>2, <4>1, <4>2
    <3> QED
      BY <3>4, <3>5
  <2> HIDE DEF T
  <2> QED
    BY <2>1, <2>2, EveryNumber
<1>8. Good(m)
  <2> HIDE DEF Good
  <2> QED
    BY <1>1, <1>7
<1>9. DOMAIN f[m] = 1 .. Len(f[m])
  BY <1>8
<1> QED
  BY <1>5, <1>8, <1>9

(* A session that fits would be accepted again by a restore of what it writes down. *)
LEMMA KeptParses ==
  ASSUME NEW s \in SessionState, RecordsFit(s), QueueFits(s)
  PROVE  Parses(s)
<1> DEFINE queued == {r \in s.ingress : r.queued}
           n == Len(s.pending)
<1>0. /\ s.tick \in Nat /\ s.nextSeq \in Nat \ {0} /\ s.floor \in Nat \ {0}
      /\ n \in Nat /\ DOMAIN s.pending = 1 .. n /\ s.nextSeq = s.floor + n
      /\ s.ingress \in SUBSET IngressRecord
  BY DEF SessionState, QueueFits
<1>1. \A i \in 1 .. n :
        /\ s.pending[i].seq = s.floor + i - 1
        /\ \E r \in queued : r.key = s.pending[i].key /\ r.seq = s.pending[i].seq
  BY <1>0 DEF QueueFits
<1>2. \A r \in queued :
        \E i \in 1 .. n : r.key = s.pending[i].key /\ r.seq = s.pending[i].seq
  BY <1>0 DEF QueueFits
<1>3. \A r, q \in queued : r.key = q.key => r = q
  BY DEF RecordsFit
<1>4. IsFiniteSet(queued)
  BY FS_Subset DEF RecordsFit
<1> DEFINE f == [i \in 1 .. n |->
                   CHOOSE r \in queued : r.key = s.pending[i].key /\ r.seq = s.pending[i].seq]
<1>5. \A i \in 1 .. n : /\ f[i] \in queued /\ f[i].key = s.pending[i].key
                        /\ f[i].seq = s.floor + i - 1
  <2> HIDE DEF queued
  <2> QED
    BY <1>1
<1>6. f = [i \in 1 .. n |-> f[i]]
  OBVIOUS
<1>7. {r.seq : r \in queued} = s.floor .. (s.nextSeq - 1)
  <2> HIDE DEF queued, f
  <2>1. ASSUME NEW r \in queued PROVE r.seq \in s.floor .. (s.nextSeq - 1)
    <3>1. PICK i \in 1 .. n : r.seq = s.pending[i].seq
      BY <1>2
    <3>2. r.seq = s.floor + i - 1
      BY <1>1, <3>1
    <3> QED
      BY <1>0, <3>2
  <2>2. ASSUME NEW x \in s.floor .. (s.nextSeq - 1) PROVE \E r \in queued : r.seq = x
    <3>1. x - s.floor + 1 \in 1 .. n /\ x = s.floor + (x - s.floor + 1) - 1
      BY <1>0
    <3>2. f[x - s.floor + 1] \in queued /\ f[x - s.floor + 1].seq = x
      BY <1>5, <3>1
    <3> QED
      BY <3>2
  <2> QED
    BY <2>1, <2>2
<1>8. Cardinality(queued) = n
  <2> HIDE DEF queued, f
  <2>1. \A i, j \in 1 .. n : f[i] = f[j] => i = j
    <3> SUFFICES ASSUME NEW i \in 1 .. n, NEW j \in 1 .. n, f[i] = f[j] PROVE i = j
      OBVIOUS
    <3>1. s.floor + i - 1 = s.floor + j - 1
      BY <1>5
    <3> QED
      BY <1>0, <3>1
  <2>2. \A r \in queued : \E i \in 1 .. n : f[i] = r
    <3> SUFFICES ASSUME NEW r \in queued PROVE \E i \in 1 .. n : f[i] = r
      OBVIOUS
    <3>1. PICK i \in 1 .. n : r.key = s.pending[i].key
      BY <1>2
    <3> QED
      BY <1>3, <1>5, <3>1
  <2>3. f \in [1 .. n -> queued]
    BY <1>5, <1>6
  <2>4. f \in Surjection(1 .. n, queued)
    BY <2>2, <2>3 DEF Surjection
  <2>5. f \in Injection(1 .. n, queued)
    BY <2>1, <2>3 DEF Injection, IsInjective
  <2>6. IsFiniteSet(1 .. n) /\ Cardinality(1 .. n) = n
    <3>1. 1 \in Int /\ n \in Int /\ n \in Nat
      BY <1>0
    <3> HIDE DEF n
    <3>2. /\ IsFiniteSet(1 .. n)
          /\ Cardinality(1 .. n) = IF 1 > n THEN 0 ELSE n - 1 + 1
      BY <3>1, FS_Interval
    <3> QED
      BY <3>1, <3>2
  <2> QED
    BY <2>4, <2>5, <2>6, FS_Surjection
<1>9. NumbersOf(s) = [i \in 1 .. Cardinality(queued) |-> s.floor + i - 1]
  <2>1. NumbersOf(s) = [i \in 1 .. n |-> s.pending[i].seq]
    BY <1>0 DEF NumbersOf
  <2> HIDE DEF queued
  <2> QED
    BY <1>1, <1>8, <2>1
<1>10. RecordsParse(s)
  BY DEF RecordsParse, RecordsFit
<1>11. \A i \in DOMAIN s.pending : \E r \in queued :
         r.key = s.pending[i].key /\ r.seq = s.pending[i].seq /\ r.at = s.tick
  <2>1. \A r \in queued : r.at = s.tick
    BY DEF RecordsFit
  <2> HIDE DEF queued
  <2> QED
    BY <1>0, <1>1, <2>1
<1>12. \A r \in s.ingress :
         IF r.queued THEN r.retained = s.tick /\ r.apply = s.tick
         ELSE r.retained <= r.apply /\ r.apply <= s.tick
  BY DEF RecordsFit
<1>13. /\ Len(s.pending) <= QueueLimit /\ s.floor <= s.nextSeq
       /\ s.resolved = 1 .. (s.floor - 1) /\ s.accepted \subseteq s.resolved
  BY <1>0 DEF QueueFits
<1> QED
  BY <1>7, <1>9, <1>10, <1>11, <1>12, <1>13 DEF Parses

(* The record of an attempt. *)
LEMMA RecordIs ==
  ASSUME NEW s \in SessionState, NEW a \in Attempts, NEW q \in BOOLEAN
  PROVE  /\ Record(s, a, q) \in IngressRecord
         /\ Record(s, a, q) = [key |-> a.key, at |-> a.at, retained |-> s.tick, queued |-> q,
                              seq |-> IF q THEN s.nextSeq ELSE 0, apply |-> s.tick]
         /\ Record(s, a, q).queued = q /\ Record(s, a, q).apply = s.tick
         /\ Record(s, a, q).retained = s.tick
         /\ Record(s, a, q).at = a.at /\ Record(s, a, q).key = a.key
         /\ a.key \in Keys /\ a.at \in Nat
<1>1. s.tick \in Nat /\ s.nextSeq \in Nat \ {0} /\ a.key \in Keys /\ a.at \in Nat
  BY SessionAssumption DEF SessionState, Keys
<1> QED
  BY <1>1 DEF Record, IngressRecord

(* The record of an action joins the others, or does not, and nothing else changes. *)
LEMMA RetainedIs ==
  ASSUME NEW s \in SessionState, NEW record \in IngressRecord
  PROVE  /\ Retain(s, record) \in SessionState
         /\ Retain(s, record).tick = s.tick
         /\ Retain(s, record).nextSeq = s.nextSeq
         /\ Retain(s, record).pending = s.pending
         /\ Retain(s, record).floor = s.floor
         /\ Retain(s, record).accepted = s.accepted
         /\ Retain(s, record).resolved = s.resolved
         /\ Retain(s, record).closed = s.closed
         /\ Retain(s, record).evidence = s.evidence
         /\ Retain(s, record).ordinal = s.ordinal
         /\ Retain(s, record).provider = s.provider
<1>1. PICK now \in SUBSET IngressRecord : Retain(s, record) = [s EXCEPT !.ingress = now]
  BY RetainIs
<1> QED
  BY <1>1 DEF SessionState

(* Evidence is issued under the next ordinal. *)
LEMMA EvidencedIs ==
  ASSUME NEW s \in SessionState, EvidenceFits(s), NEW k \in Keys
  PROVE  /\ Evidenced(s, k) \in SessionState
         /\ EvidenceFits(Evidenced(s, k))
         /\ Evidenced(s, k).tick = s.tick
         /\ Evidenced(s, k).nextSeq = s.nextSeq
         /\ Evidenced(s, k).pending = s.pending
         /\ Evidenced(s, k).ingress = s.ingress
         /\ Evidenced(s, k).floor = s.floor
         /\ Evidenced(s, k).accepted = s.accepted
         /\ Evidenced(s, k).resolved = s.resolved
         /\ Evidenced(s, k).closed = s.closed
         /\ Evidenced(s, k).provider = s.provider
<1>1. PICK next \in Nat : next = s.ordinal + 1
  BY DEF SessionState
<1>2. PICK entry \in Issued : entry = [ordinal |-> next, key |-> k]
  BY DEF Issued
<1>3. PICK entries : entries = Append(s.evidence, entry)
  OBVIOUS
<1>3a. s.evidence \in Seq(Issued) /\ entries \in Seq(Issued)
  <2>1. s.evidence \in Seq(Issued)
    BY DEF SessionState
  <2> QED
    BY <1>3, <2>1
<1>4. PICK o : o = [s EXCEPT !.ordinal = next]
  OBVIOUS
<1>5. /\ o \in SessionState /\ o.ordinal = next
      /\ o.tick = s.tick /\ o.nextSeq = s.nextSeq /\ o.pending = s.pending
      /\ o.ingress = s.ingress /\ o.floor = s.floor /\ o.accepted = s.accepted
      /\ o.resolved = s.resolved /\ o.closed = s.closed /\ o.provider = s.provider
      /\ o.evidence = s.evidence
  BY <1>4 DEF SessionState
<1>6. PICK t : t = [o EXCEPT !.evidence = entries]
  OBVIOUS
<1>7. /\ t \in SessionState /\ t.evidence = entries /\ t.ordinal = next
      /\ t.tick = s.tick /\ t.nextSeq = s.nextSeq /\ t.pending = s.pending
      /\ t.ingress = s.ingress /\ t.floor = s.floor /\ t.accepted = s.accepted
      /\ t.resolved = s.resolved /\ t.closed = s.closed /\ t.provider = s.provider
  BY <1>3a, <1>5, <1>6 DEF SessionState
<1>8. t = Evidenced(s, k)
  BY <1>1, <1>2, <1>3, <1>4, <1>5, <1>6 DEF Evidenced
<1>9. EvidenceFits(t)
  <2> DEFINE a == s.evidence
  <2>1. /\ a \in Seq(Issued) /\ s.ordinal \in Nat /\ entry \in Issued
        /\ entry.ordinal = s.ordinal + 1
    BY <1>1, <1>2 DEF SessionState
  <2>2. \A i \in 1 .. Len(a) : a[i].ordinal <= s.ordinal /\ a[i].ordinal \in Nat
    <3>1. DOMAIN a = 1 .. Len(a) /\ \A i \in 1 .. Len(a) : a[i] \in Issued
      BY <2>1
    <3>2. \A i \in DOMAIN a : a[i].ordinal <= s.ordinal
      BY DEF EvidenceFits
    <3>3. \A e \in Issued : e.ordinal \in Nat
      BY DEF Issued
    <3> HIDE DEF a
    <3> QED
      BY <3>1, <3>2, <3>3
  <2>3. \A i, j \in 1 .. Len(a) : i < j => a[i].ordinal < a[j].ordinal
    BY <2>1 DEF EvidenceFits
  <2> HIDE DEF a
  <2>4. /\ Len(a) \in Nat /\ DOMAIN entries = 1 .. Len(a) + 1
        /\ \A i \in 1 .. Len(a) : entries[i] = a[i]
        /\ entries[Len(a) + 1] = entry
    BY <1>3, <2>1 DEF a
  <2>5. \A i \in DOMAIN entries : i \in 1 .. Len(a) \/ i = Len(a) + 1
    BY <2>4
  <2>6. \A i \in DOMAIN entries : entries[i].ordinal <= s.ordinal + 1
    BY <2>1, <2>2, <2>4, <2>5
  <2>7. ASSUME NEW i \in DOMAIN entries, NEW j \in DOMAIN entries, i < j
        PROVE  entries[i].ordinal < entries[j].ordinal
    <3>1. i \in 1 .. Len(a)
      BY <2>4, <2>7
    <3>2. CASE j \in 1 .. Len(a)
      <4>1. a[i].ordinal < a[j].ordinal
        BY <2>3, <2>7, <3>1, <3>2
      <4> QED
        BY <2>4, <3>1, <3>2, <4>1
    <3>3. CASE j = Len(a) + 1
      BY <2>1, <2>2, <2>4, <3>1, <3>3
    <3> QED
      BY <2>5, <3>2, <3>3
  <2> QED
    BY <1>1, <1>7, <2>6, <2>7 DEF EvidenceFits
<1> QED
  BY <1>7, <1>8, <1>9

(* A provider that is taken back leaves the session as it was, or closes it. *)
LEMMA RollbackIs ==
  ASSUME NEW s \in SessionState, Open(s), EvidenceFits(s), NEW t \in Rollback(s)
  PROVE  /\ t \in SessionState /\ Open(t) /\ EvidenceFits(t)
         /\ t.tick = s.tick /\ t.nextSeq = s.nextSeq /\ t.pending = s.pending
         /\ t.ingress = s.ingress /\ t.floor = s.floor /\ t.accepted = s.accepted
         /\ t.resolved = s.resolved
<1>1. CASE t = s
  BY <1>1
<1>2. CASE t = [s EXCEPT !.provider = Spoilt, !.closed = TRUE]
  <2>1. PICK p : p = [s EXCEPT !.provider = Spoilt]
    OBVIOUS
  <2>2. /\ p \in SessionState
        /\ p.tick = s.tick /\ p.nextSeq = s.nextSeq /\ p.pending = s.pending
        /\ p.ingress = s.ingress /\ p.floor = s.floor /\ p.accepted = s.accepted
        /\ p.resolved = s.resolved /\ p.evidence = s.evidence /\ p.ordinal = s.ordinal
    <3>1. Spoilt \in Int
      BY DEF Spoilt
    <3> QED
      BY <2>1, <3>1 DEF SessionState
  <2>3. t = [p EXCEPT !.closed = TRUE]
    BY <1>2, <2>1
  <2>4. /\ t \in SessionState /\ t.closed
        /\ t.tick = s.tick /\ t.nextSeq = s.nextSeq /\ t.pending = s.pending
        /\ t.ingress = s.ingress /\ t.floor = s.floor /\ t.accepted = s.accepted
        /\ t.resolved = s.resolved /\ t.evidence = s.evidence /\ t.ordinal = s.ordinal
    BY <2>2, <2>3 DEF SessionState
  <2> QED
    BY <2>4 DEF Open, EvidenceFits
<1> QED
  BY <1>1, <1>2 DEF Rollback

(* A session that fits begins. *)
LEMMA SessionStarts == SessionInit => SessionInv
<1> SUFFICES ASSUME SessionInit PROVE SessionInv
  OBVIOUS
<1>1. /\ dyn.tick = 0 /\ dyn.nextSeq = 1 /\ dyn.pending = <<>> /\ dyn.ingress = {}
      /\ dyn.floor = 1 /\ dyn.accepted = {} /\ dyn.resolved = {} /\ ~dyn.closed
      /\ dyn.evidence = <<>> /\ dyn.ordinal = 0 /\ dyn.provider = 0
      /\ snapshotted = {} /\ story.told = {} /\ story.applied = <<>>
  BY DEF SessionInit
<1>2. <<>> \in Seq(Queued) /\ <<>> \in Seq(Issued) /\ <<>> \in Seq(Note)
  OBVIOUS
<1>3. dyn \in SessionState /\ story \in SessionStory
  BY <1>2 DEF SessionInit, SessionState, SessionStory
<1>4. Kept(dyn, {}, <<>>)
  <2>1. RecordsFit(dyn)
    BY <1>1, FS_EmptySet, SessionAssumption DEF RecordsFit, Retention
  <2>2. Len(dyn.pending) = 0 /\ DOMAIN dyn.pending = {} /\ DOMAIN <<>> = {}
    BY <1>1
  <2>3. QueueFits(dyn)
    BY <1>1, <2>2, SessionAssumption DEF QueueFits
  <2>4. ToldFits(dyn, {}, <<>>)
    BY <2>2 DEF ToldFits
  <2> QED
    BY <2>1, <2>3, <2>4 DEF Kept
<1>5. Open(dyn) /\ EvidenceFits(dyn)
  BY <1>1 DEF Open, EvidenceFits
<1> QED
  BY <1>1, <1>3, <1>4, <1>5 DEF SessionInv, Fits

(* Records of earlier ticks are forgotten, and no other joins them. *)
LEMMA EvictionKept ==
  ASSUME NEW s \in SessionState, NEW t \in SessionState, NEW told, NEW applied,
         Kept(s, told, applied),
         NEW left \in SUBSET s.ingress, \A r \in s.ingress \ left : r.retained < s.tick,
         t.ingress = left,
         t.tick = s.tick, t.nextSeq = s.nextSeq, t.pending = s.pending,
         t.floor = s.floor, t.accepted = s.accepted, t.resolved = s.resolved
  PROVE  Kept(t, told, applied)
<1>1. RecordsFit(t)
  <2>1. RecordsFit(s)
    BY DEF Kept
  <2>2. IsFiniteSet(left) /\ Cardinality(left) <= Cardinality(s.ingress)
    BY <2>1, FS_Subset DEF RecordsFit
  <2>3. Cardinality(left) <= Retention
    <3>1. /\ Cardinality(left) \in Nat /\ Cardinality(s.ingress) \in Nat /\ Retention \in Nat
          /\ Cardinality(s.ingress) <= Retention
      BY <2>1, <2>2, FS_CardinalityType, SessionAssumption DEF Retention, RecordsFit
    <3> QED
      BY <2>2, <3>1
  <2> QED
    BY <2>1, <2>2, <2>3 DEF RecordsFit
<1>2. QueueFits(t)
  <2>1. \A r \in s.ingress : r.queued => r \in left
    BY DEF Kept, RecordsFit, SessionState, IngressRecord
  <2> QED
    BY <2>1 DEF Kept, QueueFits
<1>3. ToldFits(t, told, applied)
  BY DEF Kept, ToldFits
<1> QED
  BY <1>1, <1>2, <1>3 DEF Kept

(* An attempt that names another tick is refused and recorded. *)
LEMMA WrongTickFits ==
  ASSUME SessionInv, NEW a \in Attempts, WrongTick(a)
  PROVE  SessionInv'
<1> DEFINE record == Record(dyn, a, FALSE)
           s == Retain(dyn, record)
<1>0. /\ dyn \in SessionState /\ Open(dyn) /\ EvidenceFits(dyn) /\ story \in SessionStory
      /\ snapshotted' = snapshotted /\ story' = story
  BY DEF SessionInv, Fits, WrongTick
<1>1. /\ dyn' = IF HasRoom(dyn) THEN Evidenced(s, a.key) ELSE s
      /\ dyn.closed = FALSE /\ a.at # dyn.tick /\ \A r \in dyn.ingress : r.key # a.key
  BY DEF WrongTick, Fresh
<1>2. /\ record \in IngressRecord
      /\ ~record.queued /\ record.apply = dyn.tick /\ record.retained = dyn.tick
      /\ record.at = a.at /\ record.key = a.key /\ a.key \in Keys
  BY <1>0, RecordIs
<1> HIDE DEF record
<1>3. /\ s \in SessionState /\ s.tick = dyn.tick /\ s.nextSeq = dyn.nextSeq
      /\ s.pending = dyn.pending /\ s.floor = dyn.floor /\ s.accepted = dyn.accepted
      /\ s.resolved = dyn.resolved /\ s.closed = dyn.closed /\ s.evidence = dyn.evidence
      /\ s.ordinal = dyn.ordinal /\ s.provider = dyn.provider
  BY <1>0, <1>2, RetainedIs
<1>4. Open(s) /\ EvidenceFits(s)
  BY <1>0, <1>3 DEF Open, EvidenceFits
<1>5. PICK left \in SUBSET dyn.ingress :
        /\ \A r \in dyn.ingress \ left : r.retained < dyn.tick
        /\ HasRoom(dyn) => Cardinality(left) < Retention
        /\ s = [dyn EXCEPT !.ingress = left \cup (IF HasRoom(dyn) THEN {record} ELSE {})]
  BY <1>0, <1>2, RetainIs
<1>6. s.ingress = left \cup (IF HasRoom(dyn) THEN {record} ELSE {})
  BY <1>0, <1>5 DEF SessionState
<1> HIDE DEF s
<1>7. CASE ~HasRoom(dyn)
  <2>1. dyn' = s /\ s.ingress = left
    BY <1>1, <1>6, <1>7
  <2>2. ASSUME ~story.orphan PROVE Kept(s, story.told, story.applied)
    <3>1. Kept(dyn, story.told, story.applied)
      BY <2>2 DEF SessionInv, Fits
    <3> QED
      BY <1>0, <1>3, <1>5, <2>1, <3>1, EvictionKept
  <2> QED
    BY <1>0, <1>3, <1>4, <2>1, <2>2 DEF SessionInv, Fits
<1>8. CASE HasRoom(dyn)
  <2>1. dyn' = Evidenced(s, a.key) /\ s.ingress = left \cup {record}
    BY <1>1, <1>6, <1>8
  <2>2. PICK t : t = dyn'
    OBVIOUS
  <2>3. /\ t \in SessionState /\ EvidenceFits(t)
        /\ t.tick = s.tick /\ t.nextSeq = s.nextSeq /\ t.pending = s.pending
        /\ t.ingress = s.ingress /\ t.floor = s.floor /\ t.accepted = s.accepted
        /\ t.resolved = s.resolved /\ t.closed = s.closed /\ t.provider = s.provider
    BY <1>2, <1>3, <1>4, <2>1, <2>2, EvidencedIs
  <2>4. Open(t)
    BY <1>4, <2>3 DEF Open
  <2>5. ASSUME ~story.orphan PROVE Kept(t, story.told, story.applied)
    <3>1. Kept(dyn, story.told, story.applied)
      BY <2>5 DEF SessionInv, Fits
    <3> QED
      BY <1>0, <1>1, <1>2, <1>3, <1>5, <1>8, <2>1, <2>3, <3>1, RefusalKept
  <2> QED
    BY <1>0, <2>2, <2>3, <2>4, <2>5 DEF SessionInv, Fits
<1> QED
  BY <1>7, <1>8

(* An action is queued, unless there is no room for its record. *)
LEMMA QueueAttemptFits ==
  ASSUME SessionInv, NEW a \in Attempts, QueueAttempt(a)
  PROVE  SessionInv'
<1>0. /\ dyn \in SessionState /\ Open(dyn) /\ EvidenceFits(dyn) /\ story \in SessionStory
      /\ snapshotted' = snapshotted
  BY DEF SessionInv, Fits, QueueAttempt
<1> DEFINE record == Record(dyn, a, TRUE)
           action == [key |-> a.key, seq |-> dyn.nextSeq]
           told == [key |-> a.key, at |-> a.at, seq |-> dyn.nextSeq]
           k == Retain(dyn, record)
           s == [k EXCEPT !.nextSeq = @ + 1, !.pending = Append(@, action)]
<1>1. /\ dyn' = IF HasRoom(dyn) THEN Evidenced(s, a.key) ELSE s
      /\ story' = IF HasRoom(dyn) THEN [story EXCEPT !.told = @ \cup {told}]
                  ELSE [story EXCEPT !.orphan = TRUE]
      /\ dyn.closed = FALSE /\ a.at = dyn.tick /\ \A r \in dyn.ingress : r.key # a.key
      /\ Len(dyn.pending) < QueueLimit
  BY DEF QueueAttempt, Fresh
<1>2. /\ record \in IngressRecord /\ a.key \in Keys /\ a.at \in Nat
      /\ record = [key |-> a.key, at |-> dyn.tick, retained |-> dyn.tick, queued |-> TRUE,
                   seq |-> dyn.nextSeq, apply |-> dyn.tick]
  <2>1. TRUE \in BOOLEAN
    OBVIOUS
  <2>2. /\ record \in IngressRecord /\ a.key \in Keys /\ a.at \in Nat
        /\ record = [key |-> a.key, at |-> a.at, retained |-> dyn.tick, queued |-> TRUE,
                     seq |-> IF TRUE THEN dyn.nextSeq ELSE 0, apply |-> dyn.tick]
    BY <1>0, <2>1, RecordIs
  <2> QED
    BY <1>1, <2>2
<1>3. action \in Queued /\ told \in Note
  BY <1>0, <1>2 DEF SessionState, Queued, Note
<1> HIDE DEF record, action, told
<1>4. /\ k \in SessionState /\ k.tick = dyn.tick /\ k.nextSeq = dyn.nextSeq
      /\ k.pending = dyn.pending /\ k.floor = dyn.floor /\ k.accepted = dyn.accepted
      /\ k.resolved = dyn.resolved /\ k.closed = dyn.closed /\ k.evidence = dyn.evidence
      /\ k.ordinal = dyn.ordinal /\ k.provider = dyn.provider
  BY <1>0, <1>2, RetainedIs
<1> HIDE DEF k
<1>5. PICK next \in Nat \ {0} : next = dyn.nextSeq + 1
  BY <1>0 DEF SessionState
<1>6. PICK queue : queue = Append(dyn.pending, action)
  OBVIOUS
<1>7. queue \in Seq(Queued)
  <2>1. dyn.pending \in Seq(Queued)
    BY <1>0 DEF SessionState
  <2> QED
    BY <1>3, <1>6, <2>1
<1>8. PICK n : n = [k EXCEPT !.nextSeq = next]
  OBVIOUS
<1>9. /\ n \in SessionState /\ n.nextSeq = next /\ n.pending = k.pending
      /\ n.tick = k.tick /\ n.floor = k.floor /\ n.accepted = k.accepted
      /\ n.resolved = k.resolved /\ n.closed = k.closed /\ n.evidence = k.evidence
      /\ n.ordinal = k.ordinal /\ n.provider = k.provider /\ n.ingress = k.ingress
  BY <1>4, <1>5, <1>8 DEF SessionState
<1>10. s = [n EXCEPT !.pending = queue]
  BY <1>4, <1>5, <1>6, <1>8, <1>9
<1> HIDE DEF s
<1>11. /\ s \in SessionState /\ s.nextSeq = next /\ s.pending = queue
       /\ s.tick = k.tick /\ s.floor = k.floor /\ s.accepted = k.accepted
       /\ s.resolved = k.resolved /\ s.closed = k.closed /\ s.evidence = k.evidence
       /\ s.ordinal = k.ordinal /\ s.provider = k.provider /\ s.ingress = k.ingress
  BY <1>7, <1>9, <1>10 DEF SessionState
<1>12. Open(s) /\ EvidenceFits(s)
  BY <1>0, <1>4, <1>11 DEF Open, EvidenceFits
<1>13. CASE ~HasRoom(dyn)
  <2>1. story' \in SessionStory /\ story'.orphan
    <3>1. story' = [story EXCEPT !.orphan = TRUE]
      BY <1>1, <1>13
    <3> QED
      BY <1>0, <3>1 DEF SessionStory
  <2>2. dyn' = s
    BY <1>1, <1>13
  <2> QED
    BY <1>0, <1>11, <1>12, <2>1, <2>2 DEF SessionInv, Fits
<1>14. CASE HasRoom(dyn)
  <2>1. PICK left \in SUBSET dyn.ingress :
          /\ \A r \in dyn.ingress \ left : r.retained < dyn.tick
          /\ Cardinality(left) < Retention
          /\ k = [dyn EXCEPT !.ingress = left \cup {record}]
    BY <1>0, <1>2, <1>14, RetainIs DEF k
  <2>2. k.ingress = left \cup {record}
    BY <1>0, <2>1 DEF SessionState
  <2>3. dyn' = Evidenced(s, a.key)
    BY <1>1, <1>14
  <2>4. PICK t : t = dyn'
    OBVIOUS
  <2>5. /\ t \in SessionState /\ EvidenceFits(t)
        /\ t.tick = s.tick /\ t.nextSeq = s.nextSeq /\ t.pending = s.pending
        /\ t.ingress = s.ingress /\ t.floor = s.floor /\ t.accepted = s.accepted
        /\ t.resolved = s.resolved /\ t.closed = s.closed /\ t.provider = s.provider
    BY <1>2, <1>11, <1>12, <2>3, <2>4, EvidencedIs
  <2>6. Open(t)
    BY <1>12, <2>5 DEF Open
  <2>7. story' = [story EXCEPT !.told = story.told \cup {told}]
    BY <1>1, <1>14
  <2>8. /\ story' \in SessionStory /\ story'.told = story.told \cup {told}
        /\ story'.applied = story.applied /\ story'.orphan = story.orphan
    BY <1>0, <1>3, <2>7 DEF SessionStory
  <2>9. ASSUME ~story.orphan PROVE Kept(t, story.told \cup {told}, story.applied)
    <3>1. Kept(dyn, story.told, story.applied)
      BY <2>9 DEF SessionInv, Fits
    <3>2. /\ t.ingress = left \cup {[key |-> a.key, at |-> dyn.tick, retained |-> dyn.tick,
                                    queued |-> TRUE, seq |-> dyn.nextSeq, apply |-> dyn.tick]}
          /\ t.pending = Append(dyn.pending, [key |-> a.key, seq |-> dyn.nextSeq])
          /\ t.nextSeq = dyn.nextSeq + 1
          /\ t.tick = dyn.tick /\ t.floor = dyn.floor /\ t.accepted = dyn.accepted
          /\ t.resolved = dyn.resolved
      BY <1>2, <1>4, <1>5, <1>6, <1>11, <2>2, <2>5 DEF action
    <3>3. story.told \in SUBSET Note /\ story.applied \in Seq(Note)
      BY <1>0 DEF SessionStory
    <3>4. Kept(t, story.told \cup {[key |-> a.key, at |-> dyn.tick, seq |-> dyn.nextSeq]},
               story.applied)
      BY <1>0, <1>1, <1>2, <2>1, <2>5, <3>1, <3>2, <3>3, QueuedKept
    <3> QED
      BY <1>1, <3>4 DEF told
  <2> QED
    BY <1>0, <2>4, <2>5, <2>6, <2>8, <2>9 DEF SessionInv, Fits
<1> QED
  BY <1>13, <1>14
(* Evidence is acknowledged. *)
LEMMA AcknowledgeFits ==
  ASSUME SessionInv, Acknowledge
  PROVE  SessionInv'
<1>1. /\ dyn \in SessionState /\ Open(dyn)
      /\ dyn' = [dyn EXCEPT !.evidence = <<>>] /\ <<>> \in Seq(Issued)
      /\ snapshotted' = snapshotted /\ story' = story
  BY DEF SessionInv, Fits, Acknowledge
<1>2. PICK t : t = dyn'
  OBVIOUS
<1>3. /\ t \in SessionState /\ t.evidence = <<>>
      /\ t.tick = dyn.tick /\ t.nextSeq = dyn.nextSeq /\ t.pending = dyn.pending
      /\ t.ingress = dyn.ingress /\ t.floor = dyn.floor /\ t.accepted = dyn.accepted
      /\ t.resolved = dyn.resolved /\ t.closed = dyn.closed /\ t.provider = dyn.provider
  BY <1>1, <1>2 DEF SessionState
<1>4. Open(t) /\ EvidenceFits(t)
  BY <1>1, <1>3 DEF Open, EvidenceFits
<1>5. Kept(dyn, story.told, story.applied) => Kept(t, story.told, story.applied)
  BY <1>3, KeptAlike
<1> QED
  BY <1>1, <1>2, <1>3, <1>4, <1>5 DEF SessionInv, Fits

(* A provider is taken back while it is watched, stepped or restored. *)
LEMMA RollbackFits ==
  ASSUME SessionInv, dyn' \in Rollback(dyn), Spoils, snapshotted' \subseteq snapshotted
  PROVE  SessionInv'
<1>1. /\ dyn \in SessionState /\ Open(dyn) /\ EvidenceFits(dyn) /\ story \in SessionStory
  BY DEF SessionInv, Fits
<1>2. PICK t : t = dyn'
  OBVIOUS
<1>3. /\ t \in SessionState /\ Open(t) /\ EvidenceFits(t)
      /\ t.tick = dyn.tick /\ t.nextSeq = dyn.nextSeq /\ t.pending = dyn.pending
      /\ t.ingress = dyn.ingress /\ t.floor = dyn.floor /\ t.accepted = dyn.accepted
      /\ t.resolved = dyn.resolved
  BY <1>1, <1>2, RollbackIs
<1>4. Kept(dyn, story.told, story.applied) => Kept(t, story.told, story.applied)
  BY <1>3, KeptAlike
<1>5. /\ story' \in SessionStory /\ story'.told = story.told
      /\ story'.applied = story.applied /\ story'.orphan = story.orphan
  BY <1>1 DEF Spoils, SessionStory
<1> QED
  BY <1>2, <1>3, <1>4, <1>5 DEF SessionInv, Fits

(* A step that counts. *)
LEMMA StepFits ==
  ASSUME SessionInv, Step
  PROVE  SessionInv'
<1>0. /\ dyn \in SessionState /\ Open(dyn) /\ EvidenceFits(dyn) /\ story \in SessionStory
      /\ snapshotted' = snapshotted /\ ~dyn.closed
  BY DEF SessionInv, Fits, Step
<1>1. PICK reply \in Replies(dyn) :
        dyn' = Stepped(dyn, reply) /\ story' = [story EXCEPT !.applied = @ \o Applied(dyn)]
  BY DEF Step
<1>2. reply.accepted \subseteq ToSet(NumbersOf(dyn))
  BY DEF Replies
<1>3. PICK t \in SessionState :
        /\ t = Stepped(dyn, reply)
        /\ t.accepted = dyn.accepted \cup reply.accepted
        /\ t.resolved = dyn.resolved \cup ToSet(NumbersOf(dyn))
        /\ t.pending = <<>> /\ t.tick = dyn.tick + 1
        /\ t.ingress = {Over(r, dyn.tick) : r \in dyn.ingress}
        /\ t.floor = dyn.nextSeq /\ t.evidence = <<>> /\ t.provider = dyn.tick + 1
        /\ t.nextSeq = dyn.nextSeq /\ t.closed = dyn.closed /\ t.ordinal = dyn.ordinal
  BY <1>0, <1>2, SteppedIs
<1>4. dyn' = t
  BY <1>1, <1>3
<1>5. Open(t) /\ EvidenceFits(t)
  BY <1>3 DEF Open, EvidenceFits
<1>6. /\ story.told \in SUBSET Note /\ story.applied \in Seq(Note)
      /\ Applied(dyn) \in Seq(Note)
  BY <1>0, QueueTyped DEF SessionStory
<1>7. PICK now : now = story.applied \o Applied(dyn)
  OBVIOUS
<1>7a. now \in Seq(Note)
  BY <1>6, <1>7
<1>8. /\ story' \in SessionStory /\ story'.told = story.told
      /\ story'.applied = now /\ story'.orphan = story.orphan
  <2>1. story' = [story EXCEPT !.applied = now]
    BY <1>1, <1>7
  <2> QED
    BY <1>0, <1>7a, <2>1 DEF SessionStory
<1>9. ASSUME ~story.orphan PROVE Kept(t, story.told, now)
  <2>1. Kept(dyn, story.told, story.applied)
    BY <1>9 DEF SessionInv, Fits
  <2> QED
    BY <1>0, <1>2, <1>3, <1>6, <1>7, <2>1, StepKept
<1> QED
  BY <1>0, <1>4, <1>5, <1>8, <1>9 DEF SessionInv, Fits

(* A snapshot is taken. *)
LEMMA SnapshotFits ==
  ASSUME SessionInv, Snapshot
  PROVE  SessionInv'
<1>1. /\ dyn \in SessionState /\ Open(dyn) /\ EvidenceFits(dyn) /\ story \in SessionStory
      /\ ~dyn.closed /\ dyn' = dyn /\ story' = story /\ <<>> \in Seq(Issued)
  BY DEF SessionInv, Fits, Snapshot
<1>2. PICK t : t = [dyn EXCEPT !.evidence = <<>>]
  OBVIOUS
<1>3. /\ t \in SessionState
      /\ t.tick = dyn.tick /\ t.nextSeq = dyn.nextSeq /\ t.pending = dyn.pending
      /\ t.ingress = dyn.ingress /\ t.floor = dyn.floor /\ t.accepted = dyn.accepted
      /\ t.resolved = dyn.resolved /\ t.closed = dyn.closed /\ t.provider = dyn.provider
  BY <1>1, <1>2 DEF SessionState
<1>4. PICK k : k = [dyn |-> t, told |-> story.told, applied |-> story.applied,
                  orphan |-> story.orphan]
  OBVIOUS
<1>5. snapshotted' = {k}
  BY <1>2, <1>4 DEF Snapshot
<1>6. /\ k.dyn = t /\ k.told = story.told /\ k.applied = story.applied
      /\ k.orphan = story.orphan
      /\ k \in SessionSnapshot
  BY <1>1, <1>3, <1>4 DEF SessionSnapshot, SessionStory
<1>7. Open(t) /\ ~t.closed
  BY <1>1, <1>3 DEF Open
<1>8. Kept(dyn, story.told, story.applied) => Kept(t, story.told, story.applied)
  BY <1>3, KeptAlike
<1> QED
  BY <1>1, <1>5, <1>6, <1>7, <1>8 DEF SessionInv, Fits

(* A session is restored. *)
LEMMA RestoreFits ==
  ASSUME SessionInv, Restore
  PROVE  SessionInv'
<1>1. /\ dyn \in SessionState /\ EvidenceFits(dyn) /\ story \in SessionStory
      /\ snapshotted \subseteq SessionSnapshot
      /\ \A k \in snapshotted : Open(k.dyn) /\ ~k.dyn.closed
      /\ snapshotted' = {}
  BY DEF SessionInv, Fits, Restore
<1>2. PICK k \in snapshotted :
        /\ Parses(k.dyn)
        /\ dyn' = Restored(k.dyn)
        /\ story' = [story EXCEPT !.told = k.told, !.applied = k.applied,
                                  !.orphan = k.orphan]
  BY Zenon DEF Restore
<1>3. /\ k.dyn \in SessionState /\ k.told \in SUBSET Note /\ k.applied \in Seq(Note)
      /\ k.orphan \in BOOLEAN
      /\ Open(k.dyn) /\ ~k.dyn.closed
  BY <1>1, <1>2 DEF SessionSnapshot
<1>4. PICK left : left = IssuedUpTo(dyn.evidence, k.dyn.ordinal)
  OBVIOUS
<1>5. /\ left \in Seq(Issued)
      /\ \A i, j \in DOMAIN left :
           /\ left[i].ordinal <= k.dyn.ordinal
           /\ i < j => left[i].ordinal < left[j].ordinal
  <2>1. dyn.evidence \in Seq(Issued) /\ k.dyn.ordinal \in Nat
    BY <1>1, <1>3 DEF SessionState
  <2>2. \A i, j \in DOMAIN dyn.evidence :
          i < j => dyn.evidence[i].ordinal < dyn.evidence[j].ordinal
    BY <1>1 DEF EvidenceFits
  <2> QED
    BY <1>4, <2>1, <2>2, IssuedUpToIs
<1>6. PICK t : t = dyn'
  OBVIOUS
<1>7. t = [k.dyn EXCEPT !.evidence = left]
  BY <1>2, <1>4, <1>6 DEF Restored
<1>8. /\ t \in SessionState /\ t.evidence = left /\ t.ordinal = k.dyn.ordinal
      /\ t.tick = k.dyn.tick /\ t.nextSeq = k.dyn.nextSeq /\ t.pending = k.dyn.pending
      /\ t.ingress = k.dyn.ingress /\ t.floor = k.dyn.floor /\ t.accepted = k.dyn.accepted
      /\ t.resolved = k.dyn.resolved /\ t.closed = k.dyn.closed
      /\ t.provider = k.dyn.provider
  BY <1>3, <1>5, <1>7 DEF SessionState
<1>9. Open(t) /\ EvidenceFits(t)
  BY <1>3, <1>5, <1>8 DEF Open, EvidenceFits
<1>10. /\ story' \in SessionStory /\ story'.told = k.told
       /\ story'.applied = k.applied /\ story'.orphan = k.orphan
  <2>1. PICK x : x = [story EXCEPT !.told = k.told]
    OBVIOUS
  <2>2. /\ x \in SessionStory /\ x.told = k.told /\ x.applied = story.applied
        /\ x.orphan = story.orphan
    BY <1>1, <1>3, <2>1 DEF SessionStory
  <2>3. PICK y : y = [x EXCEPT !.applied = k.applied]
    OBVIOUS
  <2>4. /\ y \in SessionStory /\ y.told = k.told /\ y.applied = k.applied
        /\ y.orphan = story.orphan
    BY <1>3, <2>2, <2>3 DEF SessionStory
  <2>5. story' = [y EXCEPT !.orphan = k.orphan]
    BY <1>2, <2>1, <2>3
  <2> QED
    BY <1>3, <2>4, <2>5 DEF SessionStory
<1>11. ASSUME ~k.orphan PROVE Kept(t, k.told, k.applied)
  <2>1. Kept(k.dyn, k.told, k.applied)
    BY <1>2, <1>11 DEF SessionInv, Fits
  <2> QED
    BY <1>8, <2>1, KeptAlike
<1> QED
  BY <1>1, <1>6, <1>8, <1>9, <1>10, <1>11 DEF SessionInv, Fits

(* The invariant holds of every behaviour. *)
THEOREM SessionInvAlways == SessionSpec => []SessionInv
<1>1. SessionInit => SessionInv
  BY SessionStarts
<1>2. SessionInv /\ [SessionNext]_sessionVars => SessionInv'
  <2> SUFFICES ASSUME SessionInv, [SessionNext]_sessionVars PROVE SessionInv'
    OBVIOUS
  <2>1. ASSUME NEW a \in Attempts, WrongTick(a) PROVE SessionInv'
    BY <2>1, WrongTickFits
  <2>2. ASSUME NEW a \in Attempts, QueueAttempt(a) PROVE SessionInv'
    BY <2>2, QueueAttemptFits
  <2>3. CASE Acknowledge
    BY <2>3, AcknowledgeFits
  <2>4. CASE Watch
    BY <2>4, RollbackFits DEF Watch
  <2>5. CASE Step
    BY <2>5, StepFits
  <2>6. CASE StepFails
    BY <2>6, RollbackFits DEF StepFails
  <2>7. CASE Snapshot
    BY <2>7, SnapshotFits
  <2>8. CASE Restore
    BY <2>8, RestoreFits
  <2>9. CASE RestoreFails
    BY <2>9, RollbackFits DEF RestoreFails
  <2>10. CASE UNCHANGED sessionVars
    BY <2>10 DEF SessionInv, sessionVars
  <2> QED
    BY <2>1, <2>2, <2>3, <2>4, <2>5, <2>6, <2>7, <2>8, <2>9, <2>10 DEF SessionNext
<1> QED
  BY <1>1, <1>2, PTL DEF SessionSpec

(* What hosts were told is what was applied, as DynamicsSession states it. *)
LEMMA KeptAsTold ==
  ASSUME dyn \in SessionState, story \in SessionStory,
         Kept(dyn, story.told, story.applied)
  PROVE  AppliedAsTold
<1> DEFINE applied == story.applied
           told == story.told
<1>1. /\ applied \in Seq(Note) /\ told \in SUBSET Note /\ dyn.tick \in Nat
      /\ QueueFits(dyn) /\ ToldFits(dyn, told, applied)
  BY DEF SessionStory, SessionState, Kept
<1> HIDE DEF applied, told
<1>2. \A i, j \in DOMAIN applied : i < j =>
        applied[i].seq < applied[j].seq /\ <<applied[i].key, applied[i].at>>
                                            # <<applied[j].key, applied[j].at>>
  BY <1>1 DEF ToldFits
<1>3. ToSet(applied) = {t \in told : t.at < dyn.tick}
  <2>1. \A i \in DOMAIN applied : applied[i] \in Note
    BY <1>1
  <2>2. \A t \in Note : t \in told /\ t.at < dyn.tick <=> \E i \in DOMAIN applied : t = applied[i]
    BY <1>1 DEF ToldFits
  <2> QED
    BY <1>1, <2>1, <2>2 DEF ToSet
<1>4. {t \in told : t.at >= dyn.tick} = ToSet(Applied(dyn))
  <2>1. \A t \in told : t \in Note /\ t.at \in Nat /\ t.at <= dyn.tick
    BY <1>1 DEF ToldFits, Note
  <2>2. \A t \in Note : t \in told /\ t.at = dyn.tick <=>
          /\ t.at = dyn.tick
          /\ \E i \in DOMAIN dyn.pending :
               t.key = dyn.pending[i].key /\ t.seq = dyn.pending[i].seq
    BY <1>1 DEF ToldFits
  <2>3. ToSet(Applied(dyn)) =
          {[key |-> dyn.pending[i].key, at |-> dyn.tick, seq |-> dyn.pending[i].seq] :
             i \in DOMAIN dyn.pending}
    BY DEF ToSet, Applied
  <2>4. \A x \in ToSet(Applied(dyn)) : x \in Note
    <3>1. Applied(dyn) \in Seq(Note)
      BY QueueTyped
    <3> QED
      BY <3>1 DEF ToSet
  <2>5. ASSUME NEW t \in told, t.at >= dyn.tick PROVE t \in ToSet(Applied(dyn))
    <3>1. t.at = dyn.tick
      BY <1>1, <2>1, <2>5
    <3>2. PICK i \in DOMAIN dyn.pending :
            t.key = dyn.pending[i].key /\ t.seq = dyn.pending[i].seq
      BY <2>1, <2>2, <3>1
    <3>3. t = [key |-> dyn.pending[i].key, at |-> dyn.tick, seq |-> dyn.pending[i].seq]
      BY <2>1, <3>1, <3>2 DEF Note
    <3> QED
      BY <2>3, <3>3
  <2>6. ASSUME NEW x \in ToSet(Applied(dyn)) PROVE x \in told /\ x.at >= dyn.tick
    <3>1. PICK i \in DOMAIN dyn.pending :
            x = [key |-> dyn.pending[i].key, at |-> dyn.tick, seq |-> dyn.pending[i].seq]
      BY <2>3, <2>6
    <3>2. x.key = dyn.pending[i].key /\ x.at = dyn.tick /\ x.seq = dyn.pending[i].seq
      BY <3>1
    <3>3. x \in Note
      BY <2>4, <2>6
    <3> QED
      BY <1>1, <2>2, <3>2, <3>3
  <2> QED
    BY <2>5, <2>6
<1> QED
  BY <1>2, <1>3, <1>4 DEF AppliedAsTold, applied, told

(* The provider of an open session is where the last step that counted left it, and
   evidence is in order.  Unless an action was queued that found no room for its record
   (story.orphan: session.ts:198-200 leaves it in the queue), and again once the session
   has gone back to before it, every action a host has a receipt for is applied once, as
   told, nothing else is applied, and what the session would write down it would accept
   again (createDynamicsSession). *)
THEOREM SessionExactAlways == SessionSpec => []SessionExact
<1>1. SessionInv => SessionExact
  <2> SUFFICES ASSUME SessionInv PROVE SessionExact
    OBVIOUS
  <2>1. ProviderKept
    BY DEF SessionInv, Fits, Open, ProviderKept
  <2>2. EvidenceInOrder
    BY DEF SessionInv, Fits, EvidenceFits, EvidenceInOrder
  <2>3. ASSUME ~story.orphan PROVE AppliedAsTold /\ Restorable
    <3>1. /\ dyn \in SessionState /\ story \in SessionStory
          /\ Kept(dyn, story.told, story.applied)
      BY <2>3 DEF SessionInv, Fits
    <3>2. Parses(dyn)
      BY <3>1, KeptParses DEF Kept
    <3> QED
      BY <3>1, <3>2, KeptAsTold DEF Restorable
  <2> QED
    BY <2>1, <2>2, <2>3 DEF SessionExact
<1> QED
  BY <1>1, SessionInvAlways, PTL
=============================================================================
