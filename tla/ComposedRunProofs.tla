-------------------------- MODULE ComposedRunProofs --------------------------
(***************************************************************************)
(* Proofs about ComposedRun, for any set of processes, whether or not they *)
(* overlap, and any number of faults, and about ComposedCommand.           *)
(*                                                                         *)
(* The inductive invariant is Inv below.  It asks of every copy of the     *)
(* journal - the file, what a session holds, what it is about to write -   *)
(* that its phase and its receipts stand on effects at Spawnfile           *)
(* (Founded), of every process that the calls it has left behind in its    *)
(* stage are done (Sound), and of Spawnfile that nothing was delivered     *)
(* ahead of what precedes it in the lifecycle (InOrder).  It survives any  *)
(* interference because an effect is never undone: an overlapping process  *)
(* can overwrite the journal with an older one, never with an unfounded    *)
(* one.                                                                    *)
(*                                                                         *)
(* Where no process starts while another works, Serial below holds too:    *)
(* the one that works knows the file, and calls only what Spawnfile does   *)
(* not have.  From it follow what overlapping processes would break: no    *)
(* blind retry, durable intents, and the implementation of DurableRun.     *)
(*                                                                         *)
(* The commands come last: CommandInv adds to these what their journal is  *)
(* bound to (Bound) and what a command relies on where it is (Relies).     *)
(*                                                                         *)
(* About ReceiptChain, for any runs on one target, ChainInv says that what *)
(* was answered is what the asking run must ask at its place (GivenFits),  *)
(* what is stored suits it (TookFits, KeptFits), nothing is committed      *)
(* unanswered, and what is released stays released (HeldFits).             *)
(***************************************************************************)
EXTENDS ComposedCommand, ReceiptChain, FiniteSetTheorems, WellFoundedInduction, TLAPS

Recorded(t, j, op) ==
    /\ t[op] = "done"
    /\ op \in JournaledOps => j.ops[op] = "completed"

Founded(t, j) ==
    /\ \A op \in CallsThrough(j.phase) : Recorded(t, j, op)
    /\ \A op \in JournaledOps : j.ops[op] = "completed" => t[op] = "done"

StageOf(me) == Calls(me.snap.phase + 1)

(* Where a process is in its stage: the calls before its step are recorded. *)
Stands(t, j, me) ==
    /\ me.snap.phase < Completed
    /\ me.step <= Len(StageOf(me)) + 1
    /\ \A n \in DOMAIN StageOf(me) :
          n < me.step => Recorded(t, j, StageOf(me)[n])

(* The call it is about to make has no receipt in the journal it holds. *)
Pending(j, me) ==
    /\ me.step <= Len(StageOf(me))
    /\ StageOf(me)[me.step] \in JournaledOps
         => j.ops[StageOf(me)[me.step]] # "completed"

Writing == {"replacing", "renaming", "confirming"}

Sound(t, me) ==
    me.mode # "off" =>
        /\ Founded(t, me.snap)
        /\ me.mode \in {"work", "calling", "waiting"} => Stands(t, me.snap, me)
        /\ me.mode \in {"calling", "waiting"} => Pending(me.snap, me)
        /\ me.mode \in Writing =>
              /\ Founded(t, me.staged)
              /\ me.sequel \in {"call", "next"} =>
                    /\ me.staged.phase = me.snap.phase
                    /\ me.step <= Len(StageOf(me))
                    /\ Stands(t, me.staged, me)
              /\ me.sequel = "call" => Pending(me.staged, me)
              /\ me.sequel = "next" =>
                    Recorded(t, me.staged, StageOf(me)[me.step])

Ordered(t, op) ==
    \E k \in 1 .. Completed : \E i \in DOMAIN Calls(k) :
        /\ op = Calls(k)[i]
        /\ \A o \in CallsThrough(k - 1) : t[o] = "done"
        /\ \A n \in DOMAIN Calls(k) : n < i => t[Calls(k)[n]] = "done"

InOrder(t) == \A op \in Operation : t[op] # "absent" => Ordered(t, op)

Inv ==
    /\ TypeOK
    /\ Founded(target, journal)
    /\ \A p \in Procs : Sound(target, proc[p])
    /\ InOrder(target)

-----------------------------------------------------------------------------
(* The lifecycle's data.                                                   *)

(* The calls of each stage, one by one. *)
LEMMA CallsOf ==
  /\ Calls(0) = << >>
  /\ Calls(1) = << Preparation >>
  /\ Calls(2) = << "create_world_service" >>
  /\ Calls(3) = << "start_world_service" >>
  /\ Calls(4) = << "query_world_readiness" >>
  /\ Calls(5) = << "up", "attach_organization" >>
  /\ Calls(6) = << >>
  /\ Calls(7) = << "attest_topology" >>
  /\ Calls(8) = << "activate_topology" >>
  /\ Calls(9) = << "query_world_clock" >>
  /\ Calls(10) = << >>
  /\ Calls(11) = << "snapshot_public_artifact" >>
  /\ Calls(12) = << "stop_world_service" >>
  /\ Calls(13) = << "export_evidence_volume" >>
  /\ Calls(14) = << "artifacts_export" >>
  /\ Calls(15) = << "detach_organization", "down", "revoke_secret_bindings", "cleanup_run" >>
  /\ Calls(16) = << >>
<1> USE DEF Calls, PreparationCalls, WorldStartupCalls, OrganizationStartupCalls,
            TopologyCalls, SupervisionCalls, WorldFinalizationCalls,
            OrganizationFinalizationCalls, CleanupCalls
<1>0. Calls(0) = << >>
  BY DEF PhaseNames
<1>1. Calls(1) = << Preparation >>
  BY DEF PhaseNames
<1>2. Calls(2) = << "create_world_service" >>
  BY DEF PhaseNames
<1>3. Calls(3) = << "start_world_service" >>
  BY DEF PhaseNames
<1>4. Calls(4) = << "query_world_readiness" >>
  BY DEF PhaseNames
<1>5. Calls(5) = << "up", "attach_organization" >>
  BY DEF PhaseNames
<1>6. Calls(6) = << >>
  BY DEF PhaseNames
<1>7. Calls(7) = << "attest_topology" >>
  BY DEF PhaseNames
<1>8. Calls(8) = << "activate_topology" >>
  BY DEF PhaseNames
<1>9. Calls(9) = << "query_world_clock" >>
  BY DEF PhaseNames
<1>10. Calls(10) = << >>
  BY DEF PhaseNames
<1>11. Calls(11) = << "snapshot_public_artifact" >>
  BY DEF PhaseNames
<1>12. Calls(12) = << "stop_world_service" >>
  BY DEF PhaseNames
<1>13. Calls(13) = << "export_evidence_volume" >>
  BY DEF PhaseNames
<1>14. Calls(14) = << "artifacts_export" >>
  BY DEF PhaseNames
<1>15. Calls(15) = << "detach_organization", "down", "revoke_secret_bindings", "cleanup_run" >>
  BY DEF PhaseNames
<1>16. Calls(16) = << >>
  BY DEF PhaseNames
<1> QED
  BY <1>0, <1>1, <1>2, <1>3, <1>4, <1>5, <1>6, <1>7, <1>8, <1>9, <1>10, <1>11, <1>12, <1>13, <1>14, <1>15, <1>16

(* A stage makes at most four calls, all of them operations. *)
LEMMA CallsType ==
  ASSUME NEW k \in Phase
  PROVE  Calls(k) \in Seq(Operation) /\ Len(Calls(k)) <= 4
<1> DEFINE Good(s) == s \in Seq(Operation) /\ Len(s) <= 4
<1>0. Good(<< >>)
  OBVIOUS
<1>1. Good(<< Preparation >>)
  BY DEF Operation, JournaledOps, TargetOps, Preparation, LifecycleOps, DirectOps
<1>2. Good(<< "create_world_service" >>)
  BY DEF Operation, JournaledOps, TargetOps, Preparation, LifecycleOps, DirectOps
<1>3. Good(<< "start_world_service" >>)
  BY DEF Operation, JournaledOps, TargetOps, Preparation, LifecycleOps, DirectOps
<1>4. Good(<< "query_world_readiness" >>)
  BY DEF Operation, JournaledOps, TargetOps, Preparation, LifecycleOps, DirectOps
<1>5. Good(<< "up", "attach_organization" >>)
  BY DEF Operation, JournaledOps, TargetOps, Preparation, LifecycleOps, DirectOps
<1>7. Good(<< "attest_topology" >>)
  BY DEF Operation, JournaledOps, TargetOps, Preparation, LifecycleOps, DirectOps
<1>8. Good(<< "activate_topology" >>)
  BY DEF Operation, JournaledOps, TargetOps, Preparation, LifecycleOps, DirectOps
<1>9. Good(<< "query_world_clock" >>)
  BY DEF Operation, JournaledOps, TargetOps, Preparation, LifecycleOps, DirectOps
<1>11. Good(<< "snapshot_public_artifact" >>)
  BY DEF Operation, JournaledOps, TargetOps, Preparation, LifecycleOps, DirectOps
<1>12. Good(<< "stop_world_service" >>)
  BY DEF Operation, JournaledOps, TargetOps, Preparation, LifecycleOps, DirectOps
<1>13. Good(<< "export_evidence_volume" >>)
  BY DEF Operation, JournaledOps, TargetOps, Preparation, LifecycleOps, DirectOps
<1>14. Good(<< "artifacts_export" >>)
  BY DEF Operation, JournaledOps, TargetOps, Preparation, LifecycleOps, DirectOps
<1>15. Good(<< "detach_organization", "down", "revoke_secret_bindings", "cleanup_run" >>)
  BY DEF Operation, JournaledOps, TargetOps, Preparation, LifecycleOps, DirectOps
<1> HIDE DEF Good
<1>20. k \in {0, 1, 2, 3, 4, 5, 6, 7, 8, 9, 10, 11, 12, 13, 14, 15, 16}
  BY DEF Phase, Completed
<1>21. Good(Calls(k))
  BY <1>20, <1>0, <1>1, <1>2, <1>3, <1>4, <1>5, <1>7, <1>8, <1>9, <1>11, <1>12, <1>13, <1>14, <1>15, CallsOf, Zenon
<1> QED
  BY <1>21 DEF Good

(* Nothing is taken away from a run before the cleanup stage. *)
LEMMA ReleasedLast ==
  ASSUME NEW k \in 1 .. Completed, NEW i \in DOMAIN Calls(k), Calls(k)[i] \in ReleasingOps
  PROVE  k = 15
<1> DEFINE Keeps(s) == \A n \in DOMAIN s : s[n] \notin ReleasingOps
<1>0. Keeps(<< >>)
  OBVIOUS
<1>1. Keeps(<< Preparation >>)
  BY DEF ReleasingOps, Preparation
<1>2. Keeps(<< "create_world_service" >>)
  BY DEF ReleasingOps, Preparation
<1>3. Keeps(<< "start_world_service" >>)
  BY DEF ReleasingOps, Preparation
<1>4. Keeps(<< "query_world_readiness" >>)
  BY DEF ReleasingOps, Preparation
<1>5. Keeps(<< "up", "attach_organization" >>)
  BY DEF ReleasingOps, Preparation
<1>7. Keeps(<< "attest_topology" >>)
  BY DEF ReleasingOps, Preparation
<1>8. Keeps(<< "activate_topology" >>)
  BY DEF ReleasingOps, Preparation
<1>9. Keeps(<< "query_world_clock" >>)
  BY DEF ReleasingOps, Preparation
<1>11. Keeps(<< "snapshot_public_artifact" >>)
  BY DEF ReleasingOps, Preparation
<1>12. Keeps(<< "stop_world_service" >>)
  BY DEF ReleasingOps, Preparation
<1>13. Keeps(<< "export_evidence_volume" >>)
  BY DEF ReleasingOps, Preparation
<1>14. Keeps(<< "artifacts_export" >>)
  BY DEF ReleasingOps, Preparation
<1> HIDE DEF Keeps
<1>20. SUFFICES ASSUME k # 15
                PROVE  Keeps(Calls(k))
  BY DEF Keeps
<1>21. k \in {1, 2, 3, 4, 5, 6, 7, 8, 9, 10, 11, 12, 13, 14, 16}
  BY <1>20 DEF Completed
<1> QED
  BY <1>21, <1>0, <1>1, <1>2, <1>3, <1>4, <1>5, <1>7, <1>8, <1>9, <1>11, <1>12, <1>13, <1>14, CallsOf, Zenon

(* What a phase stands on. *)
LEMMA ThroughIs ==
  ASSUME NEW k \in Nat
  PROVE  \A op : op \in CallsThrough(k)
                  <=> \E j \in 0 .. k : \E i \in DOMAIN Calls(j) : op = Calls(j)[i]
  BY DEF CallsThrough

(* The first phase stands on nothing. *)
LEMMA ThroughFirst == CallsThrough(0) = {}
<1>1. \A op : op \notin CallsThrough(0)
  BY CallsOf, ThroughIs
<1> QED
  BY <1>1

(* A phase stands on what the one before it stands on, and on its own calls. *)
LEMMA ThroughNext ==
  ASSUME NEW k \in Nat, NEW op
  PROVE  op \in CallsThrough(k + 1)
         <=> op \in CallsThrough(k) \/ \E i \in DOMAIN Calls(k + 1) : op = Calls(k + 1)[i]
<1>1. 0 .. (k + 1) = (0 .. k) \union {k + 1}
  OBVIOUS
<1> QED
  BY <1>1, ThroughIs

(* What a phase stands on are operations. *)
LEMMA ThroughType ==
  ASSUME NEW k \in Phase
  PROVE  CallsThrough(k) \subseteq Operation
<1>1. \A j \in 0 .. k : j \in Phase
  BY DEF Phase, Completed
<1>2. \A j \in 0 .. k : Calls(j) \in Seq(Operation)
  BY <1>1, CallsType
<1> QED
  BY <1>2, ThroughIs DEF Phase, Completed

(* The cleanup stage begins with the world's evidence out. *)
LEMMA EvidenceThrough == "export_evidence_volume" \in CallsThrough(14)
                         /\ "artifacts_export" \in CallsThrough(14)
<1>1. /\ Calls(13) = << "export_evidence_volume" >>
      /\ Calls(14) = << "artifacts_export" >>
  BY CallsOf
<1>2. 1 \in DOMAIN Calls(13) /\ Calls(13)[1] = "export_evidence_volume"
  BY <1>1
<1>3. 1 \in DOMAIN Calls(14) /\ Calls(14)[1] = "artifacts_export"
  BY <1>1
<1> QED
  BY <1>2, <1>3, ThroughIs

-----------------------------------------------------------------------------
(* Founded journals and sound processes.                                   *)

Target == [Operation -> {"absent", "running", "done", "ambiguous"}]

(* Every effect of t is an effect of u. *)
Keeps(t, u) == \A op \in Operation : t[op] = "done" => u[op] = "done"

(* What is journaled are operations. *)
LEMMA JournaledAreOperations == JournaledOps \subseteq Operation
  BY DEF Operation

(* The stage a process works on, while there is one. *)
LEMMA StageType ==
  ASSUME NEW me \in Process, me.snap.phase < Completed
  PROVE  /\ me.snap.phase + 1 \in Phase
         /\ StageOf(me) \in Seq(Operation)
         /\ Len(StageOf(me)) <= 4
<1>1. me.snap.phase + 1 \in Phase
  BY DEF Process, Journal, Phase, Completed
<1> QED
  BY <1>1, CallsType DEF StageOf

(* What was founded stays founded: effects are never undone. *)
LEMMA FoundedKept ==
  ASSUME NEW t, NEW u, Keeps(t, u), NEW j \in Journal, Founded(t, j)
  PROVE  Founded(u, j)
<1>1. CallsThrough(j.phase) \subseteq Operation
  BY ThroughType DEF Journal
<1> QED
  BY <1>1, JournaledAreOperations DEF Founded, Recorded, Keeps

(* A process stays sound as effects appear. *)
LEMMA SoundKept ==
  ASSUME NEW t, NEW u, Keeps(t, u), NEW me \in Process, Sound(t, me)
  PROVE  Sound(u, me)
<1>1. SUFFICES ASSUME me.mode # "off"
               PROVE  Sound(u, me)
  BY DEF Sound
<1>2. me.snap \in Journal /\ me.staged \in Journal /\ me.step \in 1 .. 5
  BY DEF Process
<1>3. ASSUME NEW j, Stands(t, j, me)
      PROVE  Stands(u, j, me)
  BY <1>3, StageType DEF Stands, Recorded, Keeps
<1>4. ASSUME me.snap.phase < Completed, me.step <= Len(StageOf(me)), NEW j,
             Recorded(t, j, StageOf(me)[me.step])
      PROVE  Recorded(u, j, StageOf(me)[me.step])
  BY <1>2, <1>4, StageType DEF Recorded, Keeps
<1>5. Founded(t, me.snap) => Founded(u, me.snap)
  BY <1>2, FoundedKept
<1>6. Founded(t, me.staged) => Founded(u, me.staged)
  BY <1>2, FoundedKept
<1>7. me.sequel \in {"call", "next"} /\ Stands(t, me.staged, me) => me.snap.phase < Completed
  BY DEF Stands
<1> QED
  BY <1>1, <1>3, <1>4, <1>5, <1>6, <1>7 DEF Sound

(* Recording what was observed of an operation. *)
LEMMA ObservedFounded ==
  ASSUME NEW t, NEW j \in Journal, Founded(t, j),
         NEW op \in JournaledOps, NEW s \in OpState,
         IF s = "completed" THEN t[op] = "done" ELSE j.ops[op] # "completed"
  PROVE  /\ Observed(j, op, s) \in Journal
         /\ Observed(j, op, s).phase = j.phase
         /\ Observed(j, op, s).ops[op] = s
         /\ Founded(t, Observed(j, op, s))
         /\ \A o : Recorded(t, j, o) => Recorded(t, Observed(j, op, s), o)
<1> DEFINE k == Observed(j, op, s)
<1>1. /\ k \in Journal
      /\ k.phase = j.phase
      /\ k.ops[op] = s
      /\ \A o \in JournaledOps : o # op => k.ops[o] = j.ops[o]
  BY DEF Observed, Journal
<1> HIDE DEF k
<1>2. ASSUME NEW o, Recorded(t, j, o)
      PROVE  Recorded(t, k, o)
  BY <1>1, <1>2 DEF Recorded
<1>3. Founded(t, k)
  BY <1>1, <1>2 DEF Founded
<1> QED
  BY <1>1, <1>2, <1>3 DEF k

(* Appending the phase whose calls are all recorded. *)
LEMMA AppendFounded ==
  ASSUME NEW t, NEW me \in Process, Founded(t, me.snap), Stands(t, me.snap, me),
         me.step > Len(StageOf(me))
  PROVE  AppendPhase(me.snap) \in Journal /\ Founded(t, AppendPhase(me.snap))
<1> DEFINE k == AppendPhase(me.snap)
<1>0. me.snap \in Journal /\ me.snap.phase \in Nat /\ me.snap.phase < Completed
  BY DEF Process, Journal, Phase, Stands
<1>1. k \in Journal /\ k.phase = me.snap.phase + 1 /\ k.ops = me.snap.ops
  BY StageType, <1>0 DEF Stands, Journal, AppendPhase
<1> HIDE DEF k
<1>2. StageOf(me) \in Seq(Operation) /\ me.step \in 1 .. 5
  BY <1>0, StageType DEF Process
<1>3. \A n \in DOMAIN StageOf(me) : n < me.step
  BY <1>2
<1>4. ASSUME NEW op \in CallsThrough(k.phase)
      PROVE  Recorded(t, me.snap, op)
  BY <1>0, <1>1, <1>3, ThroughNext DEF Stands, Founded, StageOf
<1>5. \A op : Recorded(t, me.snap, op) => Recorded(t, k, op)
  BY <1>1 DEF Recorded
<1> QED
  BY <1>1, <1>4, <1>5 DEF Founded, k

(* Marking a journal recoverable changes nothing it stands on. *)
LEMMA RecoverableFounded ==
  ASSUME NEW t, NEW j \in Journal, Founded(t, j)
  PROVE  MarkRecoverable(j) \in Journal /\ Founded(t, MarkRecoverable(j))
  BY DEF MarkRecoverable, Journal, Founded, Recorded

-----------------------------------------------------------------------------
(* Steps of one process.                                                   *)

ProcType == [Procs -> Process]

(* The parts of the invariant, of one process. *)
LEMMA InvParts ==
  ASSUME Inv
  PROVE  /\ journal \in Journal
         /\ target \in Target
         /\ proc \in ProcType
         /\ spoilt \subseteq Operation
         /\ Founded(target, journal)
         /\ \A p \in Procs : proc[p] \in Process /\ Sound(target, proc[p])
  BY DEF Inv, TypeOK, Target, ProcType

(* A step of one process that changes nothing but that process. *)
LEMMA LocalStep ==
  ASSUME Inv, NEW p \in Procs, NEW me \in Process, Sound(target, me),
         proc' = [proc EXCEPT ![p] = me],
         UNCHANGED << journal, target, world >>, spoilt' \subseteq Operation,
         faults' \in 0 .. MaxFaults
  PROVE  Inv'
<1>1. TypeOK'
  BY DEF Inv, TypeOK
<1>2. \A q \in Procs : Sound(target', proc'[q])
  BY InvParts DEF ProcType
<1> QED
  BY <1>1, <1>2 DEF Inv

(* ... that only changes its mode. *)
LEMMA GoesStep ==
  ASSUME Inv, NEW p \in Procs, NEW mode \in Mode \ Writing, Goes(p, mode),
         proc[p].mode # "off",
         mode \in {"work", "calling", "waiting"} => Stands(target, proc[p].snap, proc[p]),
         mode \in {"calling", "waiting"} => Pending(proc[p].snap, proc[p]),
         UNCHANGED << journal, target, world, spoilt >>, faults' \in 0 .. MaxFaults
  PROVE  Inv'
<1> DEFINE me == [proc[p] EXCEPT !.mode = mode]
<1>0. proc[p] \in Process /\ Sound(target, proc[p])
  BY InvParts
<1>1. me \in Process /\ me.mode = mode /\ me.snap = proc[p].snap /\ me.step = proc[p].step
  BY <1>0 DEF Process
<1>2. proc' = [proc EXCEPT ![p] = me]
  BY DEF Goes
<1> HIDE DEF me
<1>3. Sound(target, me)
  BY <1>0, <1>1 DEF Sound, Stands, Pending, StageOf
<1> QED
  BY <1>1, <1>2, <1>3, InvParts, LocalStep

(* ... that starts to replace the journal. *)
LEMMA ReplaceStep ==
  ASSUME Inv, NEW p \in Procs, NEW next \in Journal, NEW sequel \in Sequel,
         Replace(p, next, sequel), proc[p].mode # "off",
         Founded(target, next),
         sequel \in {"call", "next"} =>
            /\ next.phase = proc[p].snap.phase
            /\ proc[p].step <= Len(StageOf(proc[p]))
            /\ Stands(target, next, proc[p]),
         sequel = "call" => Pending(next, proc[p]),
         sequel = "next" => Recorded(target, next, StageOf(proc[p])[proc[p].step]),
         UNCHANGED << journal, target, world >>, spoilt' \subseteq Operation,
         faults' \in 0 .. MaxFaults
  PROVE  Inv'
<1> DEFINE me == [proc[p] EXCEPT !.mode = "replacing", !.staged = next, !.sequel = sequel]
<1>0. proc[p] \in Process /\ Sound(target, proc[p])
  BY InvParts
<1>1. /\ me \in Process
      /\ me.mode = "replacing" /\ me.staged = next /\ me.sequel = sequel
      /\ me.snap = proc[p].snap /\ me.step = proc[p].step
  BY <1>0 DEF Process, Mode
<1>2. proc' = [proc EXCEPT ![p] = me]
  BY DEF Replace
<1> HIDE DEF me
<1>3. Sound(target, me)
  BY <1>0, <1>1 DEF Sound, Stands, Pending, StageOf
<1> QED
  BY <1>1, <1>2, <1>3, LocalStep

(* ... that leaves a recorded call behind. *)
LEMMA NextStepStep ==
  ASSUME Inv, NEW p \in Procs, NextStep(p), proc[p].mode # "off",
         Stands(target, proc[p].snap, proc[p]),
         proc[p].step <= Len(StageOf(proc[p])),
         Recorded(target, proc[p].snap, StageOf(proc[p])[proc[p].step]),
         UNCHANGED << journal, target, world, spoilt >>, faults' \in 0 .. MaxFaults
  PROVE  Inv'
<1> DEFINE me == [proc[p] EXCEPT !.mode = "work", !.step = @ + 1]
<1>0. proc[p] \in Process /\ Sound(target, proc[p])
  BY InvParts
<1>1. /\ StageOf(proc[p]) \in Seq(Operation) /\ Len(StageOf(proc[p])) <= 4
      /\ proc[p].step \in 1 .. 5
  BY <1>0, StageType DEF Stands, Process
<1>2. /\ me \in Process
      /\ me.mode = "work" /\ me.step = proc[p].step + 1 /\ me.snap = proc[p].snap
  <2>1. proc[p].step + 1 \in 1 .. 5
    BY <1>1
  <2> QED
    BY <1>0, <2>1 DEF Process, Mode
<1>3. proc' = [proc EXCEPT ![p] = me]
  BY DEF NextStep
<1> HIDE DEF me
<1>4. StageOf(me) = StageOf(proc[p])
  BY <1>2 DEF StageOf
<1>5. Stands(target, me.snap, me)
  BY <1>1, <1>2, <1>4 DEF Stands
<1>6. Sound(target, me)
  BY <1>0, <1>2, <1>5 DEF Sound, Writing
<1> QED
  BY <1>2, <1>3, <1>6, InvParts, LocalStep

(* A process that has ended is a process. *)
LEMMA OffType == Off \in Process
<1>1. Requested \in Journal
  BY DEF Requested, Journal, Phase, Completed, OpState
<1> QED
  BY <1>1 DEF Off, Process, Mode, Sequel

(* ... that ends it. *)
LEMMA StopsStep ==
  ASSUME Inv, NEW p \in Procs, Stops(p),
         UNCHANGED << journal, target, world, spoilt >>, faults' \in 0 .. MaxFaults
  PROVE  Inv'
<1>1. Sound(target, Off)
  BY DEF Sound, Off
<1> QED
  BY <1>1, OffType, InvParts, LocalStep DEF Stops

-----------------------------------------------------------------------------
(* Every action keeps the invariant.                                       *)

(* A process that wants a call stands before it. *)
LEMMA WantsAt ==
  ASSUME Inv, NEW p \in Procs, NEW op \in Operation, Wants(p, op)
  PROVE  /\ proc[p] \in Process
         /\ proc[p].mode = "work"
         /\ proc[p].snap \in Journal
         /\ Founded(target, proc[p].snap)
         /\ Stands(target, proc[p].snap, proc[p])
         /\ proc[p].step <= Len(StageOf(proc[p]))
         /\ op = StageOf(proc[p])[proc[p].step]
<1>1. proc[p] \in Process /\ Sound(target, proc[p]) /\ proc[p].mode = "work"
  BY InvParts DEF Wants
<1>2. Stands(target, proc[p].snap, proc[p]) /\ Founded(target, proc[p].snap)
  BY <1>1 DEF Sound
<1>3. StageOf(proc[p]) \in Seq(Operation) /\ proc[p].step \in 1 .. 5
  BY <1>1, <1>2, StageType DEF Stands, Process
<1>4. ~(proc[p].step > Len(StageOf(proc[p]))) /\ op = StageOf(proc[p])[proc[p].step]
  BY DEF Wants, StageDone, NextCall, Stage, StageOf
<1> QED
  BY <1>1, <1>2, <1>3, <1>4 DEF Process

(* So does one that is calling, and the call has no receipt. *)
LEMMA CallingAt ==
  ASSUME Inv, NEW p \in Procs, proc[p].mode \in {"calling", "waiting"}
  PROVE  /\ proc[p] \in Process
         /\ proc[p].snap \in Journal
         /\ Founded(target, proc[p].snap)
         /\ Stands(target, proc[p].snap, proc[p])
         /\ Pending(proc[p].snap, proc[p])
         /\ proc[p].step \in DOMAIN StageOf(proc[p])
         /\ NextCall(p) = StageOf(proc[p])[proc[p].step]
         /\ NextCall(p) \in Operation
<1>1. proc[p] \in Process /\ Sound(target, proc[p]) /\ proc[p].mode # "off"
  BY InvParts
<1>2. /\ Stands(target, proc[p].snap, proc[p])
      /\ Founded(target, proc[p].snap)
      /\ Pending(proc[p].snap, proc[p])
  BY <1>1 DEF Sound
<1>3. StageOf(proc[p]) \in Seq(Operation) /\ proc[p].step \in 1 .. 5
  BY <1>1, <1>2, StageType DEF Stands, Process
<1>4. NextCall(p) = StageOf(proc[p])[proc[p].step]
  BY DEF NextCall, Stage, StageOf
<1>5. proc[p].step \in DOMAIN StageOf(proc[p])
  BY <1>2, <1>3 DEF Pending
<1> QED
  BY <1>1, <1>2, <1>3, <1>4, <1>5 DEF Process

(* Faults stay within their bound. *)
LEMMA FaultsTyped ==
  ASSUME Inv
  PROVE  /\ faults \in 0 .. MaxFaults /\ (Fault => faults' \in 0 .. MaxFaults)
         /\ spoilt \subseteq Operation
  BY FaultsAreBounded DEF Inv, TypeOK, Fault

(* A process starts on what the file says. *)
LEMMA StartKeeps ==
  ASSUME Inv, NEW p \in Procs, Start(p)
  PROVE  Inv'
<1> DEFINE me == [Off EXCEPT !.mode = "work", !.snap = journal,
                             !.staged = journal, !.current = TRUE]
<1>1. journal \in Journal /\ Founded(target, journal) /\ journal.phase < Completed
  BY InvParts DEF Start
<1>2. /\ me \in Process
      /\ me.mode = "work" /\ me.snap = journal /\ me.step = 1
  BY <1>1, OffType DEF Off, Process, Mode
<1>3. proc' = [proc EXCEPT ![p] = me]
  BY DEF Start
<1> HIDE DEF me
<1>4. StageOf(me) \in Seq(Operation)
  BY <1>1, <1>2, StageType
<1>5. Stands(target, me.snap, me)
  BY <1>1, <1>2, <1>4 DEF Stands
<1>6. Sound(target, me)
  BY <1>1, <1>2, <1>5 DEF Sound, Writing
<1> QED
  BY <1>2, <1>3, <1>6, FaultsTyped, LocalStep DEF Start

(* The phase whose calls are all made is appended. *)
LEMMA CommitKeeps ==
  ASSUME Inv, NEW p \in Procs, Commit(p)
  PROVE  Inv'
<1>1. proc[p] \in Process /\ Sound(target, proc[p]) /\ proc[p].mode = "work"
  BY InvParts DEF Commit
<1>2. Founded(target, proc[p].snap) /\ Stands(target, proc[p].snap, proc[p])
  BY <1>1 DEF Sound
<1>3. proc[p].step > Len(StageOf(proc[p]))
  BY DEF Commit, StageDone, Stage, StageOf
<1>4. AppendPhase(proc[p].snap) \in Journal /\ Founded(target, AppendPhase(proc[p].snap))
  BY <1>1, <1>2, <1>3, AppendFounded
<1>5. spoilt' \subseteq Operation
  BY FaultsTyped DEF Commit, WithLaidOut, Operation, JournaledOps, TargetOps
<1> QED
  BY <1>1, <1>4, <1>5, FaultsTyped, ReplaceStep DEF Commit, Sequel

(* The evidence cannot be laid out. *)
LEMMA CannotLayOutKeeps ==
  ASSUME Inv, NEW p \in Procs, CannotLayOut(p)
  PROVE  Inv'
<1>1. faults' \in 0 .. MaxFaults
  BY FaultsTyped DEF CannotLayOut
<1> QED
  BY <1>1, GoesStep DEF CannotLayOut, Mode, Writing

(* A process that lost the file leaves. *)
LEMMA OvertakenKeeps ==
  ASSUME Inv, NEW p \in Procs, Overtaken(p)
  PROVE  Inv'
  BY FaultsTyped, GoesStep DEF Overtaken, Mode, Writing

(* A call whose receipt is in the journal is passed over. *)
LEMMA HasReceiptKeeps ==
  ASSUME Inv, NEW p \in Procs, NEW op \in Operation, HasReceipt(p, op)
  PROVE  Inv'
<1>1. Wants(p, op) /\ op \in JournaledOps /\ proc[p].snap.ops[op] = "completed"
  BY DEF HasReceipt
<1>2. Recorded(target, proc[p].snap, op)
  BY <1>1, WantsAt DEF Founded, Recorded
<1>3. CASE NextStep(p)
  BY <1>1, <1>2, <1>3, WantsAt, FaultsTyped, NextStepStep DEF HasReceipt
<1>4. CASE Goes(p, "failing")
  BY <1>1, <1>4, WantsAt, FaultsTyped, GoesStep DEF HasReceipt, Mode, Writing
<1> QED
  BY <1>3, <1>4 DEF HasReceipt

(* Writing down what was observed of the wanted call. *)
LEMMA ObserveKeeps ==
  ASSUME Inv, NEW p \in Procs, NEW op \in JournaledOps,
         NEW s \in OpState, NEW sequel \in {"call", "next", "fail"},
         proc[p].mode \in {"work", "calling", "waiting"},
         op = StageOf(proc[p])[proc[p].step], proc[p].step <= Len(StageOf(proc[p])),
         IF s = "completed" THEN target[op] = "done" ELSE proc[p].snap.ops[op] # "completed",
         sequel = "call" => s # "completed",
         sequel = "next" => s = "completed",
         Replace(p, Observed(proc[p].snap, op, s), sequel),
         UNCHANGED << journal, target, world, spoilt >>, faults' \in 0 .. MaxFaults
  PROVE  Inv'
<1> DEFINE next == Observed(proc[p].snap, op, s)
<1>1. proc[p] \in Process /\ Sound(target, proc[p]) /\ proc[p].mode # "off"
  BY InvParts
<1>2. /\ proc[p].snap \in Journal /\ Founded(target, proc[p].snap)
      /\ Stands(target, proc[p].snap, proc[p])
  BY <1>1 DEF Sound, Process
<1>3. /\ next \in Journal /\ next.phase = proc[p].snap.phase /\ next.ops[op] = s
      /\ Founded(target, next)
      /\ \A o : Recorded(target, proc[p].snap, o) => Recorded(target, next, o)
  BY <1>2, ObservedFounded
<1> HIDE DEF next
<1>4. Stands(target, next, proc[p])
  BY <1>2, <1>3 DEF Stands
<1>5. sequel = "call" => Pending(next, proc[p])
  BY <1>3 DEF Pending
<1>6. sequel = "next" => Recorded(target, next, op)
  BY <1>3 DEF Recorded
<1>7. Replace(p, next, sequel)
  BY DEF next
<1>8. sequel \in Sequel
  BY DEF Sequel
<1> QED
  BY <1>1, <1>3, <1>4, <1>5, <1>6, <1>7, <1>8, InvParts, ReplaceStep

(* A receipt is recorded or refused. *)
LEMMA ReceivesKeeps ==
  ASSUME Inv, NEW p \in Procs, NEW op \in JournaledOps, Receives(p, op),
         proc[p].mode \in {"work", "waiting"}, target[op] = "done",
         op = StageOf(proc[p])[proc[p].step], proc[p].step <= Len(StageOf(proc[p])),
         UNCHANGED << journal, target, world, spoilt, faults >>
  PROVE  Inv'
<1>1. ASSUME NEW sequel \in {"next", "fail"},
             Replace(p, Observed(proc[p].snap, op, "completed"), sequel)
      PROVE  Inv'
  BY <1>1, FaultsTyped, ObserveKeeps DEF OpState
<1>2. CASE Goes(p, "failing")
  BY <1>2, FaultsTyped, GoesStep DEF Mode, Writing
<1> QED
  BY <1>1, <1>2 DEF Receives

(* The intent is written before the call. *)
LEMMA IntendKeeps ==
  ASSUME Inv, NEW p \in Procs, NEW op \in Operation, Intend(p, op)
  PROVE  Inv'
<1>1. /\ Wants(p, op) /\ op \in JournaledOps /\ proc[p].snap.ops[op] = "none"
      /\ Replace(p, Observed(proc[p].snap, op, "intent_durable"), "call")
      /\ UNCHANGED << journal, target, world, spoilt, faults >>
  BY DEF Intend
<1> QED
  BY <1>1, WantsAt, FaultsTyped, ObserveKeeps DEF OpState

(* A journaled operation is looked up. *)
LEMMA LookUpKeeps ==
  ASSUME Inv, NEW p \in Procs, NEW op \in Operation, LookUp(p, op)
  PROVE  Inv'
<1>1. /\ Wants(p, op) /\ op \in JournaledOps /\ proc[p].snap.ops[op] # "completed"
      /\ UNCHANGED << journal, target, world, spoilt, faults >>
  BY DEF LookUp, JournaledOps
<1>2. CASE target[op] = "done" /\ Receives(p, op)
  BY <1>1, <1>2, WantsAt, ReceivesKeeps
<1>3. CASE Replace(p, Observed(proc[p].snap, op, "pending"), "fail")
  BY <1>1, <1>3, WantsAt, FaultsTyped, ObserveKeeps DEF OpState
<1>4. CASE Replace(p, Observed(proc[p].snap, op, "not_applied"), "call")
  BY <1>1, <1>4, WantsAt, FaultsTyped, ObserveKeeps DEF OpState
<1> QED
  BY <1>2, <1>3, <1>4 DEF LookUp

(* The preparation is asked for again. *)
LEMMA PrepareAgainKeeps ==
  ASSUME Inv, NEW p \in Procs, NEW op \in Operation, PrepareAgain(p, op)
  PROVE  Inv'
<1>1. /\ Wants(p, op) /\ proc[p].snap.ops[op] # "completed" /\ Goes(p, "calling")
      /\ UNCHANGED << journal, target, world, spoilt, faults >>
  BY DEF PrepareAgain
<1>2. Pending(proc[p].snap, proc[p])
  BY <1>1, WantsAt DEF Pending
<1> QED
  BY <1>1, <1>2, WantsAt, FaultsTyped, GoesStep DEF Mode, Writing

(* A lifecycle command is looked up. *)
LEMMA LifecycleLookUpKeeps ==
  ASSUME Inv, NEW p \in Procs, NEW op \in Operation, LifecycleLookUp(p, op)
  PROVE  Inv'
<1>1. /\ Wants(p, op) /\ op \notin JournaledOps
      /\ UNCHANGED << journal, target, world, spoilt, faults >>
  BY DEF LifecycleLookUp, LifecycleOps, JournaledOps, TargetOps, Preparation
<1>2. CASE target[op] = "done" /\ NextStep(p)
  BY <1>1, <1>2, WantsAt, FaultsTyped, NextStepStep DEF Recorded
<1>3. CASE Goes(p, "calling")
  BY <1>1, WantsAt, <1>3, FaultsTyped, GoesStep DEF Pending, Mode, Writing
<1>4. CASE Goes(p, "failing")
  BY <1>1, <1>4, WantsAt, FaultsTyped, GoesStep DEF Mode, Writing
<1> QED
  BY <1>2, <1>3, <1>4 DEF LifecycleLookUp

(* A query is asked. *)
LEMMA AskDirectlyKeeps ==
  ASSUME Inv, NEW p \in Procs, NEW op \in Operation, AskDirectly(p, op)
  PROVE  Inv'
<1>1. /\ Wants(p, op) /\ op \notin JournaledOps /\ Goes(p, "calling")
      /\ UNCHANGED << journal, target, world, spoilt, faults >>
  BY DEF AskDirectly, DirectOps, JournaledOps, TargetOps, Preparation
<1>2. Pending(proc[p].snap, proc[p])
  BY <1>1, WantsAt DEF Pending
<1> QED
  BY <1>1, <1>2, WantsAt, FaultsTyped, GoesStep DEF Mode, Writing

(* A lookup fails. *)
LEMMA LookUpFailsKeeps ==
  ASSUME Inv, NEW p \in Procs, NEW op \in Operation, LookUpFails(p, op)
  PROVE  Inv'
<1>1. /\ proc[p].mode = "work" /\ Goes(p, "failing")
      /\ UNCHANGED << journal, target, world, spoilt >>
  BY DEF LookUpFails, Wants
<1>2. faults' \in 0 .. MaxFaults
  BY FaultsTyped DEF LookUpFails
<1> QED
  BY <1>1, <1>2, GoesStep DEF Mode, Writing

(* What was delivered in order stays so as more effects appear. *)
LEMMA OrderKept ==
  ASSUME NEW t, NEW u, Keeps(t, u), NEW op, Ordered(t, op)
  PROVE  Ordered(u, op)
<1>0. PICK k \in 1 .. Completed : \E i \in DOMAIN Calls(k) :
        /\ op = Calls(k)[i]
        /\ \A o \in CallsThrough(k - 1) : t[o] = "done"
        /\ \A n \in DOMAIN Calls(k) : n < i => t[Calls(k)[n]] = "done"
  BY DEF Ordered
<1>1. PICK i \in DOMAIN Calls(k) :
        /\ op = Calls(k)[i]
        /\ \A o \in CallsThrough(k - 1) : t[o] = "done"
        /\ \A n \in DOMAIN Calls(k) : n < i => t[Calls(k)[n]] = "done"
  BY <1>0
<1>2. k \in Phase /\ k - 1 \in Phase
  BY DEF Phase, Completed
<1>3. CallsThrough(k - 1) \subseteq Operation /\ Calls(k) \in Seq(Operation)
  BY <1>2, ThroughType, CallsType
<1>4. /\ \A o \in CallsThrough(k - 1) : u[o] = "done"
      /\ \A n \in DOMAIN Calls(k) : n < i => u[Calls(k)[n]] = "done"
  BY <1>1, <1>3 DEF Keeps
<1> QED
  BY <1>1, <1>4 DEF Ordered

(* Spawnfile moves on under processes that stay where they are. *)
LEMMA TargetStep ==
  ASSUME Inv, target' \in Target, Keeps(target, target'),
         \A op \in Operation : target'[op] # "absent" => target[op] # "absent",
         UNCHANGED << journal, proc >>, spoilt' \subseteq Operation,
         world' \in {"running", "completed", "failed"}, faults' \in 0 .. MaxFaults
  PROVE  Inv'
<1>1. TypeOK'
  BY DEF Inv, TypeOK, Target
<1>2. Founded(target', journal')
  BY InvParts, FoundedKept
<1>3. \A p \in Procs : Sound(target', proc'[p])
  BY InvParts, SoundKept
<1>4. InOrder(target')
  BY OrderKept DEF Inv, InOrder
<1> QED
  BY <1>1, <1>2, <1>3, <1>4 DEF Inv

(* The call reaches Spawnfile, in the order of the lifecycle. *)
LEMMA DeliverKeeps ==
  ASSUME Inv, NEW p \in Procs, Deliver(p)
  PROVE  Inv'
<1> DEFINE op == NextCall(p)
           me == [proc[p] EXCEPT !.mode = "waiting"]
<1>0. proc[p].mode = "calling" /\ proc[p] \in Process /\ Sound(target, proc[p])
  BY InvParts DEF Deliver
<1>1. /\ proc[p].snap \in Journal /\ Founded(target, proc[p].snap)
      /\ Stands(target, proc[p].snap, proc[p]) /\ Pending(proc[p].snap, proc[p])
      /\ proc[p].step \in DOMAIN StageOf(proc[p])
      /\ op = StageOf(proc[p])[proc[p].step] /\ op \in Operation
  BY <1>0, CallingAt
<1>2. target' = [target EXCEPT ![op] = IF target[op] = "absent" THEN "running" ELSE target[op]]
  BY DEF Deliver
<1>3. target' \in Target /\ Keeps(target, target')
  BY <1>1, <1>2, InvParts DEF Target, Keeps
<1>4. /\ me \in Process /\ me.mode = "waiting"
      /\ me.snap = proc[p].snap /\ me.step = proc[p].step
      /\ proc' = [proc EXCEPT ![p] = me]
  BY <1>0 DEF Process, Mode, Deliver, Goes
<1> HIDE DEF me
<1>5. Sound(target, me)
  BY <1>0, <1>1, <1>4 DEF Sound, Stands, Pending, StageOf, Writing
<1>6. TypeOK'
  BY <1>3, <1>4 DEF Inv, TypeOK, Deliver, Target
<1>7. Founded(target', journal')
  BY <1>3, InvParts, FoundedKept DEF Deliver
<1>8. \A q \in Procs : Sound(target', proc'[q])
  BY <1>4, <1>5, InvParts, <1>3, SoundKept DEF ProcType
<1>9. Ordered(target, op)
  <2> DEFINE k == proc[p].snap.phase + 1
  <2>1. k \in 1 .. Completed /\ k - 1 = proc[p].snap.phase /\ StageOf(proc[p]) = Calls(k)
    <3>1. proc[p].snap.phase \in Phase
      BY <1>1 DEF Journal
    <3>2. proc[p].snap.phase < Completed
      BY <1>1 DEF Stands
    <3> QED
      BY <3>1, <3>2 DEF Phase, StageOf, Completed
  <2>2. \A o \in CallsThrough(k - 1) : target[o] = "done"
    BY <1>1, <2>1 DEF Founded, Recorded
  <2>3. \A n \in DOMAIN Calls(k) : n < proc[p].step => target[Calls(k)[n]] = "done"
    BY <1>1, <2>1 DEF Stands, Recorded
  <2> HIDE DEF k
  <2> QED
    BY <1>1, <2>1, <2>2, <2>3 DEF Ordered
<1>10. InOrder(target')
  BY <1>2, InvParts, <1>3, <1>9, OrderKept DEF Target, Inv, InOrder
<1> QED
  BY <1>6, <1>7, <1>8, <1>10 DEF Inv

(* The process turns to its failure. *)
LEMMA ThrowsKeeps ==
  ASSUME Inv, NEW p \in Procs, proc[p].mode \in {"calling", "waiting"}, Throws(p),
         UNCHANGED << journal, target, world, spoilt >>, faults' \in 0 .. MaxFaults
  PROVE  Inv'
<1>1. CASE NextCall(p) \in JournaledOps
  BY <1>1, CallingAt, ObserveKeeps DEF Throws, Pending, OpState
<1>2. CASE NextCall(p) \notin JournaledOps
  BY <1>2, GoesStep DEF Throws, Mode, Writing
<1> QED
  BY <1>1, <1>2

(* The call returns with its effect. *)
LEMMA ReturnKeeps ==
  ASSUME Inv, NEW p \in Procs, Return(p)
  PROVE  Inv'
<1> DEFINE op == NextCall(p)
<1>1. /\ proc[p].mode = "waiting" /\ target[op] = "done"
      /\ UNCHANGED << journal, target, world, spoilt, faults >>
  BY DEF Return
<1>2. /\ Stands(target, proc[p].snap, proc[p]) /\ Pending(proc[p].snap, proc[p])
      /\ proc[p].step <= Len(StageOf(proc[p]))
      /\ op = StageOf(proc[p])[proc[p].step]
  BY <1>1, CallingAt DEF Pending
<1>3. CASE op \in JournaledOps /\ Receives(p, op)
  BY <1>1, <1>2, <1>3, ReceivesKeeps
<1>4. CASE op \notin JournaledOps /\ NextStep(p)
  BY <1>1, <1>2, <1>4, FaultsTyped, NextStepStep DEF Recorded
<1>5. CASE Goes(p, "failing")
  BY <1>1, <1>5, FaultsTyped, GoesStep DEF Mode, Writing
<1> QED
  BY <1>3, <1>4, <1>5 DEF Return

(* The call returns without one. *)
LEMMA CallEndsKeeps ==
  ASSUME Inv, NEW p \in Procs, CallEnds(p) \/ CallBreaks(p)
  PROVE  Inv'
<1>1. /\ proc[p].mode \in {"calling", "waiting"} /\ Throws(p)
      /\ UNCHANGED << journal, target, world, spoilt >>
  BY DEF CallEnds, CallBreaks
<1>2. faults' \in 0 .. MaxFaults
  BY FaultsTyped DEF CallEnds, CallBreaks
<1> QED
  BY <1>1, <1>2, ThrowsKeeps

(* The receipt does not verify. *)
LEMMA ReceiptRejectedKeeps ==
  ASSUME Inv, NEW p \in Procs, ReceiptRejected(p)
  PROVE  Inv'
  BY FaultsTyped, GoesStep DEF ReceiptRejected, Mode, Writing

(* The replacement moves on to its next step, unless somebody else's came first. *)
LEMMA CheckReplaceKeeps ==
  ASSUME Inv, NEW p \in Procs, CheckReplace(p)
  PROVE  Inv'
<1>1. /\ proc[p].mode = "replacing"
      /\ UNCHANGED << journal, target, world, spoilt, faults >>
  BY DEF CheckReplace
<1>2. CASE Goes(p, "renaming")
  <2> DEFINE me == [proc[p] EXCEPT !.mode = "renaming"]
  <2>0. proc[p] \in Process /\ Sound(target, proc[p])
    BY InvParts
  <2>1. /\ me \in Process /\ me.mode = "renaming" /\ me.snap = proc[p].snap
        /\ me.step = proc[p].step /\ me.staged = proc[p].staged
        /\ me.sequel = proc[p].sequel
    BY <2>0 DEF Process, Mode
  <2>2. proc' = [proc EXCEPT ![p] = me]
    BY <1>2 DEF Goes
  <2> HIDE DEF me
  <2>3. Sound(target, me)
    BY <1>1, <2>0, <2>1 DEF Sound, Stands, Pending, StageOf, Writing
  <2> QED
    BY <1>1, <2>1, <2>2, <2>3, FaultsTyped, LocalStep
<1>3. CASE Goes(p, "failing")
  BY <1>1, <1>3, FaultsTyped, GoesStep DEF Mode, Writing
<1>4. CASE Stops(p)
  BY <1>1, <1>4, FaultsTyped, StopsStep
<1> QED
  BY <1>2, <1>3, <1>4 DEF CheckReplace

(* The replacement becomes the file: it is founded, whichever generation it
   overwrites. *)
LEMMA RenameKeeps ==
  ASSUME Inv, NEW p \in Procs, Rename(p)
  PROVE  Inv'
<1>0. proc[p].mode = "renaming" /\ proc[p] \in Process /\ Sound(target, proc[p])
  BY InvParts DEF Rename
<1>1. journal' \in Journal /\ Founded(target', journal')
  BY <1>0, ZenonT(60) DEF Rename, Sound, Writing, Process
<1>2. ASSUME NEW q \in Procs
      PROVE  proc'[q] \in Process /\ Sound(target', proc'[q])
  <2>0. proc[q] \in Process /\ Sound(target, proc[q]) /\ target' = target
    BY InvParts DEF Rename
  <2>1. /\ proc'[q] \in Process
        /\ proc'[q].snap = proc[q].snap /\ proc'[q].step = proc[q].step
        /\ proc'[q].staged = proc[q].staged /\ proc'[q].sequel = proc[q].sequel
        /\ IF q = p THEN proc'[q].mode = "confirming" ELSE proc'[q].mode = proc[q].mode
    BY <2>0 DEF Rename, Process, Mode
  <2> QED
    BY <1>0, <2>0, <2>1 DEF Sound, Stands, Pending, StageOf, Writing
<1>3. proc' \in ProcType
  BY <1>2 DEF Rename, ProcType
<1>4. TypeOK'
  BY <1>1, <1>3 DEF Inv, TypeOK, Rename, ProcType
<1>5. InOrder(target')
  BY DEF Inv, Rename
<1> QED
  BY <1>1, <1>2, <1>4, <1>5 DEF Inv

(* What was written is what the session now knows. *)
LEMMA ConfirmKeeps ==
  ASSUME Inv, NEW p \in Procs, Confirm(p)
  PROVE  Inv'
<1> DEFINE was == proc[p]
           is == [was EXCEPT !.snap = was.staged]
<1>1. /\ was.mode = "confirming" /\ was \in Process /\ Sound(target, was)
      /\ UNCHANGED << journal, target, world, spoilt, faults >>
  BY InvParts DEF Confirm
<1>2. /\ was.staged \in Journal /\ Founded(target, was.staged)
      /\ was.staged.phase \in Phase /\ was.step \in 1 .. 5
  BY <1>1 DEF Sound, Writing, Process, Journal
<1>3. was.sequel \in {"call", "next"} =>
        /\ was.staged.phase = was.snap.phase
        /\ was.step <= Len(StageOf(was))
        /\ Stands(target, was.staged, was)
  BY <1>1 DEF Sound, Writing
<1>4. CASE Stops(p)
  BY <1>1, <1>4, FaultsTyped, StopsStep
<1>5. CASE Goes(p, "failing")
  BY <1>1, <1>5, FaultsTyped, GoesStep DEF Mode, Writing
<1>6. CASE was.sequel = "call" /\ proc' = [proc EXCEPT ![p] = [is EXCEPT !.mode = "calling"]]
  <2> DEFINE me == [is EXCEPT !.mode = "calling"]
  <2>1. /\ me \in Process /\ me.mode = "calling"
        /\ me.snap = was.staged /\ me.step = was.step
    BY <1>1, <1>2 DEF Process, Mode
  <2>2. proc' = [proc EXCEPT ![p] = me]
    BY <1>6
  <2> HIDE DEF me
  <2>3. StageOf(me) = StageOf(was) /\ Pending(was.staged, was)
    BY <1>1, <1>3, <1>6, <2>1 DEF StageOf, Sound, Writing
  <2>4. Stands(target, me.snap, me) /\ Pending(me.snap, me)
    BY <1>3, <1>6, <2>1, <2>3 DEF Stands, Pending
  <2>5. Sound(target, me)
    BY <1>2, <2>1, <2>4 DEF Sound, Writing
  <2> QED
    BY <1>1, <2>1, <2>2, <2>5, FaultsTyped, LocalStep
<1>7. CASE was.sequel = "next"
           /\ proc' = [proc EXCEPT ![p] = [is EXCEPT !.mode = "work", !.step = @ + 1]]
  <2> DEFINE me == [is EXCEPT !.mode = "work", !.step = @ + 1]
  <2>0. /\ StageOf(was) \in Seq(Operation) /\ Len(StageOf(was)) <= 4
        /\ Recorded(target, was.staged, StageOf(was)[was.step])
    BY <1>1, <1>3, <1>7, StageType DEF Stands, Sound, Writing
  <2>1. was.step + 1 \in 1 .. 5
    BY <1>2, <1>3, <1>7, <2>0
  <2>2. /\ me \in Process /\ me.mode = "work"
        /\ me.snap = was.staged /\ me.step = was.step + 1
    BY <1>1, <1>2, <2>1 DEF Process, Mode
  <2>3. proc' = [proc EXCEPT ![p] = me]
    BY <1>7
  <2> HIDE DEF me
  <2>4. StageOf(me) = StageOf(was)
    BY <1>3, <1>7, <2>2 DEF StageOf
  <2>5. \A n \in DOMAIN StageOf(me) : n < me.step => n < was.step \/ n = was.step
    BY <1>2, <2>0, <2>2, <2>4
  <2>6. Stands(target, me.snap, me)
    BY <1>2, <1>3, <1>7, <2>0, <2>2, <2>4, <2>5 DEF Stands
  <2>7. Sound(target, me)
    BY <1>2, <2>2, <2>6 DEF Sound, Writing
  <2> QED
    BY <1>1, <2>2, <2>3, <2>7, FaultsTyped, LocalStep
<1>8. CASE proc' = [proc EXCEPT ![p] = [is EXCEPT !.mode = "failing"]]
  <2> DEFINE me == [is EXCEPT !.mode = "failing"]
  <2>1. me \in Process /\ me.mode = "failing" /\ me.snap = was.staged
    BY <1>1, <1>2 DEF Process, Mode
  <2>2. proc' = [proc EXCEPT ![p] = me]
    BY <1>8
  <2> HIDE DEF me
  <2>3. Sound(target, me)
    BY <1>2, <2>1 DEF Sound, Writing
  <2> QED
    BY <1>1, <2>1, <2>2, <2>3, FaultsTyped, LocalStep
<1>9. CASE was.staged.phase # Completed
           /\ proc' = [proc EXCEPT ![p] = [is EXCEPT !.mode = "work", !.step = 1]]
  <2> DEFINE me == [is EXCEPT !.mode = "work", !.step = 1]
  <2>0. \A n \in 1 .. 5 :
          [is EXCEPT !.mode = "work", !.step = n] \in Process
    BY <1>1, <1>2 DEF Process, Mode
  <2>1. /\ me \in Process /\ me.mode = "work"
        /\ me.snap = was.staged /\ me.step = 1
    BY <1>1, <2>0 DEF Process
  <2>2. proc' = [proc EXCEPT ![p] = me]
    BY <1>9
  <2> HIDE DEF me
  <2>3. me.snap.phase < Completed
    BY <1>2, <1>9, <2>1 DEF Phase, Completed
  <2>4. StageOf(me) \in Seq(Operation)
    BY <2>1, <2>3, StageType
  <2>5. Stands(target, me.snap, me)
    BY <2>1, <2>3, <2>4 DEF Stands
  <2>6. Sound(target, me)
    BY <1>2, <2>1, <2>5 DEF Sound, Writing
  <2> QED
    BY <1>1, <2>1, <2>2, <2>6, FaultsTyped, LocalStep
<1> QED
  BY <1>4, <1>5, <1>6, <1>7, <1>8, <1>9 DEF Confirm

(* The failure is written down, or cannot be. *)
LEMMA GiveUpKeeps ==
  ASSUME Inv, NEW p \in Procs, GiveUp(p)
  PROVE  Inv'
<1>1. /\ proc[p].mode = "failing" /\ proc[p] \in Process /\ Sound(target, proc[p])
      /\ UNCHANGED << journal, target, world, spoilt, faults >>
  BY InvParts DEF GiveUp
<1>2. CASE Replace(p, MarkRecoverable(proc[p].snap), "exit")
  BY <1>1, RecoverableFounded, <1>2, FaultsTyped, ReplaceStep DEF Sound,
     Process, Sequel
<1>3. CASE Stops(p)
  BY <1>1, <1>3, FaultsTyped, StopsStep
<1> QED
  BY <1>2, <1>3 DEF GiveUp

(* A signal only sets a flag. *)
LEMMA InterruptKeeps ==
  ASSUME Inv, NEW p \in Procs, Interrupt(p)
  PROVE  Inv'
<1> DEFINE me == [proc[p] EXCEPT !.signal = TRUE]
<1>0. proc[p] \in Process /\ Sound(target, proc[p])
  BY InvParts
<1>1. /\ me \in Process /\ me.mode = proc[p].mode /\ me.snap = proc[p].snap
      /\ me.step = proc[p].step /\ me.staged = proc[p].staged
      /\ me.sequel = proc[p].sequel
  BY <1>0 DEF Process
<1>2. proc' = [proc EXCEPT ![p] = me]
  BY DEF Interrupt
<1> HIDE DEF me
<1>3. Sound(target, me)
  BY <1>0, <1>1 DEF Sound, Stands, Pending, StageOf
<1> QED
  BY <1>1, <1>2, <1>3, FaultsTyped, LocalStep DEF Interrupt

(* A process that dies leaves only the file. *)
LEMMA CrashKeeps ==
  ASSUME Inv, NEW p \in Procs, Crash(p)
  PROVE  Inv'
  BY FaultsTyped, StopsStep DEF Crash

(* Spawnfile and the world move on. *)
LEMMA SpawnfileKeeps ==
  ASSUME Inv, Spawnfile
  PROVE  Inv'
<1>0. target \in Target /\ world \in {"running", "completed", "failed"}
  BY InvParts DEF Inv, TypeOK
<1>1. ASSUME NEW op \in Operation, TakesEffect(op)
      PROVE  Inv'
  BY <1>0, <1>1, FaultsTyped, TargetStep DEF TakesEffect, Target, Keeps
<1>2. ASSUME NEW op \in Operation, HasNoEffect(op)
      PROVE  Inv'
  BY <1>0, <1>2, FaultsTyped, TargetStep DEF HasNoEffect, Target, Keeps
<1>3. ASSUME WorldEnds
      PROVE  Inv'
  BY <1>0, <1>3, FaultsTyped, TargetStep DEF WorldEnds, Keeps
<1>4. ASSUME NEW op \in Operation, IsSpoilt(op)
      PROVE  Inv'
  BY <1>0, <1>4, FaultsTyped, TargetStep DEF IsSpoilt, Target, Keeps
<1> QED
  BY <1>1, <1>2, <1>3, <1>4 DEF Spawnfile

-----------------------------------------------------------------------------
(* The theorems.                                                           *)

(* The run starts in the invariant. *)
LEMMA InitInv == Init => Inv
<1> SUFFICES ASSUME Init
             PROVE  Inv
  OBVIOUS
<1>1. Requested \in Journal
  BY DEF Requested, Journal, Phase, Completed, OpState
<1>2. TypeOK
  BY <1>1, OffType, FaultsAreBounded DEF Init, TypeOK
<1>3. Founded(target, journal)
  BY ThroughFirst DEF Init, Founded, Requested
<1>4. \A p \in Procs : Sound(target, proc[p])
  BY DEF Init, Sound, Off
<1>5. InOrder(target)
  BY DEF Init, InOrder
<1> QED
  BY <1>2, <1>3, <1>4, <1>5 DEF Inv

(* Every step keeps the invariant. *)
LEMMA NextInv == Inv /\ [Next]_vars => Inv'
<1> SUFFICES ASSUME Inv, [Next]_vars
             PROVE  Inv'
  OBVIOUS
<1>1. CASE Spawnfile
  BY <1>1, SpawnfileKeeps
<1>2. ASSUME NEW p \in Procs, Start(p)
      PROVE  Inv'
  BY <1>2, StartKeeps
<1>3. ASSUME NEW p \in Procs, Work(p)
      PROVE  Inv'
  <2>1. ASSUME NEW op \in Operation, MakeCall(p, op)
        PROVE  Inv'
    BY <2>1, HasReceiptKeeps, IntendKeeps, LookUpKeeps, PrepareAgainKeeps,
       LifecycleLookUpKeeps, AskDirectlyKeeps DEF MakeCall
  <2>2. ASSUME NEW op \in LifecycleOps \union TargetOps, LookUpFails(p, op)
        PROVE  Inv'
    BY <2>2, LookUpFailsKeeps DEF Operation, JournaledOps
  <2> QED
    BY <1>3, <2>1, <2>2, CommitKeeps, CannotLayOutKeeps, OvertakenKeeps, DeliverKeeps, ReturnKeeps,
       CallEndsKeeps, CheckReplaceKeeps, RenameKeeps, ConfirmKeeps, GiveUpKeeps DEF Work
<1>4. ASSUME NEW p \in Procs, Disturbance(p)
      PROVE  Inv'
  <2>1. ASSUME NEW op \in LifecycleOps \union TargetOps, LookUpFails(p, op)
        PROVE  Inv'
    BY <2>1, LookUpFailsKeeps DEF Operation, JournaledOps
  <2> QED
    BY <1>4, <2>1, CannotLayOutKeeps, CallEndsKeeps, ReceiptRejectedKeeps, InterruptKeeps, CrashKeeps
       DEF Disturbance
<1>5. CASE UNCHANGED vars
  BY <1>5 DEF Inv, TypeOK, vars
<1> QED
  BY <1>1, <1>2, <1>3, <1>4, <1>5 DEF Next

(* The invariant holds throughout: every journal anywhere is founded on effects
   that Spawnfile has, whatever processes do to each other (session.replace). *)
THEOREM InvAlways == Spec => []Inv
<1>1. Init => Inv
  BY InitInv
<1>2. Inv /\ [Next]_vars => Inv'
  BY NextInv
<1> QED
  BY <1>1, <1>2, PTL DEF Spec

(* The state of the journal, of Spawnfile and of every process is always a typed
   one; in particular no process steps beyond the calls of its stage. *)
THEOREM TypeAlways == Spec => []TypeOK
<1>1. Inv => TypeOK
  BY DEF Inv
<1> QED
  BY <1>1, InvAlways, PTL

(* The phase in the journal, and in whatever a session holds of it, stands on the
   effects of every call that leads to it, however many processes work on it. *)
THEOREM EffectBeforePhaseAlways == Spec => []EffectBeforePhase
<1>1. Inv => EffectBeforePhase
  BY DEF Inv, EffectBeforePhase, Founded, Recorded, Sound
<1> QED
  BY <1>1, InvAlways, PTL

(* Every operation of a durable phase has its receipt in the same journal, and no
   receipt is there without its effect. *)
THEOREM ReceiptsKeptAlways == Spec => []ReceiptsKept
<1>1. Inv => ReceiptsKept
  BY DEF Inv, ReceiptsKept, Founded, Recorded
<1> QED
  BY <1>1, InvAlways, PTL

(* Nothing is taken away from a run before both owners' evidence is out. *)
THEOREM EvidenceFirstAlways == Spec => []EvidenceFirst
<1>1. ASSUME Inv
      PROVE  EvidenceFirst
  <2>1. SUFFICES ASSUME NEW op \in ReleasingOps, target[op] # "absent"
                 PROVE  /\ target["export_evidence_volume"] = "done"
                        /\ target["artifacts_export"] = "done"
    BY DEF EvidenceFirst
  <2>2. op \in Operation
    BY DEF ReleasingOps, Operation, JournaledOps, TargetOps, LifecycleOps
  <2>3. Ordered(target, op)
    BY <1>1, <2>1, <2>2 DEF Inv, InOrder
  <2>4. PICK k \in 1 .. Completed : \E i \in DOMAIN Calls(k) :
          op = Calls(k)[i] /\ \A o \in CallsThrough(k - 1) : target[o] = "done"
    BY <2>3 DEF Ordered
  <2>5. k = 15
    BY <2>4, ReleasedLast
  <2> QED
    BY <2>4, <2>5, EvidenceThrough
<1> QED
  BY <1>1, InvAlways, PTL
-----------------------------------------------------------------------------
(* One process at a time.  Where no process starts while another works, the *)
(* session of the one that does holds the file itself, the file never goes  *)
(* back, and a call is only made that Spawnfile does not have yet.          *)

NextOf(me) == StageOf(me)[me.step]

Alone == \A p, q \in Procs : proc[p].mode # "off" /\ proc[q].mode # "off" => p = q

(* The call may be made: nothing of it is under way, and its intent is in j. *)
Fresh(t, j, op) ==
    /\ op \in TargetOps \union LifecycleOps => t[op] = "absent"
    /\ op \in JournaledOps => j.ops[op] # "none"

(* The replacement is the next generation of the journal. *)
Succeeds(next, j, sequel) ==
    /\ next.phase = IF sequel = "phase" THEN j.phase + 1 ELSE j.phase
    /\ \A op \in JournaledOps : j.ops[op] # "none" => next.ops[op] # "none"

Knows(t, j, me) ==
    me.mode # "off" =>
        /\ me.current
        /\ j = IF me.mode = "confirming" THEN me.staged ELSE me.snap
        /\ me.mode = "calling" => Fresh(t, me.snap, NextOf(me))
        /\ me.mode \in Writing =>
              /\ Succeeds(me.staged, me.snap, me.sequel)
              /\ me.sequel = "call" => Fresh(t, me.staged, NextOf(me))

(* Nothing is delivered beyond the stage that the file is in. *)
Timely ==
    \A op \in Operation : target[op] # "absent" =>
        \E k \in Phase : k <= journal.phase + 1 /\ op \in CallsThrough(k)

Serial ==
    /\ Alone
    /\ \A p \in Procs : Knows(target, journal, proc[p])
    /\ IntentDurable
    /\ Timely

(* Whoever works is the only one, and knows the file. *)
LEMMA Worker ==
  ASSUME Inv, Serial, NEW p \in Procs, proc[p].mode # "off"
  PROVE  /\ \A q \in Procs : q # p => proc[q].mode = "off"
         /\ proc[p] \in Process /\ Sound(target, proc[p])
         /\ Knows(target, journal, proc[p])
         /\ proc[p].current
         /\ proc[p].mode # "confirming" => journal = proc[p].snap
  BY InvParts DEF Serial, Alone, Knows

(* A step of one process that changes nothing but that process. *)
LEMMA SerialStep ==
  ASSUME Inv, Serial, NEW p \in Procs, NEW me \in Process,
         Knows(target, journal, me),
         me.mode # "off" => \A q \in Procs : q # p => proc[q].mode = "off",
         proc' = [proc EXCEPT ![p] = me],
         UNCHANGED << journal, target >>
  PROVE  Serial'
<1>1. \A q \in Procs : proc'[q] = IF q = p THEN me ELSE proc[q]
  BY InvParts DEF ProcType
<1>2. Alone'
  BY <1>1 DEF Serial, Alone
<1>3. \A q \in Procs : Knows(target', journal', proc'[q])
  BY <1>1 DEF Serial
<1>4. IntentDurable' /\ Timely'
  BY DEF Serial, IntentDurable, Timely
<1> QED
  BY <1>2, <1>3, <1>4 DEF Serial

(* ... that only changes its mode. *)
LEMMA GoesSerial ==
  ASSUME Inv, Serial, NEW p \in Procs, NEW mode \in Mode, Goes(p, mode),
         proc[p].mode \notin {"off", "confirming"}, mode # "confirming",
         mode = "calling" => Fresh(target, proc[p].snap, NextOf(proc[p])),
         mode \in Writing => proc[p].mode \in Writing,
         UNCHANGED << journal, target >>
  PROVE  Serial'
<1> DEFINE me == [proc[p] EXCEPT !.mode = mode]
<1>0. /\ proc[p] \in Process /\ Knows(target, journal, proc[p])
      /\ \A q \in Procs : q # p => proc[q].mode = "off"
  BY Worker
<1>1. /\ me \in Process /\ me.mode = mode /\ me.snap = proc[p].snap
      /\ me.step = proc[p].step /\ me.staged = proc[p].staged
      /\ me.sequel = proc[p].sequel /\ me.current = proc[p].current
  BY <1>0 DEF Process
<1>2. proc' = [proc EXCEPT ![p] = me]
  BY DEF Goes
<1> HIDE DEF me
<1>3. NextOf(me) = NextOf(proc[p])
  BY <1>1 DEF NextOf, StageOf
<1>4. Knows(target, journal, me)
  BY <1>0, <1>1, <1>3 DEF Knows
<1> QED
  BY <1>0, <1>1, <1>2, <1>4, SerialStep

(* ... that starts to replace the journal. *)
LEMMA ReplaceSerial ==
  ASSUME Inv, Serial, NEW p \in Procs, NEW next \in Journal, NEW sequel \in Sequel,
         Replace(p, next, sequel),
         proc[p].mode \notin {"off", "confirming"},
         Succeeds(next, proc[p].snap, sequel),
         sequel = "call" => Fresh(target, next, NextOf(proc[p])),
         UNCHANGED << journal, target >>
  PROVE  Serial'
<1> DEFINE me == [proc[p] EXCEPT !.mode = "replacing", !.staged = next, !.sequel = sequel]
<1>0. /\ proc[p] \in Process /\ Knows(target, journal, proc[p])
      /\ \A q \in Procs : q # p => proc[q].mode = "off"
  BY Worker
<1>1. /\ me \in Process
      /\ me.mode = "replacing" /\ me.staged = next /\ me.sequel = sequel
      /\ me.snap = proc[p].snap /\ me.step = proc[p].step
      /\ me.current = proc[p].current
  BY <1>0 DEF Process, Mode
<1>2. proc' = [proc EXCEPT ![p] = me]
  BY DEF Replace
<1> HIDE DEF me
<1>3. NextOf(me) = NextOf(proc[p])
  BY <1>1 DEF NextOf, StageOf
<1>4. Knows(target, journal, me)
  BY <1>0, <1>1, <1>3 DEF Knows
<1> QED
  BY <1>0, <1>1, <1>2, <1>4, SerialStep

(* ... that leaves a call behind. *)
LEMMA NextStepSerial ==
  ASSUME Inv, Serial, Inv', NEW p \in Procs, NextStep(p),
         proc[p].mode \notin {"off", "confirming"},
         UNCHANGED << journal, target >>
  PROVE  Serial'
<1> DEFINE me == [proc[p] EXCEPT !.mode = "work", !.step = @ + 1]
<1>0. /\ proc[p] \in Process /\ Knows(target, journal, proc[p])
      /\ \A q \in Procs : q # p => proc[q].mode = "off"
  BY Worker
<1>1. proc' = [proc EXCEPT ![p] = me]
  BY DEF NextStep
<1>2. proc \in ProcType /\ proc'[p] \in Process
  BY InvParts DEF Inv, TypeOK
<1>3. /\ me \in Process
      /\ me.mode = "work" /\ me.snap = proc[p].snap /\ me.current = proc[p].current
  BY <1>0, <1>1, <1>2 DEF ProcType, Process
<1> HIDE DEF me
<1>4. Knows(target, journal, me)
  BY <1>0, <1>3 DEF Knows, Writing
<1> QED
  BY <1>0, <1>1, <1>3, <1>4, SerialStep

(* ... that ends it. *)
LEMMA StopsSerial ==
  ASSUME Inv, Serial, NEW p \in Procs, Stops(p), UNCHANGED << journal, target >>
  PROVE  Serial'
<1>1. Knows(target, journal, Off) /\ Off.mode = "off"
  BY DEF Knows, Off
<1> QED
  BY <1>1, OffType, SerialStep DEF Stops

(* Writing down what was observed of a call is a next generation. *)
LEMMA ObservedSucceeds ==
  ASSUME NEW j \in Journal, NEW op \in JournaledOps, NEW s \in OpState \ {"none"},
         NEW sequel \in Sequel \ {"phase"}
  PROVE  /\ Observed(j, op, s) \in Journal
         /\ Succeeds(Observed(j, op, s), j, sequel)
         /\ Observed(j, op, s).ops[op] = s
  BY DEF Observed, Journal, Succeeds, OpState

LEMMA ObserveSerial ==
  ASSUME Inv, Serial, NEW p \in Procs, NEW op \in JournaledOps,
         NEW s \in OpState \ {"none"}, NEW sequel \in Sequel \ {"phase"},
         proc[p].mode \notin {"off", "confirming"},
         Replace(p, Observed(proc[p].snap, op, s), sequel),
         sequel = "call" => op = NextOf(proc[p])
                            /\ (op \in TargetOps \union LifecycleOps => target[op] = "absent"),
         UNCHANGED << journal, target >>
  PROVE  Serial'
<1>1. proc[p].snap \in Journal
  BY Worker DEF Process
<1>2. sequel = "call" => Fresh(target, Observed(proc[p].snap, op, s), NextOf(proc[p]))
  BY <1>1, ObservedSucceeds DEF Fresh
<1> QED
  BY <1>1, <1>2, ObservedSucceeds, ReplaceSerial

(* A receipt is recorded, or refused. *)
LEMMA ReceivesSerial ==
  ASSUME Inv, Serial, NEW p \in Procs, NEW op \in JournaledOps, Receives(p, op),
         proc[p].mode \in {"work", "waiting"}, UNCHANGED << journal, target >>
  PROVE  Serial'
<1>1. ASSUME NEW sequel \in {"next", "fail"},
             Replace(p, Observed(proc[p].snap, op, "completed"), sequel)
      PROVE  Serial'
  BY <1>1, ObserveSerial DEF OpState, Sequel
<1>2. CASE Goes(p, "failing")
  BY <1>2, GoesSerial DEF Mode, Writing
<1> QED
  BY <1>1, <1>2 DEF Receives

(* What a call begins with, or what is done instead of it. *)
LEMMA MakeCallSerial ==
  ASSUME Inv, Serial, Inv', NEW p \in Procs, NEW op \in Operation, MakeCall(p, op)
  PROVE  Serial'
<1>0. Wants(p, op) /\ UNCHANGED << journal, target >>
  BY DEF MakeCall, HasReceipt, Intend, LookUp, PrepareAgain, LifecycleLookUp, AskDirectly
<1>1. /\ proc[p].mode = "work" /\ op = NextOf(proc[p]) /\ journal = proc[p].snap
  BY <1>0, WantsAt, Worker DEF NextOf
<1>2. CASE HasReceipt(p, op)
  <2>1. CASE NextStep(p)
    BY <1>0, <1>1, <2>1, NextStepSerial
  <2>2. CASE Goes(p, "failing")
    BY <1>0, <1>1, <2>2, GoesSerial DEF Mode, Writing
  <2> QED
    BY <1>2, <2>1, <2>2 DEF HasReceipt
<1>3. CASE Intend(p, op)
  BY <1>1, <1>3, <1>0, ObserveSerial DEF Intend, Serial, IntentDurable,
     OpState, Sequel
<1>4. CASE LookUp(p, op)
  <2>0. op \in JournaledOps
    BY <1>4 DEF LookUp, JournaledOps
  <2>1. CASE Receives(p, op)
    BY <1>0, <1>1, <2>0, <2>1, ReceivesSerial
  <2>2. CASE Replace(p, Observed(proc[p].snap, op, "pending"), "fail")
    BY <1>0, <1>1, <2>0, <2>2, ObserveSerial DEF OpState, Sequel
  <2>3. CASE target[op] = "absent" /\ Replace(p, Observed(proc[p].snap, op, "not_applied"), "call")
    BY <1>0, <1>1, <2>0, <2>3, ObserveSerial DEF OpState, Sequel
  <2> QED
    BY <1>4, <2>1, <2>2, <2>3 DEF LookUp
<1>5. CASE PrepareAgain(p, op)
  BY <1>5, <1>0, <1>1, GoesSerial DEF PrepareAgain, Fresh, Preparation,
     TargetOps, LifecycleOps, Mode, Writing
<1>6. CASE LifecycleLookUp(p, op)
  <2>1. CASE NextStep(p)
    BY <1>0, <1>1, <2>1, NextStepSerial
  <2>2. CASE target[op] = "absent" /\ Goes(p, "calling")
    BY <1>6, <2>2, <1>0, <1>1, GoesSerial DEF LifecycleLookUp, Fresh,
       JournaledOps, Preparation, TargetOps, LifecycleOps, Mode, Writing
  <2>3. CASE Goes(p, "failing")
    BY <1>0, <1>1, <2>3, GoesSerial DEF Mode, Writing
  <2> QED
    BY <1>6, <2>1, <2>2, <2>3 DEF LifecycleLookUp
<1>7. CASE AskDirectly(p, op)
  BY <1>7, <1>0, <1>1, GoesSerial DEF AskDirectly, Fresh, DirectOps,
     JournaledOps, Preparation, TargetOps, LifecycleOps, Mode, Writing
<1> QED
  BY <1>2, <1>3, <1>4, <1>5, <1>6, <1>7 DEF MakeCall

(* The call reaches Spawnfile, which has nothing of it yet; the journal has the
   intent. *)
LEMMA DeliverSerial ==
  ASSUME Inv, Serial, Inv', NEW p \in Procs, Deliver(p)
  PROVE  Serial'
<1> DEFINE op == NextOf(proc[p])
           k == journal.phase + 1
<1>0. proc[p].mode = "calling" /\ journal' = journal
  BY DEF Deliver
<1>1. /\ proc[p].step \in DOMAIN StageOf(proc[p]) /\ op = NextCall(p) /\ op \in Operation
      /\ Stands(target, proc[p].snap, proc[p])
  BY <1>0, CallingAt DEF NextOf
<1>2. /\ \A q \in Procs : q # p => proc[q].mode = "off"
      /\ proc[p] \in Process /\ proc[p].current /\ journal = proc[p].snap
      /\ Fresh(target, journal, op)
  BY <1>0, Worker DEF Knows
<1>3. /\ \A q \in Procs : q # p => proc'[q] = proc[q]
      /\ proc'[p].mode = "waiting" /\ proc'[p].current = proc[p].current
      /\ proc'[p].snap = proc[p].snap
  BY <1>2, InvParts DEF Deliver, Goes, ProcType, Process
<1>4. \A o \in Operation : o # op => target'[o] = target[o]
  BY <1>1, InvParts DEF Deliver, Target
<1>5. Alone'
  BY <1>2, <1>3 DEF Alone
<1>6. \A q \in Procs : Knows(target', journal', proc'[q])
  BY <1>0, <1>2, <1>3 DEF Knows, Writing
<1>7. IntentDurable'
  BY <1>0, <1>2, <1>4, JournaledAreOperations DEF Serial, IntentDurable, Fresh
<1>8. k \in Phase /\ op \in CallsThrough(k)
  <2>1. k \in Phase /\ k - 1 \in Nat /\ k - 1 + 1 = k
    <3>1. proc[p].snap \in Journal
      BY ONLY <1>2 DEF Process
    <3>2. proc[p].snap.phase < Completed
      BY ONLY <1>1 DEF Stands
    <3> QED BY ONLY <1>2, <3>1, <3>2 DEF Journal, Phase, Completed
  <2>2. op \in CallsThrough(k - 1 + 1)
    BY <1>1, <1>2, <2>1, ThroughNext DEF StageOf, NextOf
  <2> QED
    BY <2>1, <2>2
<1>9. Timely'
  <2>1. k <= journal'.phase + 1
    BY <1>0, <1>8 DEF Phase, Completed
  <2> HIDE DEF k, op
  <2> QED
    BY <1>0, <1>4, <1>8, <2>1 DEF Serial, Timely
<1> QED
  BY <1>5, <1>6, <1>7, <1>9 DEF Serial

(* The call ends, one way or another. *)
LEMMA CallEndsSerial ==
  ASSUME Inv, Serial, Inv', NEW p \in Procs,
         Return(p) \/ CallEnds(p) \/ CallBreaks(p) \/ ReceiptRejected(p)
  PROVE  Serial'
<1>1. proc[p].mode \in {"calling", "waiting"} /\ UNCHANGED << journal, target >>
  BY DEF Return, CallEnds, CallBreaks, ReceiptRejected
<1>2. ASSUME NEW op \in JournaledOps, NEW s \in {"completed", "lookup_required"},
             NEW sequel \in {"next", "fail"},
             Replace(p, Observed(proc[p].snap, op, s), sequel)
      PROVE  Serial'
  BY <1>1, <1>2, ObserveSerial DEF OpState, Sequel
<1>3. ASSUME Goes(p, "failing") PROVE Serial'
  BY <1>1, <1>3, GoesSerial DEF Mode, Writing
<1>4. ASSUME NextStep(p) PROVE Serial'
  BY <1>1, <1>4, NextStepSerial
<1>5. ASSUME Throws(p) PROVE Serial'
  BY <1>2, <1>3, <1>5 DEF Throws
<1>6. ASSUME NEW op \in JournaledOps, Receives(p, op), proc[p].mode = "waiting"
      PROVE  Serial'
  BY <1>1, <1>6, ReceivesSerial
<1> QED
  BY <1>3, <1>4, <1>5, <1>6 DEF Return, CallEnds, CallBreaks, ReceiptRejected

(* A process starts, when no other works. *)
LEMMA StartSerial ==
  ASSUME ~Overlap, Inv, Serial, NEW p \in Procs, Start(p)
  PROVE  Serial'
<1> DEFINE me == [Off EXCEPT !.mode = "work", !.snap = journal,
                             !.staged = journal, !.current = TRUE]
<1>1. \A q \in Procs : proc[q].mode = "off"
  BY DEF Start
<1>2. /\ me \in Process
      /\ me.mode = "work" /\ me.snap = journal /\ me.current
  BY OffType, InvParts DEF Process, Mode
<1>3. proc' = [proc EXCEPT ![p] = me] /\ UNCHANGED << journal, target >>
  BY DEF Start
<1> HIDE DEF me
<1>4. Knows(target, journal, me)
  BY <1>2 DEF Knows, Writing
<1> QED
  BY <1>1, <1>2, <1>3, <1>4, SerialStep

(* The next phase is appended to the file that is there. *)
LEMMA CommitSerial ==
  ASSUME Inv, Serial, NEW p \in Procs, Commit(p)
  PROVE  Serial'
<1>1. /\ proc[p].mode = "work" /\ proc[p] \in Process /\ Sound(target, proc[p])
      /\ UNCHANGED << journal, target >>
  BY InvParts DEF Commit
<1>2. proc[p].snap \in Journal /\ proc[p].snap.phase < Completed
  BY <1>1 DEF Sound, Stands, Process
<1>3. AppendPhase(proc[p].snap) \in Journal
  <2>1. proc[p].snap.phase + 1 \in Phase
    BY <1>2 DEF Journal, Phase, Completed
  <2> QED
    BY <1>2, <2>1 DEF AppendPhase, Journal
<1>4. Succeeds(AppendPhase(proc[p].snap), proc[p].snap, "phase")
  BY <1>2 DEF AppendPhase, Journal, Succeeds
<1> QED
  BY <1>1, <1>3, <1>4, ReplaceSerial DEF Commit, Sequel

(* The replacement becomes the file: a generation that follows it. *)
LEMMA Renamed ==
  ASSUME Inv, Serial, NEW p \in Procs, Rename(p)
  PROVE  /\ journal \in Journal /\ journal' \in Journal
         /\ proc[p].sequel \in Sequel
         /\ Succeeds(journal', journal, proc[p].sequel)
         /\ proc[p].sequel = "call" => Fresh(target, journal', NextOf(proc[p]))
         /\ Founded(target, journal')
<1>1. proc[p].mode = "renaming" /\ journal' = proc[p].staged
  BY DEF Rename
<1> QED
  BY <1>1, Worker, InvParts DEF Knows, Writing, Process, Sound

LEMMA RenameSerial ==
  ASSUME Inv, Serial, NEW p \in Procs, Rename(p)
  PROVE  Serial'
<1>0. /\ proc[p].mode = "renaming" /\ proc[p] \in Process /\ journal = proc[p].snap
      /\ journal' = proc[p].staged /\ target' = target
      /\ \A q \in Procs : q # p => proc[q] \in Process /\ proc[q].mode = "off"
  BY Worker, InvParts DEF Rename
<1>1. /\ \A q \in Procs : q # p => proc'[q].mode = "off"
      /\ proc'[p].mode = "confirming" /\ proc'[p].current
      /\ proc'[p].snap = proc[p].snap /\ proc'[p].staged = proc[p].staged
      /\ proc'[p].sequel = proc[p].sequel /\ proc'[p].step = proc[p].step
  BY <1>0 DEF Rename, Process
<1>2. Alone'
  BY <1>1 DEF Alone
<1>3. Knows(target', journal', proc'[p])
  BY <1>1, <1>0, Renamed DEF NextOf, StageOf, Knows, Writing
<1>4. \A q \in Procs : Knows(target', journal', proc'[q])
  BY <1>1, <1>3 DEF Knows
<1>5. IntentDurable'
  BY <1>0, Renamed DEF Serial, IntentDurable, Succeeds
<1>6. Timely'
  BY Renamed, <1>0 DEF Succeeds, Journal, Phase, Completed, Serial, Timely
<1> QED
  BY <1>2, <1>4, <1>5, <1>6 DEF Serial

(* The file shows what was written. *)
LEMMA ConfirmSerial ==
  ASSUME Inv, Serial, Inv', NEW p \in Procs, Confirm(p)
  PROVE  Serial'
<1> DEFINE was == proc[p]
           Moved(mode, step) == [was EXCEPT !.snap = was.staged, !.mode = mode, !.step = step]
<1>1. /\ was.mode = "confirming" /\ was \in Process /\ was.current
      /\ Knows(target, journal, was) /\ journal = was.staged
      /\ \A q \in Procs : q # p => proc[q].mode = "off"
      /\ UNCHANGED << journal, target >>
  BY Worker DEF Confirm, Knows
<1>2. ASSUME NEW mode \in {"calling", "work", "failing"}, NEW step \in 1 .. 5,
             mode = "calling" => was.sequel = "call" /\ step = was.step,
             proc' = [proc EXCEPT ![p] = Moved(mode, step)]
      PROVE  Serial'
  <2> DEFINE me == Moved(mode, step)
  <2>1. /\ me \in Process /\ me.mode = mode /\ me.snap = was.staged
        /\ me.step = step /\ me.current
    BY <1>1, <1>2 DEF Process, Mode
  <2>2. mode = "calling" => NextOf(me) = NextOf(was)
    BY <1>1, <1>2, <2>1 DEF Knows, Writing, Succeeds, NextOf, StageOf
  <2>3. proc' = [proc EXCEPT ![p] = me]
    BY <1>2
  <2> HIDE DEF me
  <2>4. Knows(target, journal, me)
    BY <1>1, <1>2, <2>1, <2>2 DEF Knows, Writing
  <2> QED
    BY <1>1, <2>1, <2>3, <2>4, SerialStep
<1>3. CASE Stops(p)
  BY <1>1, <1>3, StopsSerial
<1>4. CASE was.sequel = "call" /\ proc' = [proc EXCEPT ![p] = Moved("calling", was.step)]
  BY <1>1, <1>2, <1>4 DEF Process
<1>5. CASE proc' = [proc EXCEPT ![p] = Moved("work", was.step + 1)]
  BY InvParts, <1>1, <1>5, <1>2 DEF Inv, TypeOK, ProcType, Process
<1>6. CASE proc' = [proc EXCEPT ![p] = Moved("failing", was.step)]
  BY <1>1, <1>2, <1>6 DEF Process
<1>7. CASE proc' = [proc EXCEPT ![p] = Moved("work", 1)]
  BY <1>2, <1>7
<1>8. /\ [[was EXCEPT !.snap = was.staged] EXCEPT !.mode = "calling"] = Moved("calling", was.step)
      /\ [[was EXCEPT !.snap = was.staged] EXCEPT !.mode = "failing"] = Moved("failing", was.step)
      /\ [[was EXCEPT !.snap = was.staged] EXCEPT !.mode = "work", !.step = 1] = Moved("work", 1)
      /\ [[was EXCEPT !.snap = was.staged] EXCEPT !.mode = "work", !.step = @ + 1]
           = Moved("work", was.step + 1)
  BY <1>1 DEF Process
<1>9. \/ Stops(p)
      \/ was.sequel = "call" /\ proc' = [proc EXCEPT ![p] = Moved("calling", was.step)]
      \/ proc' = [proc EXCEPT ![p] = Moved("work", was.step + 1)]
      \/ proc' = [proc EXCEPT ![p] = Moved("failing", was.step)]
      \/ proc' = [proc EXCEPT ![p] = Moved("work", 1)]
  <2> HIDE DEF Moved
  <2> QED
    BY <1>1, <1>8, Zenon DEF Confirm
<1> QED
  BY <1>3, <1>4, <1>5, <1>6, <1>7, <1>9

(* What is left: a replacement moves on, a failure is written down, a signal, a
   crash. *)
LEMMA OtherSerial ==
  ASSUME Inv, Serial, NEW p \in Procs,
         \/ Overtaken(p) \/ CannotLayOut(p) \/ CheckReplace(p) \/ GiveUp(p) \/ Interrupt(p) \/ Crash(p)
         \/ \E op \in LifecycleOps \union TargetOps : LookUpFails(p, op)
  PROVE  Serial'
<1>1. CASE Overtaken(p)
  BY <1>1, Worker DEF Overtaken
<1>2. CASE CheckReplace(p)
  BY <1>2, Worker, GoesSerial DEF CheckReplace, Mode, Writing
<1>3. CASE GiveUp(p)
  <2>1. /\ proc[p].mode = "failing" /\ proc[p].snap \in Journal
        /\ UNCHANGED << journal, target >>
    BY <1>3, Worker DEF GiveUp, Process
  <2>2. CASE Replace(p, MarkRecoverable(proc[p].snap), "exit")
    BY <2>1, <2>2, ReplaceSerial DEF MarkRecoverable, Journal, Succeeds, Sequel
  <2> QED
    BY <1>3, <2>1, <2>2, StopsSerial DEF GiveUp
<1>4. CASE Interrupt(p)
  <2> DEFINE me == [proc[p] EXCEPT !.signal = TRUE]
  <2>0. /\ proc[p].mode # "off" /\ UNCHANGED << journal, target >>
        /\ proc' = [proc EXCEPT ![p] = me]
    BY <1>4 DEF Interrupt
  <2>1. /\ proc[p] \in Process /\ Knows(target, journal, proc[p])
        /\ \A q \in Procs : q # p => proc[q].mode = "off"
    BY <2>0, Worker
  <2>2. /\ me \in Process /\ me.mode = proc[p].mode /\ me.snap = proc[p].snap
        /\ me.step = proc[p].step /\ me.staged = proc[p].staged
        /\ me.sequel = proc[p].sequel /\ me.current = proc[p].current
    BY <2>1 DEF Process
  <2> HIDE DEF me
  <2>3. Knows(target, journal, me)
    BY <2>1, <2>2 DEF Knows, NextOf, StageOf
  <2> QED
    BY <2>0, <2>1, <2>2, <2>3, SerialStep
<1>5. CASE Crash(p)
  BY <1>5, StopsSerial DEF Crash
<1>6. CASE \E op \in LifecycleOps \union TargetOps : LookUpFails(p, op)
  BY <1>6, GoesSerial DEF LookUpFails, Wants, Mode, Writing
<1>7. CASE CannotLayOut(p)
  BY <1>7, GoesSerial DEF CannotLayOut, Mode, Writing
<1> QED
  BY <1>1, <1>2, <1>3, <1>4, <1>5, <1>6, <1>7

(* Spawnfile moves on with what was delivered. *)
LEMMA SpawnfileSerial ==
  ASSUME Inv, Serial, Spawnfile
  PROVE  Serial'
<1>0. UNCHANGED << journal, proc >>
  BY DEF Spawnfile, TakesEffect, IsSpoilt, HasNoEffect, WorldEnds
<1>1. \A op \in Operation : (target[op] = "absent" => target'[op] = "absent")
                            /\ (target'[op] # "absent" => target[op] # "absent")
  BY InvParts DEF Spawnfile, TakesEffect, IsSpoilt, HasNoEffect, WorldEnds, Target
<1>2. TargetOps \union LifecycleOps \subseteq Operation
  BY DEF Operation, JournaledOps
<1>3. \A p \in Procs : Knows(target', journal', proc'[p])
  BY <1>0, <1>1, <1>2 DEF Serial, Knows, Fresh
<1>4. IntentDurable' /\ Timely' /\ Alone'
  BY <1>0, <1>1, JournaledAreOperations DEF Serial, IntentDurable, Timely, Alone
<1> QED
  BY <1>3, <1>4 DEF Serial

(* Every step keeps it. *)
LEMMA NextSerial ==
  ASSUME ~Overlap, Inv, Serial, [Next]_vars
  PROVE  Serial'
<1>0. Inv'
  BY NextInv
<1>1. CASE Spawnfile
  BY <1>1, SpawnfileSerial
<1>2. ASSUME NEW p \in Procs, Start(p) \/ Work(p) \/ Disturbance(p)
      PROVE  Serial'
  BY <1>0, <1>2, StartSerial, CommitSerial, MakeCallSerial, DeliverSerial, CallEndsSerial,
     RenameSerial, ConfirmSerial, OtherSerial DEF Work, Disturbance
<1>3. CASE UNCHANGED vars
  BY <1>3 DEF Serial, Alone, IntentDurable, Timely, vars
<1> QED
  BY <1>1, <1>2, <1>3 DEF Next

LEMMA InitSerial == Init => Serial
<1> SUFFICES ASSUME Init PROVE Serial
  OBVIOUS
<1>1. Alone /\ \A p \in Procs : Knows(target, journal, proc[p])
  BY DEF Init, Alone, Knows, Off
<1>2. IntentDurable /\ Timely
  BY JournaledAreOperations DEF Init, IntentDurable, Timely
<1> QED
  BY <1>1, <1>2 DEF Serial

LEMMA SerialAlways ==
  ASSUME ~Overlap
  PROVE  Spec => []Serial
<1>1. Init => Serial
  BY InitSerial
<1>2. Inv /\ Serial /\ [Next]_vars => Serial'
  BY NextSerial
<1> QED
  BY <1>1, <1>2, InvAlways, PTL DEF Spec

(* A crash always finds the intent of an operation that was delivered, as long as
   one process at a time works on the journal. *)
THEOREM IntentDurableAlways ==
  ASSUME ~Overlap
  PROVE  Spec => []IntentDurable
<1>1. Serial => IntentDurable
  BY DEF Serial
<1> QED
  BY <1>1, SerialAlways, PTL

(* Recovery never repeats what is in flight or has taken effect: a call only goes
   from "calling" to "waiting" by its delivery, which was fresh. *)
THEOREM NoBlindRetryAlways ==
  ASSUME ~Overlap
  PROVE  Spec => NoBlindRetry
<1>1. ASSUME Inv, Serial, [Next]_vars, NEW p \in Procs,
             proc[p].mode = "calling", NextCall(p) \in TargetOps \union LifecycleOps
      PROVE  target[NextCall(p)] = "absent"
  BY <1>1, CallingAt, Worker DEF NextOf, Knows, Fresh
<1>2. Inv /\ Serial /\ [Next]_vars =>
        [\A p \in Procs :
          proc[p].mode = "calling" /\ proc'[p].mode = "waiting"
            /\ NextCall(p) \in TargetOps \union LifecycleOps
          => target[NextCall(p)] = "absent"]_vars
  BY <1>1
<1> QED
  BY <1>2, InvAlways, SerialAlways, PTL DEF Spec, NoBlindRetry

-----------------------------------------------------------------------------
(* The abstract run.                                                       *)

Applied == {op \in Operation : target[op] = "done"}

(* The abstract run has the same lifecycle. *)
LEMMA SameCalls ==
  /\ \A k : Abstract!Calls(k) = Calls(k) /\ Abstract!CallsThrough(k) = CallsThrough(k)
  /\ Abstract!Completed = Completed
<1> USE DEF Abstract!Calls, Abstract!PhaseNames, Abstract!PreparationCalls,
       Abstract!WorldStartupCalls, Abstract!OrganizationStartupCalls, Abstract!TopologyCalls,
       Abstract!SupervisionCalls, Abstract!WorldFinalizationCalls,
       Abstract!OrganizationFinalizationCalls, Abstract!CleanupCalls, Abstract!Preparation,
       Calls, PhaseNames, PreparationCalls, WorldStartupCalls, OrganizationStartupCalls,
       TopologyCalls, SupervisionCalls, WorldFinalizationCalls,
       OrganizationFinalizationCalls, CleanupCalls, Preparation
<1>1. \A k : Abstract!Calls(k) = Calls(k)
  OBVIOUS
<1>2. \A k : Abstract!CallsThrough(k) = CallsThrough(k)
  BY DEF Abstract!CallsThrough, CallsThrough
<1> QED
  BY <1>1, <1>2 DEF Abstract!Completed, Completed

(* What takes effect is the next outstanding call of the stage after the file's. *)
LEMMA EffectTakes ==
  ASSUME Inv, Serial, NEW op \in Operation, TakesEffect(op) \/ IsSpoilt(op)
  PROVE  \E i \in 1 .. 4 : Abstract!Take(i)
<1>0. /\ target[op] = "running" /\ target' = [target EXCEPT ![op] = "done"]
      /\ journal' = journal /\ target \in Target /\ journal \in Journal
      /\ Founded(target, journal)
  BY InvParts DEF TakesEffect, IsSpoilt
<1>1. Ordered(target, op)
  BY <1>0 DEF Inv, InOrder
<1>2. PICK k \in 1 .. Completed : \E i \in DOMAIN Calls(k) :
        /\ op = Calls(k)[i]
        /\ \A o \in CallsThrough(k - 1) : target[o] = "done"
        /\ \A n \in DOMAIN Calls(k) : n < i => target[Calls(k)[n]] = "done"
  BY <1>1 DEF Ordered
<1>3. PICK i \in DOMAIN Calls(k) :
        /\ op = Calls(k)[i]
        /\ \A o \in CallsThrough(k - 1) : target[o] = "done"
        /\ \A n \in DOMAIN Calls(k) : n < i => target[Calls(k)[n]] = "done"
  BY <1>2
<1>4. /\ k \in Phase /\ k - 1 \in Phase /\ k \in Nat /\ journal.phase \in Phase
      /\ journal.phase \in Nat /\ k - 1 \in Nat
  BY <1>0 DEF Phase, Completed, Journal
<1>5. \A m, n \in Nat : m <= n => CallsThrough(m) \subseteq CallsThrough(n)
  BY ThroughIs
<1>6. op \in CallsThrough(k)
  BY <1>3, <1>4, ThroughIs
<1>7. ~(k <= journal.phase)
  BY <1>0, <1>4, <1>5, <1>6 DEF Founded, Recorded
<1>8. ~(journal.phase + 1 < k)
  <2>1. PICK m \in Phase : m <= journal.phase + 1 /\ op \in CallsThrough(m)
    BY <1>0 DEF Serial, Timely
  <2>2. op \notin CallsThrough(k - 1)
    BY <1>0, <1>3
  <2>3. m \in Nat
    BY DEF Phase
  <2> QED
    BY <2>1, <2>2, <2>3, <1>4, <1>5
<1>9. k = journal.phase + 1 /\ journal.phase < Completed
  BY <1>4, <1>7, <1>8 DEF Phase, Completed
<1>10. Calls(k) \in Seq(Operation) /\ Len(Calls(k)) <= 4 /\ i \in 1 .. 4
  BY <1>4, CallsType
<1>11. Applied' = Applied \union {op}
  BY <1>0 DEF Target, Applied
<1>12. \A j \in 1 .. (i - 1) : Calls(k)[j] \in Applied
  BY <1>10, <1>3 DEF Applied
<1>13. Abstract!Take(i)
  <2> USE DEF Applied
  <2>1. Abstract!Take(i)
           <=> /\ journal.phase < Abstract!Completed
               /\ i \in DOMAIN Abstract!Calls(journal.phase + 1)
               /\ \A j \in 1 .. (i - 1) : Abstract!Calls(journal.phase + 1)[j] \in Applied
               /\ Applied' = Applied \union {Abstract!Calls(journal.phase + 1)[i]}
               /\ journal.phase' = journal.phase
    BY Zenon DEF Abstract!Take
  <2> HIDE DEF Applied
  <2> QED
    BY <1>0, <1>3, <1>9, <1>11, <1>12, <2>1, SameCalls
<1> QED
  BY <1>10, <1>13

(* Spawnfile's other steps, and a delivery, change no effect; a replacement leaves
   the phase or advances it. *)
LEMMA AbstractStep ==
  ASSUME Inv, Serial, [Next]_vars
  PROVE  [Abstract!ANext]_<< journal.phase, Applied >>
<1>1. ASSUME UNCHANGED << journal, target >>
      PROVE  UNCHANGED << journal.phase, Applied >>
  BY <1>1 DEF Applied
<1>2. ASSUME NEW op \in Operation, TakesEffect(op) \/ IsSpoilt(op)
      PROVE  Abstract!ANext
  BY <1>2, EffectTakes DEF Abstract!ANext
<1>3. ASSUME NEW op \in Operation, HasNoEffect(op)
      PROVE  UNCHANGED << journal.phase, Applied >>
  BY <1>3, InvParts DEF HasNoEffect, Target, Applied
<1>4. ASSUME NEW p \in Procs, Deliver(p)
      PROVE  UNCHANGED << journal.phase, Applied >>
  BY <1>4, CallingAt, InvParts DEF Deliver, Target, Applied
<1>5. ASSUME NEW p \in Procs, Rename(p)
      PROVE  Abstract!ANext \/ UNCHANGED << journal.phase, Applied >>
  <2>1. Applied' = Applied
    BY <1>5 DEF Rename, Applied
  <2>2. /\ journal'.phase = IF proc[p].sequel = "phase" THEN journal.phase + 1 ELSE journal.phase
        /\ journal \in Journal /\ journal' \in Journal /\ Founded(target, journal')
    BY <1>5, Renamed DEF Succeeds
  <2>3. CASE journal'.phase = journal.phase + 1
    BY <2>2, <2>3, ThroughType, <2>1, SameCalls DEF Journal, Phase, Completed,
       Founded, Recorded, Applied, Abstract!Advance, Abstract!ANext
  <2> QED
    BY <2>1, <2>2, <2>3
<1>6. ASSUME NEW p \in Procs, Start(p) \/ Disturbance(p)
      PROVE  UNCHANGED << journal, target >>
  BY <1>6 DEF Start, Disturbance, CannotLayOut, LookUpFails, CallBreaks, ReceiptRejected, Interrupt, Crash
<1>7. ASSUME NEW p \in Procs, Work(p), ~Deliver(p), ~Rename(p)
      PROVE  UNCHANGED << journal, target >>
  BY <1>7 DEF Work, Commit, CannotLayOut, Overtaken, MakeCall, HasReceipt, Intend, LookUp, PrepareAgain,
     LifecycleLookUp, AskDirectly, LookUpFails, Return, CallEnds, CheckReplace, Confirm, GiveUp
<1>8. CASE Spawnfile
  BY <1>1, <1>2, <1>3, <1>8 DEF Spawnfile, WorldEnds
<1>9. CASE UNCHANGED vars
  BY <1>1, <1>9 DEF vars
<1> QED
  BY <1>1, <1>4, <1>5, <1>6, <1>7, <1>8, <1>9 DEF Next

(* With one process at a time a composed run is the abstract one: its calls take
   effect in the order of the lifecycle, none ahead of its stage, and its phases
   become durable one at a time over the effects they stand on, through every crash,
   failure and recovery (run.ts, journalSession.ts). *)
THEOREM Implements ==
  ASSUME ~Overlap
  PROVE  Spec => ImplementsDurableRun
<1>1. Init => Abstract!AInit
  BY DEF Init, Abstract!AInit, Requested
<1>2. Inv /\ Serial /\ [Next]_vars => [Abstract!ANext]_<< journal.phase, Applied >>
  BY AbstractStep
<1> QED
  BY <1>1, <1>2, InvAlways, SerialAlways, PTL
  DEF Spec, ImplementsDurableRun, Abstract!RunSpec, Abstract!abstractVars, Applied

-----------------------------------------------------------------------------
(* The commands.  What surrounds the lifecycle leaves it as it is, but for  *)
(* one thing: a replacement whose process is told that it failed after the  *)
(* rename (JournalFails) has a session that no longer knows the file.       *)

Stray(me) == me.mode = "failing" /\ ~me.current

Orderly ==
    /\ Alone
    /\ \A p \in Procs : Stray(proc[p]) \/ Knows(target, journal, proc[p])
    /\ IntentDurable
    /\ Timely

Command == [kind : {"run", "recover"}, at : At, config : {0} \union Config]

BootJournal == [ops : [Bootstrap -> BootState], receipt : {0} \union Config,
                execution : {0} \union Config]

Untouched == \A op \in Operation : target[op] = "absent"

(* What a journal is bound to, and what it has been given. *)
Bound ==
    /\ root.journal => root.dir
    /\ ~root.journal => boot = NoJournal /\ grants = NoGrants
    /\ State("provision_credentials") = "none" => grants = NoGrants
    /\ grants.count <= 1
    /\ grants.inflight => grants.count = 0
    /\ boot.execution # 0 =>
          /\ \A k \in Bootstrap : State(k) = "completed"
          /\ boot.execution = boot.receipt
    /\ Untouched \/ (root.journal /\ boot.execution # 0)

Attached == {"record", "ready", "lifecycle"}

(* Where a command knows what the target resolves to. *)
Resolution == {"select", "selecting", "bundle", "looking", "bundling", "file",
               "writing", "credentials", "provisioning", "bind"} \union Attached

(* Where `run' may be before its lifecycle starts. *)
Before == At \ {"idle", "lifecycle", "sealing", "aborting", "throwing"}

(* What a command may rely on where it is. *)
Relies(c) ==
    /\ c.at \notin {"idle", "preparing"} => root.journal
    /\ c.at = "preparing" => root.dir /\ ~root.journal /\ c.kind = "run"
    /\ c.at = "record" => c.kind = "run"
    /\ c.at \in Resolution => c.config # 0 /\ c.config = boot.receipt
    /\ c.at \in Attached => boot.execution = c.config
    /\ c.at = "selecting" => State("select_target") # "completed"
    /\ c.at \in {"looking", "bundling"} =>
          State("prepare_container_bundle") # "completed"
    /\ c.at = "provisioning" =>
          State("provision_credentials") \notin {"none", "completed"}
    /\ c.kind = "run" /\ c.at \in Before => Untouched

Commanded ==
    /\ \A p, q \in Procs :
          cmd[p].at # "idle" /\ cmd[q].at # "idle" => p = q
    /\ \A p \in Procs : proc[p].mode # "off" => cmd[p].at = "lifecycle"
    /\ \A p \in Procs : Relies(cmd[p])

CommandInv ==
    /\ CommandTypeOK
    /\ Inv
    /\ Orderly
    /\ Bound
    /\ Commanded

(* The bootstrap kinds, one by one. *)
LEMMA BootstrapIs ==
  Bootstrap = {"resolve_target_config", "select_target",
               "prepare_container_bundle", "provision_credentials"}
<1>1. DOMAIN BootstrapKinds = 1 .. 4
  BY DEF BootstrapKinds
<1> QED
  BY <1>1 DEF Bootstrap, BootstrapKinds

(* The types of what belongs to the commands. *)
LEMMA CommandTypes ==
  ASSUME CommandTypeOK
  PROVE  /\ cmd \in [Procs -> Command]
         /\ boot \in BootJournal
         /\ root \in [dir : BOOLEAN, journal : BOOLEAN,
                      selected : {"absent", "torn", "whole"}]
         /\ grants \in [inflight : BOOLEAN, count : 0 .. 2, live : BOOLEAN]
         /\ outside \in [config : Config, behind : BOOLEAN, adrift : BOOLEAN]
  BY DEF CommandTypeOK, Command, BootJournal

(* An observation of a bootstrap operation changes what is known of that one. *)
LEMMA ObserveIs ==
  ASSUME boot \in BootJournal, NEW kind \in Bootstrap, NEW state \in BootState,
         Observe(kind, state)
  PROVE  /\ boot' \in BootJournal
         /\ boot'.receipt = boot.receipt
         /\ boot'.execution = boot.execution
         /\ \A k \in Bootstrap :
              boot'.ops[k] = IF k = kind THEN state ELSE boot.ops[k]
  BY DEF Observe, BootJournal

(* It leaves the binding as it is, unless it is of an operation that is complete. *)
LEMMA ObserveBound ==
  ASSUME CommandTypeOK, Bound, NEW kind \in Bootstrap,
         NEW state \in BootState \ {"none"}, Observe(kind, state),
         State(kind) # "completed", root.journal,
         UNCHANGED << root, target, grants >>
  PROVE  Bound' /\ boot.execution = 0 /\ boot' \in BootJournal
<1>1. boot.execution = 0
  BY DEF Bound
<1>2. /\ boot' \in BootJournal /\ boot'.execution = 0
      /\ \A k \in Bootstrap : boot'.ops[k] = IF k = kind THEN state ELSE boot.ops[k]
  BY <1>1, CommandTypes, ObserveIs
<1>3. State("provision_credentials")' = "none" => State("provision_credentials") = "none"
  BY <1>2, BootstrapIs DEF State
<1> QED
  BY <1>1, <1>2, <1>3 DEF Bound, Untouched

(* A step of a command outside its lifecycle. *)
LEMMA CommandStep ==
  ASSUME CommandInv, NEW p \in Procs, NEW c \in Command,
         cmd' = [cmd EXCEPT ![p] = c],
         cmd[p].at # "lifecycle",
         cmd[p].at = "idle" => \A q \in Procs : cmd[q].at = "idle",
         UNCHANGED Lifecycle, faults' \in 0 .. MaxFaults,
         boot' \in BootJournal,
         root' \in [dir : BOOLEAN, journal : BOOLEAN,
                    selected : {"absent", "torn", "whole"}],
         grants' \in [inflight : BOOLEAN, count : 0 .. 2, live : BOOLEAN],
         bundle' \in {"absent", "running", "done"},
         record' \in {"absent", "staging", "sealed"},
         outside' \in [config : Config, behind : BOOLEAN, adrift : BOOLEAN],
         Bound', Relies(c)'
  PROVE  CommandInv'
<1>1. \A q \in Procs : cmd'[q] = IF q = p THEN c ELSE cmd[q]
  BY CommandTypes DEF CommandInv
<1>2. \A q \in Procs : q # p => cmd[q].at = "idle"
  BY DEF CommandInv, Commanded
<1>3. TypeOK' /\ Inv'
  BY DEF CommandInv, Inv, TypeOK, Lifecycle
<1>4. Orderly'
  BY DEF CommandInv, Orderly, Alone, IntentDurable, Timely, Lifecycle
<1>5. CommandTypeOK'
  BY CommandTypes, <1>3 DEF CommandInv, CommandTypeOK, Command, BootJournal
<1>6. Commanded'
  <2>1. ASSUME NEW q \in Procs PROVE Relies(cmd[q])'
    <3>1. CASE q = p
      BY <1>1, <3>1 DEF Relies
    <3>2. CASE q # p
      BY <1>1, <1>2, <3>2 DEF Relies, Resolution, Attached, Before
    <3> QED
      BY <3>1, <3>2
  <2>3. \A q \in Procs : proc'[q].mode = "off"
    BY <1>2 DEF CommandInv, Commanded, Lifecycle
  <2> QED
    BY <1>1, <1>2, <2>1, <2>3 DEF Commanded
<1> QED
  BY <1>3, <1>4, <1>5, <1>6 DEF CommandInv

(* A command that moves to a place stays the command it was. *)
LEMMA MovesIs ==
  ASSUME CommandInv, NEW p \in Procs, NEW place \in At, Moves(p, place)
  PROVE  \E c \in Command :
           /\ cmd' = [cmd EXCEPT ![p] = c]
           /\ c.at = place /\ c.kind = cmd[p].kind /\ c.config = cmd[p].config
<1> DEFINE d == [cmd[p] EXCEPT !.at = place]
<1>1. cmd[p] \in Command
  BY CommandTypes DEF CommandInv
<1>2. d \in Command /\ d.at = place /\ d.kind = cmd[p].kind /\ d.config = cmd[p].config
  BY <1>1 DEF Command
<1>3. cmd' = [cmd EXCEPT ![p] = d]
  BY DEF Moves
<1> QED
  BY <1>2, <1>3

(* What every command may rely on, and the bounds of the data. *)
LEMMA CommandParts ==
  ASSUME CommandInv, NEW p \in Procs
  PROVE  /\ cmd[p] \in Command
         /\ Relies(cmd[p])
         /\ CommandTypeOK /\ Bound
         /\ boot \in BootJournal
         /\ root \in [dir : BOOLEAN, journal : BOOLEAN,
                      selected : {"absent", "torn", "whole"}]
         /\ grants \in [inflight : BOOLEAN, count : 0 .. 2, live : BOOLEAN]
         /\ bundle \in {"absent", "running", "done"}
         /\ record \in {"absent", "staging", "sealed"}
         /\ outside.config \in {1, 2}
         /\ outside \in [config : Config, behind : BOOLEAN, adrift : BOOLEAN]
         /\ faults \in 0 .. MaxFaults
         /\ Fault => faults' \in 0 .. MaxFaults
<1>1. CommandTypeOK /\ Bound /\ Relies(cmd[p])
  BY DEF CommandInv, Commanded
<1>2. faults \in 0 .. MaxFaults /\ (Fault => faults' \in 0 .. MaxFaults)
  BY FaultsTyped DEF CommandInv
<1> QED
  BY <1>1, <1>2, CommandTypes DEF CommandTypeOK, Config

(* A step that moves a command, and nothing that commands rely on. *)
LEMMA CalmStep ==
  ASSUME CommandInv, NEW p \in Procs, NEW place \in At, Moves(p, place),
         cmd[p].at \notin {"idle", "lifecycle"},
         UNCHANGED Lifecycle, faults' \in 0 .. MaxFaults,
         UNCHANGED << root, boot, grants, outside >>,
         bundle' \in {"absent", "running", "done"},
         record' \in {"absent", "staging", "sealed"},
         \A c \in Command :
           c.at = place /\ c.kind = cmd[p].kind /\ c.config = cmd[p].config => Relies(c)
  PROVE  CommandInv'
<1>1. PICK c \in Command :
        /\ cmd' = [cmd EXCEPT ![p] = c]
        /\ c.at = place /\ c.kind = cmd[p].kind /\ c.config = cmd[p].config
  BY MovesIs
<1>2. Relies(c)
  BY <1>1
<1>3. Relies(c)'
  BY <1>2 DEF Relies, State, Untouched, Lifecycle
<1>4. Bound'
  BY CommandParts DEF Bound, State, Untouched, Lifecycle
<1> QED
  BY <1>1, <1>3, <1>4, CommandParts, CommandStep

(* A command that has exited relies on nothing. *)
LEMMA ExitsStep ==
  ASSUME CommandInv, NEW p \in Procs, Exits(p),
         cmd[p].at \notin {"idle", "lifecycle"},
         UNCHANGED Lifecycle, faults' \in 0 .. MaxFaults,
         boot' \in BootJournal,
         root' \in [dir : BOOLEAN, journal : BOOLEAN,
                    selected : {"absent", "torn", "whole"}],
         grants' \in [inflight : BOOLEAN, count : 0 .. 2, live : BOOLEAN],
         UNCHANGED bundle,
         outside' \in [config : Config, behind : BOOLEAN, adrift : BOOLEAN],
         record' \in {"absent", "staging", "sealed"},
         Bound'
  PROVE  CommandInv'
<1>1. Idle \in Command /\ Idle.at = "idle"
  BY DEF Idle, Command, At
<1>2. Relies(Idle)'
  BY <1>1 DEF Relies, Resolution, Attached, Before
<1>3. cmd' = [cmd EXCEPT ![p] = Idle]
  BY DEF Exits
<1> QED
  BY <1>1, <1>2, <1>3, CommandParts, CommandStep

-----------------------------------------------------------------------------
(* Every step of a command outside its lifecycle keeps the invariant.       *)
(* A run starts on a support root that is not there, so on a run nothing was asked in. *)
LEMMA RunStartKeeps ==
  ASSUME CommandInv, NEW p \in Procs, RunStart(p)
  PROVE  CommandInv'
<1> DEFINE c == [Idle EXCEPT !.at = "preparing"]
<1>1. /\ cmd[p].at = "idle" /\ \A q \in Procs : cmd[q].at = "idle"
      /\ ~root.dir /\ root' = [root EXCEPT !.dir = TRUE]
      /\ cmd' = [cmd EXCEPT ![p] = c]
      /\ UNCHANGED << Lifecycle, faults, boot, bundle, grants, record, outside >>
  BY DEF RunStart, IsAt
<1>2. c \in Command /\ c.at = "preparing" /\ c.kind = "run"
  BY DEF Idle, Command, At
<1> HIDE DEF c
<1>3. /\ root' \in [dir : BOOLEAN, journal : BOOLEAN,
                    selected : {"absent", "torn", "whole"}]
      /\ root'.dir /\ ~root'.journal /\ ~root.journal
  BY <1>1, CommandParts DEF Bound
<1>4. boot.execution = 0 /\ Untouched
  BY <1>3, CommandParts DEF Bound, NoJournal
<1>5. Bound'
  BY <1>1, <1>3, CommandParts DEF Bound, State, Untouched, Lifecycle
<1>6. Relies(c)'
  BY <1>1, <1>2, <1>3, <1>4 DEF Relies, Resolution, Attached, Untouched, Lifecycle
<1> QED
  BY <1>1, <1>2, <1>3, <1>5, <1>6, CommandParts, CommandStep

(* A recovery starts on the journal as it is. *)
LEMMA RecoverStartKeeps ==
  ASSUME CommandInv, NEW p \in Procs, RecoverStart(p)
  PROVE  CommandInv'
<1> DEFINE c == [Idle EXCEPT !.kind = "recover", !.at = "reconstructing"]
<1>1. /\ cmd[p].at = "idle" /\ \A q \in Procs : cmd[q].at = "idle"
      /\ root.journal
      /\ cmd' = [cmd EXCEPT ![p] = c]
      /\ UNCHANGED << Lifecycle, faults, root, boot, bundle, grants, record, outside >>
  BY DEF RecoverStart, IsAt
<1>2. c \in Command /\ c.at = "reconstructing" /\ c.kind = "recover"
  BY DEF Idle, Command, At
<1> HIDE DEF c
<1>3. Bound'
  BY <1>1, CommandParts DEF Bound, State, Untouched, Lifecycle
<1>4. Relies(c)'
  BY <1>1, <1>2 DEF Relies, Resolution, Attached
<1>5. /\ faults' \in 0 .. MaxFaults /\ boot' \in BootJournal
      /\ outside' \in [config : Config, behind : BOOLEAN, adrift : BOOLEAN]
      /\ root' = root /\ grants' = grants /\ bundle' = bundle /\ record' = record
  BY <1>1, CommandParts
<1> QED
  BY <1>1, <1>2, <1>3, <1>4, <1>5, CommandParts, CommandStep, Zenon

(* The support root, its journal, and what becomes of them. *)
LEMMA PreparingKeeps ==
  ASSUME CommandInv, NEW p \in Procs, Genesis(p) \/ PreparationFails(p)
  PROVE  CommandInv'
<1>1. /\ cmd[p].at = "preparing" /\ ~root.journal /\ cmd[p].kind = "run"
      /\ UNCHANGED << Lifecycle, boot, bundle, grants, record, outside >>
      /\ faults' \in 0 .. MaxFaults
  BY CommandParts DEF Genesis, PreparationFails, IsAt, Relies
<1>2. Untouched /\ boot = NoJournal /\ grants = NoGrants /\ boot.execution = 0
  BY <1>1, CommandParts DEF Bound, NoJournal
<1>3. CASE Genesis(p)
  <2>1. root' = [root EXCEPT !.journal = TRUE] /\ Moves(p, "resolve")
    BY <1>3 DEF Genesis
  <2>2. PICK c \in Command : cmd' = [cmd EXCEPT ![p] = c] /\ c.at = "resolve"
    BY <2>1, MovesIs DEF At
  <2>3. root.dir
    BY <1>1, CommandParts DEF Relies
  <2>4. /\ root' \in [dir : BOOLEAN, journal : BOOLEAN,
                      selected : {"absent", "torn", "whole"}]
        /\ root'.dir /\ root'.journal
    BY <2>1, <2>3, CommandParts
  <2>5. Bound'
    BY <1>1, <1>2, <2>4, CommandParts DEF Bound, State, Untouched, Lifecycle
  <2>6. Relies(c)'
    BY <1>1, <1>2, <2>2, <2>4 DEF Relies, Resolution, Attached, Untouched, Lifecycle
  <2> QED
    BY <1>1, <2>2, <2>4, <2>5, <2>6, CommandParts, CommandStep
<1>4. CASE PreparationFails(p)
  <2>1. /\ root' \in [dir : BOOLEAN, journal : BOOLEAN,
                      selected : {"absent", "torn", "whole"}]
        /\ ~root'.journal
    <3>1. /\ NoRoot \in [dir : BOOLEAN, journal : BOOLEAN,
                        selected : {"absent", "torn", "whole"}]
          /\ ~NoRoot.journal
      BY DEF NoRoot
    <3>2. root' = NoRoot \/ root' = root
      BY <1>4 DEF PreparationFails
    <3> QED
      BY <1>1, <3>1, <3>2, CommandParts
  <2>2. Bound'
    BY <1>1, <1>2, <2>1, CommandParts DEF Bound, State, Untouched, Lifecycle
  <2> QED
    BY <1>1, <1>4, <2>1, <2>2, CommandParts, ExitsStep DEF PreparationFails
<1> QED
  BY <1>3, <1>4

(* The operations that are resolved in any case. *)
LEMMA IntendKeepsBound ==
  ASSUME CommandTypeOK, Bound, NEW kind \in Bootstrap, IntendOnce(kind), root.journal,
         UNCHANGED << root, target, grants >>
  PROVE  /\ Bound' /\ boot' \in BootJournal
         /\ boot'.receipt = boot.receipt /\ boot'.execution = boot.execution
         /\ State(kind)' = "completed" <=> State(kind) = "completed"
         /\ \A k \in Bootstrap : State(k)' # State(k) => State(k) = "none" /\ k = kind
<1>0. boot \in BootJournal
  BY CommandTypes
<1>1. CASE State(kind) = "none"
  BY <1>1, ObserveBound, <1>0, ObserveIs DEF IntendOnce, BootState, State
<1>2. CASE State(kind) # "none"
  BY <1>2, <1>0 DEF IntendOnce, Bound, State, Untouched
<1> QED
  BY <1>1, <1>2

(* The intent of an operation, with which a command moves on. *)
LEMMA IntendStep ==
  ASSUME CommandInv, NEW p \in Procs, NEW kind \in Bootstrap, NEW place \in At,
         IntendOnce(kind), Moves(p, place),
         cmd[p].at \notin {"idle", "preparing", "lifecycle"},
         \A c \in Command :
           c.at = place /\ c.kind = cmd[p].kind /\ c.config = cmd[p].config => Relies(c),
         UNCHANGED << Lifecycle, faults, root, bundle, grants, record, outside >>
  PROVE  CommandInv'
<1>0. root.journal
  BY CommandParts DEF Relies
<1>1. PICK c \in Command :
        /\ cmd' = [cmd EXCEPT ![p] = c]
        /\ c.at = place /\ c.kind = cmd[p].kind /\ c.config = cmd[p].config
  BY MovesIs
<1>2. /\ Bound' /\ boot' \in BootJournal
      /\ boot'.receipt = boot.receipt /\ boot'.execution = boot.execution
      /\ State(kind)' = "completed" <=> State(kind) = "completed"
      /\ \A k \in Bootstrap : State(k)' # State(k) => State(k) = "none" /\ k = kind
  BY <1>0, CommandParts, IntendKeepsBound DEF Lifecycle
<1>3. Relies(c)
  BY <1>1
<1>4. /\ State("select_target")' = "completed" => State("select_target") = "completed"
      /\ State("prepare_container_bundle")' = "completed"
           => State("prepare_container_bundle") = "completed"
      /\ State("provision_credentials") \notin {"none", "completed"}
           => State("provision_credentials")' \notin {"none", "completed"}
  BY <1>2, BootstrapIs
<1>5. Relies(c)'
  BY <1>2, <1>3, <1>4 DEF Relies, Untouched, Lifecycle
<1> QED
  BY <1>1, <1>2, <1>5, CommandParts, CommandStep, ZenonT(60)

(* The three operations whose intent becomes durable before anything is asked. *)
LEMMA IntendsKeep ==
  ASSUME CommandInv, NEW p \in Procs, Resolve(p) \/ Select(p) \/ Bundle(p)
  PROVE  CommandInv'
<1>0. cmd[p] \in Command /\ Relies(cmd[p])
  BY CommandParts
<1>1. CASE Resolve(p)
  BY <1>1, <1>0, BootstrapIs, IntendStep DEF Resolve, IsAt, Relies, Resolution,
     Attached, Before, At
<1>2. CASE Select(p)
  <2> DEFINE place == IF State("select_target") = "completed" THEN "bundle" ELSE "selecting"
  <2>1. /\ cmd[p].at = "select" /\ IntendOnce("select_target")
        /\ Moves(p, place)
        /\ UNCHANGED << Lifecycle, faults, root, bundle, grants, record, outside >>
    BY <1>2 DEF Select, IsAt
  <2>2. \A c \in Command :
          c.at = place /\ c.kind = cmd[p].kind /\ c.config = cmd[p].config => Relies(c)
    BY <1>0, <2>1 DEF Relies, Resolution, Attached, Before, At
  <2>3. place \in At
    BY DEF At
  <2> HIDE DEF place
  <2> QED
    BY <2>1, <2>2, <2>3, BootstrapIs, IntendStep
<1>3. CASE Bundle(p)
  <2> DEFINE place == IF State("prepare_container_bundle") = "completed"
                      THEN "file" ELSE "looking"
  <2>1. /\ cmd[p].at = "bundle" /\ IntendOnce("prepare_container_bundle")
        /\ Moves(p, place)
        /\ UNCHANGED << Lifecycle, faults, root, bundle, grants, record, outside >>
    BY <1>3 DEF Bundle, IsAt
  <2>2. \A c \in Command :
          c.at = place /\ c.kind = cmd[p].kind /\ c.config = cmd[p].config => Relies(c)
    BY <1>0, <2>1 DEF Relies, Resolution, Attached, Before, At
  <2>3. place \in At
    BY DEF At
  <2> HIDE DEF place
  <2> QED
    BY <2>1, <2>2, <2>3, BootstrapIs, IntendStep
<1> QED
  BY <1>1, <1>2, <1>3

(* An observation, with which a command moves on or gives up. *)
LEMMA ObserveStep ==
  ASSUME CommandInv, NEW p \in Procs, NEW kind \in Bootstrap,
         NEW state \in BootState \ {"none"},
         NEW place \in {"bundle", "file", "bind", "failing"},
         Observe(kind, state), State(kind) # "completed", Moves(p, place),
         cmd[p].at \notin {"idle", "preparing", "lifecycle"},
         place # "failing" => cmd[p].at \in Resolution,
         cmd[p].at \in Before,
         UNCHANGED << Lifecycle, root, grants, record, outside >>,
         bundle' \in {"absent", "running", "done"},
         faults' \in 0 .. MaxFaults
  PROVE  CommandInv'
<1>0. root.journal /\ cmd[p] \in Command /\ Relies(cmd[p])
  BY CommandParts DEF Relies
<1>1. PICK c \in Command :
        /\ cmd' = [cmd EXCEPT ![p] = c]
        /\ c.at = place /\ c.kind = cmd[p].kind /\ c.config = cmd[p].config
  BY MovesIs DEF At
<1>2. Bound' /\ boot.execution = 0 /\ boot' \in BootJournal
  BY <1>0, CommandParts, ObserveBound DEF Lifecycle
<1>3. boot'.receipt = boot.receipt
  BY CommandParts, ObserveIs
<1>4. /\ c.at \notin {"idle", "preparing", "selecting", "looking", "bundling", "provisioning"}
      /\ c.at \notin Attached
      /\ c.at \in Resolution => cmd[p].at \in Resolution
  BY <1>1 DEF Resolution, Attached
<1>5. Relies(c)'
  BY <1>0, <1>1, <1>3, <1>4 DEF Relies, Untouched, Lifecycle
<1> QED
  BY <1>1, <1>2, <1>5, CommandParts, CommandStep

(* What the target resolves to. *)
LEMMA ResolvedKeeps ==
  ASSUME CommandInv, NEW p \in Procs, Resolved(p)
  PROVE  CommandInv'
<1> DEFINE seen == outside.config
           kind == "resolve_target_config"
<1>0. /\ cmd[p].at = "resolving" /\ root.journal
      /\ cmd[p] \in Command /\ Relies(cmd[p])
      /\ seen \in {1, 2} /\ kind \in Bootstrap
      /\ UNCHANGED << Lifecycle, faults, root, bundle, grants, record, outside >>
  BY CommandParts, BootstrapIs DEF Resolved, IsAt, Relies
<1>1. CASE State(kind) = "completed" /\ boot.receipt # seen /\ Moves(p, "failing")
           /\ UNCHANGED boot
  BY <1>0, <1>1, CommandParts, CalmStep DEF Relies, Resolution, Attached,
     Before, At
<1>2. ASSUME cmd' = [cmd EXCEPT ![p].at = "select", ![p].config = seen],
             \/ boot' = [boot EXCEPT !.ops[kind] = "completed", !.receipt = seen]
                /\ State(kind) # "completed"
             \/ boot' = boot /\ boot.receipt = seen
      PROVE  CommandInv'
  <2> DEFINE d == [cmd[p] EXCEPT !.at = "select", !.config = seen]
  <2>1. PICK c \in Command :
          /\ cmd' = [cmd EXCEPT ![p] = c]
          /\ c.at = "select" /\ c.kind = cmd[p].kind /\ c.config = seen
    <3>1. /\ d \in Command /\ d.at = "select" /\ d.kind = cmd[p].kind /\ d.config = seen
      BY <1>0 DEF Command, At, Config
    <3>2. cmd' = [cmd EXCEPT ![p] = d]
      BY <1>2
    <3> QED
      BY <3>1, <3>2
  <2>2. /\ boot' \in BootJournal /\ boot'.receipt = seen
        /\ boot'.execution = boot.execution
        /\ \A k \in Bootstrap : k # kind => boot'.ops[k] = boot.ops[k]
        /\ boot.execution # 0 => boot' = boot
    <3>0. boot \in BootJournal
      BY CommandParts
    <3>1. CASE boot' = boot /\ boot.receipt = seen
      BY <3>0, <3>1
    <3>2. CASE boot' = [boot EXCEPT !.ops[kind] = "completed", !.receipt = seen]
               /\ State(kind) # "completed"
      <4>1. boot.execution = 0
        BY <1>0, <3>2, CommandParts DEF Bound
      <4>2. boot' = [boot EXCEPT !.ops = [boot.ops EXCEPT ![kind] = "completed"], !.receipt = seen]
        BY <3>0, <3>2 DEF BootJournal
      <4>3. [boot.ops EXCEPT ![kind] = "completed"] \in [Bootstrap -> BootState]
        BY <3>0 DEF BootJournal, BootState
      <4>4. seen \in {0} \union Config
        BY <1>0 DEF Config
      <4> HIDE DEF seen, kind
      <4> QED
        BY <3>0, <4>1, <4>2, <4>3, <4>4 DEF BootJournal
    <3> QED
      BY <1>2, <3>1, <3>2
  <2>3. State("provision_credentials")' = State("provision_credentials")
    BY <2>2, BootstrapIs DEF State
  <2>4. Bound'
    BY <1>0, <2>2, <2>3, CommandParts DEF Bound, State, Untouched, Lifecycle
  <2>5. Relies(c)'
    BY <1>0, <2>1, <2>2 DEF Relies, Attached, Before, At, Untouched, Lifecycle
  <2>6. /\ faults' \in 0 .. MaxFaults
        /\ outside' \in [config : Config, behind : BOOLEAN, adrift : BOOLEAN]
        /\ root' = root /\ grants' = grants /\ bundle' = bundle /\ record' = record
    BY <1>0, CommandParts
  <2> QED
    BY <1>0, <2>1, <2>2, <2>4, <2>5, <2>6, CommandParts, CommandStep, Zenon
<1> QED
  BY <1>1, <1>2 DEF Resolved

(* The selection and the bundle: what is observed of them only completes them. *)
LEMMA BundlesKeep ==
  ASSUME CommandInv, NEW p \in Procs, Selected(p) \/ LookUpBundle(p) \/ Bundled(p)
  PROVE  CommandInv'
<1>0. cmd[p] \in Command /\ Relies(cmd[p]) /\ faults \in 0 .. MaxFaults
      /\ bundle \in {"absent", "running", "done"}
  BY CommandParts
<1>1. CASE Selected(p)
  BY <1>1, <1>0, BootstrapIs, ObserveStep DEF Selected, IsAt, Relies,
     Resolution, Before, At, BootState
<1>2. CASE LookUpBundle(p) \/ Bundled(p)
  <2>1. /\ cmd[p].at \in {"looking", "bundling"}
        /\ UNCHANGED << Lifecycle, faults, root, grants, record, outside >>
        /\ bundle' \in {"absent", "running", "done"}
        /\ State("prepare_container_bundle") # "completed"
    BY <1>0, <1>2 DEF LookUpBundle, Bundled, IsAt, Relies
  <2>2. ASSUME NEW place \in {"file", "failing"}, NEW state \in {"completed", "lookup_required"},
               Moves(p, place), Observe("prepare_container_bundle", state)
        PROVE  CommandInv'
    BY <1>0, <2>1, <2>2, BootstrapIs, ObserveStep DEF Resolution, Before, At, BootState
  <2>3. ASSUME Moves(p, "bundling"), UNCHANGED boot
        PROVE  CommandInv'
    BY <1>0, <2>1, <2>3, CommandParts, CalmStep DEF Relies, Resolution,
       Attached, Before, At
  <2> QED
    BY <1>2, <2>2, <2>3 DEF LookUpBundle, Bundled
<1> QED
  BY <1>1, <1>2

(* The file of the selected target. *)
LEMMA FileKeeps ==
  ASSUME CommandInv, NEW p \in Procs, SelectedFile(p) \/ FileWritten(p)
  PROVE  CommandInv'
<1>0. cmd[p] \in Command /\ Relies(cmd[p])
  BY CommandParts
<1>1. /\ cmd[p].at \in {"file", "writing"}
      /\ UNCHANGED << Lifecycle, faults, boot, bundle, grants, record, outside >>
  BY DEF SelectedFile, FileWritten, IsAt
<1>2. PICK place \in {"writing", "failing", "credentials"},
           file \in {"absent", "torn", "whole"} :
        Moves(p, place) /\ root' = [root EXCEPT !.selected = file]
  BY CommandParts DEF SelectedFile, FileWritten
<1>3. /\ root' \in [dir : BOOLEAN, journal : BOOLEAN,
                    selected : {"absent", "torn", "whole"}]
      /\ root'.dir = root.dir /\ root'.journal = root.journal
  BY <1>2, CommandParts
<1>4. PICK c \in Command :
        /\ cmd' = [cmd EXCEPT ![p] = c]
        /\ c.at = place /\ c.kind = cmd[p].kind /\ c.config = cmd[p].config
  BY <1>2, MovesIs DEF At
<1>5. Bound'
  BY <1>1, <1>3, CommandParts DEF Bound, State, Untouched, Lifecycle
<1>6. Relies(c)'
  BY <1>0, <1>1, <1>3, <1>4 DEF Relies, Resolution, Attached, Before, At, Untouched, Lifecycle
<1> QED
  BY <1>1, <1>3, <1>4, <1>5, <1>6, CommandParts, CommandStep

(* Credentials are asked for once: with the first intent, or never again. *)
LEMMA CredentialsKeep ==
  ASSUME CommandInv, NEW p \in Procs, Credentials(p) \/ Provisioned(p)
  PROVE  CommandInv'
<1> DEFINE kind == "provision_credentials"
<1>0. /\ cmd[p] \in Command /\ Relies(cmd[p]) /\ cmd[p].at \in {"credentials", "provisioning"}
      /\ cmd[p].at = "provisioning" => State(kind) # "completed"
      /\ root.journal
      /\ UNCHANGED << Lifecycle, faults, root, bundle, record, outside >>
      /\ kind \in Bootstrap
  BY CommandParts, BootstrapIs DEF Credentials, Provisioned, IsAt, Relies
<1>1. ASSUME Moves(p, "bind"), UNCHANGED << boot, grants >>
      PROVE  CommandInv'
  BY <1>0, <1>1, CommandParts, CalmStep DEF Relies, Resolution, Attached,
     Before, At
<1>2. ASSUME NEW place \in {"bind", "failing"}, NEW state \in {"completed", "ambiguous"},
             State(kind) # "completed",
             Moves(p, place), Observe(kind, state), UNCHANGED grants
      PROVE  CommandInv'
  BY <1>0, <1>2, CommandParts, ObserveStep DEF Resolution, Before, At, BootState
<1>3. ASSUME State(kind) = "none", Observe(kind, "intent_durable"),
             grants' = [grants EXCEPT !.inflight = TRUE], Moves(p, "provisioning"),
             cmd[p].at = "credentials"
      PROVE  CommandInv'
  <2>1. boot.execution = 0 /\ grants = NoGrants /\ Untouched
    BY <1>3, <1>0, CommandParts DEF Bound
  <2>2. /\ boot' \in BootJournal /\ boot'.receipt = boot.receipt /\ boot'.execution = 0
        /\ \A k \in Bootstrap :
             boot'.ops[k] = IF k = kind THEN "intent_durable" ELSE boot.ops[k]
    BY <1>0, <1>3, <2>1, CommandParts, ObserveIs DEF BootState
  <2>3. /\ grants' \in [inflight : BOOLEAN, count : 0 .. 2, live : BOOLEAN]
        /\ grants'.count = 0
    BY <2>1, <1>3, CommandParts DEF NoGrants
  <2>4. PICK c \in Command :
          /\ cmd' = [cmd EXCEPT ![p] = c]
          /\ c.at = "provisioning" /\ c.kind = cmd[p].kind /\ c.config = cmd[p].config
    BY <1>3, MovesIs DEF At
  <2>5. State(kind)' = "intent_durable"
    BY <1>0, <2>2 DEF State
  <2>6. Bound'
    BY <1>0, <2>1, <2>2, <2>3, <2>5, CommandParts DEF Bound, Untouched, Lifecycle
  <2>7. Relies(c)'
    BY <1>0, <1>3, <2>1, <2>2, <2>4, <2>5 DEF Relies, Resolution, Attached, Untouched, Lifecycle
  <2> QED
    BY <1>0, <2>2, <2>3, <2>4, <2>6, <2>7, CommandParts, CommandStep
<1>4. CASE Credentials(p)
  BY <1>1, <1>2, <1>3, <1>4 DEF Credentials, MayIntend, IsAt
<1>5. CASE Provisioned(p)
  BY <1>0, <1>5, <1>2 DEF Provisioned, IsAt
<1> QED
  BY <1>4, <1>5

(* The execution is that of the target that was resolved. *)
LEMMA BindKeeps ==
  ASSUME CommandInv, NEW p \in Procs, Bind(p)
  PROVE  CommandInv'
<1> DEFINE place == IF cmd[p].kind = "run" THEN "record" ELSE "ready"
<1>0. /\ cmd[p] \in Command /\ Relies(cmd[p]) /\ cmd[p].at = "bind"
      /\ root.journal /\ Moves(p, place) /\ place \in {"record", "ready"}
      /\ place = "record" => cmd[p].kind = "run"
      /\ cmd[p].config # 0 /\ cmd[p].config = boot.receipt
      /\ UNCHANGED << Lifecycle, faults, root, bundle, grants, record, outside >>
  BY CommandParts DEF Bind, IsAt, Relies, Resolution
<1> HIDE DEF place
<1>1. PICK c \in Command :
        /\ cmd' = [cmd EXCEPT ![p] = c]
        /\ c.at = place /\ c.kind = cmd[p].kind /\ c.config = cmd[p].config
  BY <1>0, MovesIs DEF At
<1>2. /\ boot' \in BootJournal /\ boot'.execution = cmd[p].config
      /\ boot'.receipt = boot.receipt /\ boot'.ops = boot.ops
      /\ \A k \in Bootstrap : State(k) = "completed"
  <2>0. boot \in BootJournal
    BY CommandParts
  <2>1. CASE boot.execution = BoundExecution(p) /\ UNCHANGED boot
    BY <1>0, <2>0, <2>1, CommandParts DEF Bound, BoundExecution
  <2>2. CASE boot' = [boot EXCEPT !.execution = BoundExecution(p)]
             /\ \A k \in Bootstrap : State(k) = "completed"
    BY <1>0, <2>0, <2>2 DEF BoundExecution, BootJournal, Command
  <2> QED
    BY <2>1, <2>2 DEF Bind
<1>3. Bound'
  BY <1>2, BootstrapIs, <1>0, CommandParts DEF State, Bound, Untouched,
     Lifecycle
<1>4. Relies(c)'
  BY <1>0, <1>1, <1>2 DEF Relies, Resolution, Attached, Before, At, Untouched, Lifecycle
<1> QED
  BY <1>0, <1>1, <1>2, <1>3, <1>4, CommandParts, CommandStep, ZenonT(60)

(* A bootstrap call throws. *)
LEMMA BootstrapFailsKeeps ==
  ASSUME CommandInv, NEW p \in Procs, BootstrapFails(p)
  PROVE  CommandInv'
<1> DEFINE asked == [ resolving    |-> "resolve_target_config",
                      selecting    |-> "select_target",
                      looking      |-> "prepare_container_bundle",
                      bundling     |-> "prepare_container_bundle",
                      provisioning |-> "provision_credentials" ]
           at == cmd[p].at
<1>1. DOMAIN asked = {"resolving", "selecting", "looking", "bundling", "provisioning"}
  OBVIOUS
<1>2. /\ at \in {"resolving", "selecting", "looking", "bundling", "provisioning",
                 "reconstructing", "credentials"}
      /\ faults' \in 0 .. MaxFaults /\ Moves(p, "failing")
      /\ UNCHANGED << Lifecycle, root, bundle, grants, record, outside >>
      /\ cmd[p] \in Command /\ Relies(cmd[p])
  BY <1>1, CommandParts DEF BootstrapFails
<1>3. CASE at \in DOMAIN asked /\ State(asked[at]) # "completed"
  <2>1. asked[at] \in Bootstrap
    BY <1>1, <1>3, BootstrapIs
  <2>2. PICK state \in {"ambiguous", "lookup_required"} : Observe(asked[at], state)
    BY <1>3 DEF BootstrapFails
  <2> HIDE DEF asked
  <2> QED
    BY <1>2, <1>3, <2>1, <2>2, CommandParts, ObserveStep DEF Before, At, BootState
<1>4. CASE ~(at \in DOMAIN asked /\ State(asked[at]) # "completed")
  <2>1. UNCHANGED boot
    BY <1>4 DEF BootstrapFails
  <2>2. \A c \in Command :
          c.at = "failing" /\ c.kind = cmd[p].kind /\ c.config = cmd[p].config => Relies(c)
    BY <1>2 DEF Relies, Resolution, Attached, Before, At
  <2> HIDE DEF asked
  <2> QED
    BY <1>2, <2>1, <2>2, CommandParts, CalmStep DEF At
<1> QED
  BY <1>3, <1>4

(* A command gives up before its lifecycle, and leaves the journal recoverable. *)
LEMMA PreserveKeeps ==
  ASSUME CommandInv, NEW p \in Procs, Preserve(p)
  PROVE  CommandInv'
<1>1. /\ cmd[p].at = "failing" /\ root.journal /\ Exits(p) /\ faults' \in 0 .. MaxFaults
      /\ UNCHANGED << target, world, spoilt, proc, root, boot, bundle, grants, record, outside >>
  BY CommandParts DEF Preserve, IsAt, Relies
<1>2. CASE UNCHANGED journal
  BY <1>1, CommandParts, <1>2, ExitsStep DEF Bound, State, Untouched, Lifecycle
<1>3. CASE journal' = MarkRecoverable(journal)
  <2>0. /\ \A q \in Procs : proc[q].mode = "off"
        /\ \A q \in Procs : q # p => cmd[q].at = "idle"
    BY <1>1 DEF CommandInv, Commanded
  <2>1. journal \in Journal /\ Founded(target, journal)
    BY InvParts DEF CommandInv
  <2>2. /\ journal' \in Journal /\ Founded(target, journal')
        /\ journal'.phase = journal.phase /\ journal'.ops = journal.ops
    BY <1>3, <2>1, RecoverableFounded DEF MarkRecoverable, Journal
  <2>3. TypeOK' /\ Inv'
    BY <1>1, <2>2 DEF CommandInv, Inv, TypeOK
  <2>4. Orderly'
    BY <1>1, <2>2, <2>0 DEF CommandInv, Orderly, Alone, IntentDurable, Timely,
       Knows
  <2>5. Idle \in Command /\ Idle.at = "idle" /\ cmd' = [cmd EXCEPT ![p] = Idle]
    BY <1>1 DEF Idle, Command, At, Exits
  <2>6. /\ cmd' \in [Procs -> Command]
        /\ \A q \in Procs : cmd'[q].at = "idle"
    BY <2>0, <2>5, CommandTypes DEF CommandInv
  <2>7. CommandTypeOK'
    BY <1>1, <2>3, <2>6 DEF CommandInv, CommandTypeOK, Command
  <2>8. Bound'
    BY <1>1, CommandParts DEF Bound, State, Untouched
  <2>9. Commanded'
    <3>1. ASSUME NEW q \in Procs PROVE Relies(cmd[q])'
      BY <2>6 DEF Relies, Resolution, Attached, Before
    <3> QED
      BY <1>1, <2>0, <2>6, <3>1 DEF Commanded
  <2> QED
    BY <2>3, <2>4, <2>7, <2>8, <2>9 DEF CommandInv
<1> QED
  BY <1>2, <1>3 DEF Preserve

(* The capsule is read, the record created, or not. *)
LEMMA RecordsKeep ==
  ASSUME CommandInv, NEW p \in Procs, Reconstruct(p) \/ CreateRecord(p) \/ RecordFails(p)
  PROVE  CommandInv'
<1>0. cmd[p] \in Command /\ Relies(cmd[p])
  BY CommandParts
<1>1. CASE Reconstruct(p)
  BY <1>1, <1>0, CommandParts, CalmStep DEF Reconstruct, IsAt, Relies,
     Resolution, Attached, Before, At
<1>2. CASE CreateRecord(p)
  BY <1>2, <1>0, CommandParts, CalmStep DEF CreateRecord, IsAt, Relies,
     Resolution, Attached, Before, At
<1>3. CASE RecordFails(p)
  <2>1. /\ cmd[p].at = "record" /\ Exits(p)
        /\ root' \in {NoRoot, [root EXCEPT !.journal = FALSE],
                      [root EXCEPT !.selected = "torn"], root}
        /\ boot' = IF root'.journal THEN boot ELSE NoJournal
        /\ faults' \in 0 .. MaxFaults
        /\ UNCHANGED << Lifecycle, bundle, record >>
    BY <1>3, CommandParts DEF RecordFails, IsAt
  <2>2. PICK live \in BOOLEAN :
          /\ grants' = IF root'.journal THEN [grants EXCEPT !.live = live] ELSE NoGrants
          /\ outside' = [outside EXCEPT !.adrift = @ \/ (live /\ ~root'.journal)]
    BY <1>3, CommandParts DEF RecordFails
  <2>3. /\ root' \in [dir : BOOLEAN, journal : BOOLEAN,
                       selected : {"absent", "torn", "whole"}]
        /\ root'.journal => root'.dir
    <3>1. /\ root \in [dir : BOOLEAN, journal : BOOLEAN,
                       selected : {"absent", "torn", "whole"}]
          /\ root.journal => root.dir
      BY CommandParts DEF Bound
    <3>2. CASE root' = NoRoot
      BY <3>2 DEF NoRoot
    <3>3. CASE root' = [root EXCEPT !.journal = FALSE]
      BY <3>1, <3>3
    <3>4. CASE root' = [root EXCEPT !.selected = "torn"]
      BY <3>1, <3>4
    <3>5. CASE root' = root
      BY <3>1, <3>5
    <3> QED
      BY <2>1, <3>2, <3>3, <3>4, <3>5
  <2>4. /\ NoGrants \in [inflight : BOOLEAN, count : 0 .. 2, live : BOOLEAN]
        /\ NoGrants.count = 0 /\ ~NoGrants.inflight
        /\ NoJournal \in BootJournal /\ NoJournal.execution = 0
    BY DEF NoGrants, NoJournal, BootJournal, BootState
  <2>5. /\ grants' \in [inflight : BOOLEAN, count : 0 .. 2, live : BOOLEAN]
        /\ root'.journal => grants'.count = grants.count /\ grants'.inflight = grants.inflight
        /\ boot' \in BootJournal
    BY <2>1, <2>2, <2>4, CommandParts
  <2>6. outside' \in [config : Config, behind : BOOLEAN, adrift : BOOLEAN]
    <3> DEFINE a == outside.adrift \/ (live /\ ~root'.journal)
    <3>1. a \in BOOLEAN
      OBVIOUS
    <3>2. outside' = [outside EXCEPT !.adrift = a]
      BY <2>2
    <3> HIDE DEF a
    <3> QED
      BY <3>1, <3>2, CommandParts
  <2>7. Untouched
    BY <1>0, <2>1 DEF Relies, Before, At
  <2>8. root'.journal => State("provision_credentials") = "completed"
    BY <1>0, <2>1, CommandParts, BootstrapIs DEF Relies, Attached, Resolution, Bound
  <2>9. Bound'
    <3>1. CASE root'.journal
      BY <1>0, <2>1, <3>1, <2>3, <2>5, <2>7, <2>8, CommandParts DEF Relies, At,
         Bound, State, Untouched, Lifecycle
    <3>2. CASE ~root'.journal
      BY <2>1, <2>2, <2>3, <2>4, <2>7, <3>2 DEF Bound, Untouched, Lifecycle
    <3> QED
      BY <3>1, <3>2
  <2> QED
    BY <2>1, <2>3, <2>5, <2>6, <2>9, CommandParts, ExitsStep
<1> QED
  BY <1>1, <1>2, <1>3

(* The end of a command whose lifecycle has ended. *)
LEMMA FinishKeeps ==
  ASSUME CommandInv, NEW p \in Procs, Finish(p) \/ SealFails(p) \/ CleanupFails(p)
  PROVE  CommandInv'
<1>1. /\ cmd[p].at \in {"sealing", "aborting", "throwing"} /\ Exits(p)
      /\ UNCHANGED << Lifecycle, root, boot, bundle, outside >>
      /\ record' \in {"absent", "staging", "sealed"}
      /\ faults' \in 0 .. MaxFaults
      /\ grants' = grants \/ grants' = [grants EXCEPT !.live = FALSE]
  BY CommandParts DEF Finish, SealFails, CleanupFails, IsAt
<1>2. /\ grants' \in [inflight : BOOLEAN, count : 0 .. 2, live : BOOLEAN]
      /\ grants'.count = grants.count /\ grants'.inflight = grants.inflight
      /\ grants = NoGrants => grants' = NoGrants
  <2>1. NoGrants.live = FALSE
    BY DEF NoGrants
  <2> QED
    BY <1>1, <2>1, CommandParts, ZenonT(60)
<1>3. Bound'
  BY <1>1, <1>2, CommandParts DEF Bound, State, Untouched, Lifecycle
<1> QED
  BY <1>1, <1>2, <1>3, CommandParts, ExitsStep

-----------------------------------------------------------------------------
(* The lifecycle inside the command.                                        *)

(* A step of one process that changes nothing but that process. *)
LEMMA OrderlyLocal ==
  ASSUME Inv, Orderly, NEW p \in Procs, NEW me \in Process,
         Stray(me) \/ Knows(target, journal, me),
         me.mode # "off" => \A q \in Procs : q # p => proc[q].mode = "off",
         proc' = [proc EXCEPT ![p] = me],
         UNCHANGED << journal, target >>
  PROVE  Orderly'
<1>1. \A q \in Procs : proc'[q] = IF q = p THEN me ELSE proc[q]
  BY InvParts DEF ProcType
<1>2. Alone'
  BY <1>1 DEF Orderly, Alone
<1>3. ASSUME NEW q \in Procs PROVE (Stray(proc[q]) \/ Knows(target, journal, proc[q]))'
  <2>1. CASE q = p
    BY <1>1, <2>1
  <2>2. CASE q # p
    BY <1>1, <2>2 DEF Orderly
  <2> QED
    BY <2>1, <2>2
<1>4. IntentDurable' /\ Timely'
  BY DEF Orderly, IntentDurable, Timely
<1> QED
  BY <1>2, <1>3, <1>4 DEF Orderly

(* Only a process that is on takes a step. *)
LEMMA WorksOn ==
  ASSUME NEW p \in Procs, Work(p) \/ Disturbance(p)
  PROVE  /\ proc[p].mode # "off"
         /\ proc[p].mode = "failing" => GiveUp(p) \/ Interrupt(p) \/ Crash(p)
<1>1. ASSUME NEW op \in Operation, MakeCall(p, op) PROVE proc[p].mode = "work"
  BY <1>1 DEF MakeCall, HasReceipt, Intend, LookUp, PrepareAgain, LifecycleLookUp,
     AskDirectly, Wants
<1>2. ASSUME NEW op, LookUpFails(p, op) PROVE proc[p].mode = "work"
  BY <1>2 DEF LookUpFails, Wants
<1> QED
  BY <1>1, <1>2, Zenon DEF Work, Disturbance, Commit, CannotLayOut, Overtaken, Deliver, Return,
     CallEnds, CheckReplace, Rename, Confirm, GiveUp, CallBreaks, ReceiptRejected, Interrupt, Crash

(* It leaves the others on or off as they are. *)
LEMMA WorksAlone ==
  ASSUME Inv, NEW p \in Procs, Work(p) \/ Disturbance(p)
  PROVE  \A q \in Procs : q # p => proc'[q].mode = proc[q].mode
<1>0. \A q \in Procs : proc[q] \in Process
  BY InvParts
<1>1. \/ \E me : proc' = [proc EXCEPT ![p] = me]
      \/ Rename(p)
  <2>0. ASSUME NEW op, Receives(p, op)
        PROVE  \E me : proc' = [proc EXCEPT ![p] = me]
    BY <2>0, Zenon DEF Receives, Replace, Goes
  <2>1. ASSUME NEW op \in Operation, MakeCall(p, op)
        PROVE  \E me : proc' = [proc EXCEPT ![p] = me]
    <3>1. CASE HasReceipt(p, op)
      BY <3>1, Zenon DEF HasReceipt, Goes, NextStep
    <3>2. CASE LookUp(p, op)
      BY <2>0, <3>2, Zenon DEF LookUp, Replace, Goes
    <3>3. CASE LifecycleLookUp(p, op)
      BY <3>3, Zenon DEF LifecycleLookUp, Goes, NextStep
    <3>4. CASE Intend(p, op) \/ PrepareAgain(p, op) \/ AskDirectly(p, op)
      BY <3>4, Zenon DEF Intend, PrepareAgain, AskDirectly, Replace, Goes
    <3> QED
      BY <2>1, <3>1, <3>2, <3>3, <3>4, Zenon DEF MakeCall
  <2>2. ASSUME NEW op, LookUpFails(p, op)
        PROVE  \E me : proc' = [proc EXCEPT ![p] = me]
    BY <2>2, Zenon DEF LookUpFails, Goes
  <2>3. CASE Commit(p) \/ CannotLayOut(p) \/ Overtaken(p) \/ Deliver(p) \/ ReceiptRejected(p)
    BY <2>3, Zenon DEF Commit, CannotLayOut, Overtaken, Deliver, ReceiptRejected, Replace, Goes
  <2>6. CASE CallEnds(p) \/ CallBreaks(p)
    BY <2>6 DEF CallEnds, CallBreaks, Throws, Replace, Goes
  <2>5. CASE Return(p)
    BY <2>0, <2>5, Zenon DEF Return, Goes, NextStep
  <2>4. CASE CheckReplace(p) \/ Confirm(p) \/ GiveUp(p) \/ Interrupt(p) \/ Crash(p)
    BY <2>4, Zenon DEF CheckReplace, Confirm, GiveUp, Interrupt, Crash, Stops, Replace, Goes
  <2> QED
    BY <2>1, <2>2, <2>3, <2>4, <2>5, <2>6, Zenon DEF Work, Disturbance
<1>2. CASE Rename(p)
  BY <1>0, <1>2 DEF Rename, Process
<1>3. CASE \E me : proc' = [proc EXCEPT ![p] = me]
  BY <1>3, InvParts DEF ProcType
<1> QED
  BY <1>1, <1>2, <1>3

(* The steps of ComposedRun keep its processes orderly. *)
LEMMA OrderlyStep ==
  ASSUME ~Overlap, Inv, Orderly, [Next]_vars
  PROVE  Orderly'
<1>1. CASE \A p \in Procs : Knows(target, journal, proc[p])
  BY <1>1, NextSerial DEF Orderly, Serial
<1>2. ASSUME NEW p \in Procs, ~Knows(target, journal, proc[p])
      PROVE  Orderly'
  <2>1. /\ Stray(proc[p]) /\ proc[p].mode = "failing" /\ ~proc[p].current
        /\ \A q \in Procs : q # p => proc[q].mode = "off"
        /\ proc[p] \in Process
    BY <1>2, InvParts DEF Orderly, Stray, Alone
  <2>2. CASE Spawnfile
    <3>0. UNCHANGED << journal, proc >>
      BY <2>2 DEF Spawnfile, TakesEffect, IsSpoilt, HasNoEffect, WorldEnds
    <3>1. \A op \in Operation : target'[op] # "absent" => target[op] # "absent"
      BY <2>2, InvParts DEF Spawnfile, TakesEffect, IsSpoilt, HasNoEffect, WorldEnds, Target
    <3>2. \A q \in Procs : (Stray(proc[q]) \/ Knows(target, journal, proc[q]))'
      BY <2>1, <3>0 DEF Stray, Knows
    <3>3. IntentDurable' /\ Timely' /\ Alone'
      BY <3>0, <3>1, JournaledAreOperations DEF Orderly, IntentDurable, Timely, Alone
    <3> QED
      BY <3>2, <3>3 DEF Orderly
  <2>3. ASSUME NEW q \in Procs, Start(q) PROVE Orderly'
    BY <2>1, <2>3 DEF Start
  <2>4. ASSUME NEW q \in Procs, Work(q) \/ Disturbance(q) PROVE Orderly'
    <3>1. q = p /\ (GiveUp(p) \/ Interrupt(p) \/ Crash(p))
      BY <2>1, <2>4, WorksOn
    <3>2. UNCHANGED << journal, target >>
      BY <3>1 DEF GiveUp, Interrupt, Crash
    <3>3. CASE Stops(p)
      BY OffType, <3>2, <3>3, OrderlyLocal DEF Off, Knows, Stops
    <3>4. CASE Interrupt(p)
      <4> DEFINE me == [proc[p] EXCEPT !.signal = TRUE]
      <4>1. me \in Process /\ me.mode = "failing" /\ ~me.current
        BY <2>1 DEF Process
      <4>2. proc' = [proc EXCEPT ![p] = me]
        BY <3>4 DEF Interrupt
      <4> HIDE DEF me
      <4> QED
        BY <2>1, <3>2, <4>1, <4>2, OrderlyLocal DEF Stray
    <3> QED
      BY <2>1, <3>1, <3>3, <3>4 DEF GiveUp, Crash
  <2>5. CASE UNCHANGED vars
    BY <2>5 DEF Orderly, Alone, IntentDurable, Timely, vars
  <2> QED
    BY <2>2, <2>3, <2>4, <2>5 DEF Next
<1> QED
  BY <1>1, <1>2

(* What the command makes of a step of its process. *)
LEMMA WithinStep ==
  ASSUME CommandInv, NEW p \in Procs, NEW c \in Command,
         cmd' = [cmd EXCEPT ![p] = c],
         cmd[p].at \in {"ready", "lifecycle"},
         \/ c.at = "lifecycle" /\ c.kind = cmd[p].kind /\ c.config = cmd[p].config
         \/ c.at \in {"idle", "sealing", "aborting", "throwing"} /\ proc'[p].mode = "off",
         \A q \in Procs : q # p => proc'[q].mode = proc[q].mode,
         Inv', Orderly',
         UNCHANGED << root, boot, bundle, grants, record, outside >>
  PROVE  CommandInv'
<1>0. /\ root.journal /\ boot.execution # 0
      /\ cmd[p].config = boot.receipt /\ cmd[p].config = boot.execution
  BY CommandParts DEF Relies, Attached, Resolution
<1>1. \A q \in Procs : cmd'[q] = IF q = p THEN c ELSE cmd[q]
  BY CommandTypes DEF CommandInv
<1>2. \A q \in Procs : q # p => cmd[q].at = "idle" /\ proc[q].mode = "off"
  BY DEF CommandInv, Commanded
<1>3. CommandTypeOK'
  BY CommandTypes DEF CommandInv, Inv, CommandTypeOK, Command
<1>4. Bound'
  BY <1>0, CommandParts DEF Bound, State, Untouched
<1>5. Commanded'
  <2>1. ASSUME NEW q \in Procs PROVE Relies(cmd[q])'
    <3>1. CASE q = p
      BY <1>1, <1>0, <3>1 DEF Relies, Resolution, Attached, Before
    <3>2. CASE q # p
      BY <1>1, <1>2, <3>2 DEF Relies, Resolution, Attached, Before
    <3> QED
      BY <3>1, <3>2
  <2>2. \A q \in Procs : q # p => cmd'[q].at = "idle" /\ proc'[q].mode = "off"
    BY <1>1, <1>2
  <2>3. proc'[p].mode # "off" => cmd'[p].at = "lifecycle"
    BY <1>1
  <2> QED
    BY <2>1, <2>2, <2>3 DEF Commanded
<1> QED
  BY <1>3, <1>4, <1>5 DEF CommandInv

(* The lifecycle starts. *)
LEMMA StartLifecycleKeeps ==
  ASSUME ~Overlap, CommandInv, NEW p \in Procs, StartLifecycle(p)
  PROVE  CommandInv'
<1>1. /\ cmd[p].at = "ready" /\ Start(p) /\ Moves(p, "lifecycle")
      /\ UNCHANGED << root, boot, bundle, grants, record, outside >>
  BY DEF StartLifecycle, IsAt
<1>2. [Next]_vars
  BY <1>1 DEF Next
<1>3. Inv' /\ Orderly'
  BY <1>2, NextInv, OrderlyStep DEF CommandInv
<1>4. PICK c \in Command :
        /\ cmd' = [cmd EXCEPT ![p] = c]
        /\ c.at = "lifecycle" /\ c.kind = cmd[p].kind /\ c.config = cmd[p].config
  BY <1>1, MovesIs DEF At
<1>5. \A q \in Procs : q # p => proc'[q].mode = proc[q].mode
  BY <1>1, InvParts DEF Start, ProcType, CommandInv
<1> QED
  BY <1>1, <1>3, <1>4, <1>5, WithinStep

(* A step inside the lifecycle, whatever it was. *)
LEMMA WithinKeeps ==
  ASSUME CommandInv, NEW p \in Procs, NEW outcome \in {"sealing", "aborting", "throwing"},
         Within(p, TRUE, outcome),
         \A q \in Procs : q # p => proc'[q].mode = proc[q].mode,
         Inv', Orderly'
  PROVE  CommandInv'
<1>1. /\ cmd[p].at = "lifecycle" /\ cmd[p] \in Command
      /\ UNCHANGED << root, boot, bundle, grants, record, outside >>
      /\ cmd \in [Procs -> Command]
  BY CommandParts, CommandTypes DEF Within, IsAt, CommandInv
<1>2. CASE proc'[p].mode # "off" /\ UNCHANGED cmd
  BY <1>1, <1>2, WithinStep
<1>3. CASE proc'[p].mode = "off" /\ Moves(p, outcome)
  <2>1. PICK c \in Command : cmd' = [cmd EXCEPT ![p] = c] /\ c.at = outcome
    BY <1>3, MovesIs DEF At
  <2> QED
    BY <1>1, <1>3, <2>1, WithinStep
<1>4. CASE proc'[p].mode = "off" /\ Exits(p)
  BY <1>4, <1>1, WithinStep DEF Idle, Command, At, Exits
<1> QED
  BY <1>2, <1>3, <1>4 DEF Within

(* Every step of the process inside the command, the two that only the command can see
   included (ClockRefusesPhase, JournalFails). *)
LEMMA LifecycleKeeps ==
  ASSUME ~Overlap, CommandInv, NEW p \in Procs, LifecycleWork(p) \/ LifecycleDisturbed(p)
  PROVE  CommandInv'
<1>0. Inv /\ Orderly
  BY DEF CommandInv
<1>1. Outcome(p) \in {"sealing", "aborting", "throwing"}
  BY DEF Outcome
<1>2. /\ cmd[p].at = "lifecycle"
      /\ \A q \in Procs : q # p => proc[q].mode = "off"
      /\ proc[p] \in Process /\ faults \in 0 .. MaxFaults
      /\ Fault => faults' \in 0 .. MaxFaults
  BY <1>0, InvParts, CommandParts DEF LifecycleWork, LifecycleDisturbed, Within, IsAt,
     CommandInv, Commanded
<1>3. ASSUME Work(p) \/ Disturbance(p)
      PROVE  Inv' /\ Orderly' /\ \A q \in Procs : q # p => proc'[q].mode = proc[q].mode
  BY <1>3, <1>0, NextInv, OrderlyStep, WorksAlone DEF Next
<1>4. ASSUME NEW me \in Process, proc' = [proc EXCEPT ![p] = me],
             UNCHANGED << journal, target, world >>, spoilt' \subseteq Operation,
             faults' \in 0 .. MaxFaults,
             me.mode \in {"off", "failing"}, me.snap = proc[p].snap,
             proc[p].mode # "off",
             me.mode = "failing" /\ me.current =>
               proc[p].current /\ proc[p].mode \in {"work", "replacing"}
      PROVE  Inv' /\ Orderly' /\ \A q \in Procs : q # p => proc'[q].mode = proc[q].mode
  BY <1>0, <1>4, InvParts, <1>2, LocalStep, OrderlyLocal DEF Sound, Writing,
     Orderly, Stray, Knows, ProcType
<1>5. ASSUME ClockRefusesPhase(p)
      PROVE  Inv' /\ Orderly' /\ \A q \in Procs : q # p => proc'[q].mode = proc[q].mode
  <2> DEFINE me == [proc[p] EXCEPT !.mode = "failing"]
  <2>1. /\ me \in Process /\ me.mode = "failing" /\ me.snap = proc[p].snap
        /\ me.current = proc[p].current
    BY <1>2 DEF Process, Mode
  <2>2. /\ proc' = [proc EXCEPT ![p] = me] /\ proc[p].mode = "work"
        /\ UNCHANGED << journal, target, world, faults >>
    BY <1>5 DEF ClockRefusesPhase, AtPhaseEnd, Goes
  <2>3. spoilt' \subseteq Operation
    BY <1>0, <1>5, FaultsTyped
    DEF ClockRefusesPhase, WithLaidOut, Operation, JournaledOps, TargetOps
  <2> HIDE DEF me
  <2> QED
    BY <1>2, <1>4, <2>1, <2>2, <2>3
<1>6. ASSUME JournalFails(p)
      PROVE  Inv' /\ Orderly' /\ \A q \in Procs : q # p => proc'[q].mode = proc[q].mode
  <2>1. /\ proc[p].mode \in {"replacing", "confirming"} /\ faults' \in 0 .. MaxFaults
        /\ UNCHANGED << journal, target, world, spoilt >>
    BY <1>2, <1>6 DEF JournalFails
  <2>2. CASE Stops(p)
    BY OffType, <1>0, <2>2, InvParts, <2>1, StopsStep, OrderlyLocal DEF Off,
       Knows, Stops, ProcType
  <2>3. CASE proc' = [proc EXCEPT ![p].mode = "failing",
                                  ![p].current = @ /\ proc[p].mode = "replacing"]
    <3> DEFINE keeps == proc[p].current /\ proc[p].mode = "replacing"
               me == [proc[p] EXCEPT !.mode = "failing", !.current = keeps]
    <3>1. keeps \in BOOLEAN
      BY <1>2 DEF Process
    <3>2. proc' = [proc EXCEPT ![p] = me]
      BY <1>0, <2>3, InvParts DEF ProcType, Process
    <3>3. /\ me \in Process /\ me.mode = "failing" /\ me.snap = proc[p].snap
          /\ me.current = keeps
      <4> HIDE DEF keeps
      <4> QED
        BY <1>2, <3>1 DEF Process, Mode
    <3>4. me.current => proc[p].current /\ proc[p].mode = "replacing"
      BY <3>3
    <3> HIDE DEF me, keeps
    <3> QED
      BY <1>0, <1>4, <2>1, <3>2, <3>3, <3>4, FaultsTyped
  <2> QED
    BY <1>6, <2>2, <2>3 DEF JournalFails
<1>7. CASE LifecycleWork(p)
  BY <1>7, <1>1, <1>3, <1>5, WithinKeeps DEF LifecycleWork, Within
<1>8. CASE LifecycleDisturbed(p)
  BY <1>8, <1>1, <1>3, <1>6, WithinKeeps DEF LifecycleDisturbed, Disturbed,
     Within
<1> QED
  BY <1>7, <1>8

(* A crash takes the command and its process away. *)
LEMMA CommandCrashKeeps ==
  ASSUME CommandInv, NEW p \in Procs, CommandCrash(p)
  PROVE  CommandInv'
<1>0. Inv /\ Orderly
  BY DEF CommandInv
<1>1. /\ cmd[p].at # "idle" /\ Stops(p)
      /\ cmd' = [cmd EXCEPT ![p] = Idle]
      /\ UNCHANGED << journal, target, world, spoilt, root, boot, bundle, grants, record,
                      outside >>
      /\ faults' \in 0 .. MaxFaults
  BY CommandParts DEF CommandCrash, IsAt, Exits
<1>2. Inv'
  BY <1>0, <1>1, StopsStep
<1>3. Orderly'
  BY OffType, <1>0, <1>1, OrderlyLocal DEF Off, Knows, Stops
<1>4. Idle \in Command /\ Idle.at = "idle"
  BY DEF Idle, Command, At
<1>5. \A q \in Procs : cmd'[q].at = "idle"
  BY <1>1, CommandTypes, <1>4 DEF CommandInv, Commanded
<1>6. \A q \in Procs : proc'[q].mode = "off"
  BY <1>0, <1>1, InvParts DEF Stops, ProcType, CommandInv, Commanded, Off
<1>7. CommandTypeOK'
  BY <1>1, <1>4, CommandTypes, <1>2 DEF CommandInv, CommandTypeOK, Command, Inv
<1>8. Bound'
  BY <1>1 DEF CommandInv, Bound, State, Untouched
<1>9. Commanded'
  <2>1. ASSUME NEW q \in Procs PROVE Relies(cmd[q])'
    BY <1>5 DEF Relies, Resolution, Attached, Before
  <2> QED
    BY <1>5, <1>6, <2>1 DEF Commanded
<1> QED
  BY <1>2, <1>3, <1>7, <1>8, <1>9 DEF CommandInv

-----------------------------------------------------------------------------
(* What happens around the commands.                                        *)

(* It leaves what the commands know as it is. *)
LEMMA AroundStep ==
  ASSUME CommandInv, UNCHANGED << cmd, root, boot, journal, proc >>,
         Inv', Orderly', CommandTypeOK', Bound', Untouched => Untouched'
  PROVE  CommandInv'
<1>1. ASSUME NEW q \in Procs PROVE Relies(cmd[q])'
  BY CommandParts DEF Relies, State
<1>2. Commanded'
  BY <1>1 DEF CommandInv, Commanded
<1> QED
  BY <1>2 DEF CommandInv

(* Where the lifecycle does not move either, its part of the invariant stays. *)
LEMMA LifecycleStays ==
  ASSUME CommandInv, UNCHANGED Lifecycle, faults' \in 0 .. MaxFaults
  PROVE  Inv' /\ Orderly' /\ TypeOK' /\ (Untouched => Untouched')
<1>1. TypeOK'
  BY DEF CommandInv, Inv, TypeOK, Lifecycle
<1>2. Inv'
  BY <1>1 DEF CommandInv, Inv, Lifecycle
<1>3. Alone' /\ IntentDurable' /\ Timely'
  BY DEF CommandInv, Orderly, Alone, IntentDurable, Timely, Lifecycle
<1>4. \A q \in Procs : (Stray(proc[q]) \/ Knows(target, journal, proc[q]))'
  BY DEF CommandInv, Orderly, Lifecycle
<1>5. Untouched => Untouched'
  BY DEF Untouched, Lifecycle
<1> QED
  BY <1>1, <1>2, <1>3, <1>4, <1>5 DEF Orderly

(* Spawnfile carries out what it was asked, and only that. *)
LEMMA SpawnfileKeepsCommands ==
  ASSUME ~Overlap, CommandInv, Spawnfile, UNCHANGED commandVars
  PROVE  CommandInv'
<1>0. Inv /\ Orderly /\ CommandTypeOK /\ Bound
  BY DEF CommandInv
<1>1. UNCHANGED << cmd, root, boot, bundle, grants, record, outside >>
  BY DEF commandVars
<1>2. [Next]_vars
  BY DEF Next
<1>3. Inv' /\ Orderly'
  BY <1>0, <1>2, NextInv, OrderlyStep
<1>4. UNCHANGED << journal, proc >>
  BY DEF Spawnfile, TakesEffect, IsSpoilt, HasNoEffect, WorldEnds
<1>5. \A op \in Operation : target'[op] # "absent" => target[op] # "absent"
  BY <1>0, InvParts DEF Spawnfile, TakesEffect, IsSpoilt, HasNoEffect, WorldEnds, Target
<1>6. Untouched => Untouched'
  BY <1>5 DEF Untouched
<1>7. CommandTypeOK'
  BY <1>0, <1>1, <1>3 DEF CommandTypeOK, Inv
<1>8. Bound'
  BY <1>0, <1>1, <1>6 DEF Bound, State
<1> QED
  BY <1>1, <1>3, <1>4, <1>6, <1>7, <1>8, AroundStep

(* The credentials arrive once: nothing is under way afterwards. *)
LEMMA GrantsKeep ==
  ASSUME CommandInv, Provision \/ ProvisionRefused
  PROVE  CommandInv'
<1>0. CommandTypeOK /\ Bound
  BY DEF CommandInv
<1>1. /\ grants.inflight
      /\ UNCHANGED << Lifecycle, cmd, root, boot, bundle, record, outside >>
      /\ faults' \in 0 .. MaxFaults
  BY <1>0, FaultsTyped DEF Provision, ProvisionRefused, CommandInv
<1>2. /\ Inv' /\ Orderly' /\ TypeOK' /\ (Untouched => Untouched')
  BY <1>1, LifecycleStays
<1>3. /\ root.journal /\ State("provision_credentials") # "none" /\ grants.count = 0
  BY <1>0, <1>1 DEF Bound, NoGrants
<1>4. grants \in [inflight : BOOLEAN, count : 0 .. 2, live : BOOLEAN]
  BY <1>0 DEF CommandTypeOK
<1>5. PICK g \in [inflight : BOOLEAN, count : 0 .. 2, live : BOOLEAN] :
        grants' = g /\ ~g.inflight /\ g.count \in {0, 1}
  <2>1. CASE Provision
    <3> DEFINE g == [inflight |-> FALSE, count |-> 1, live |-> TRUE]
    <3>1. grants' = g
      BY <1>3, <2>1 DEF Provision
    <3>2. /\ g \in [inflight : BOOLEAN, count : 0 .. 2, live : BOOLEAN]
          /\ ~g.inflight /\ g.count = 1
      OBVIOUS
    <3> HIDE DEF g
    <3> QED
      BY <3>1, <3>2
  <2>2. CASE ProvisionRefused
    <3> DEFINE g == [grants EXCEPT !.inflight = FALSE]
    <3>1. grants' = g /\ g.count = 0
      BY <1>3, <1>4, <2>2 DEF ProvisionRefused
    <3> QED
      BY <1>4, <3>1
  <2> QED
    BY <2>1, <2>2
<1>6. CommandTypeOK'
  BY <1>0, <1>1, <1>2, <1>5 DEF CommandTypeOK
<1>7. Bound'
  BY <1>0, <1>1, <1>2, <1>3, <1>5 DEF Bound, State, Lifecycle, Untouched
<1> QED
  BY <1>1, <1>2, <1>6, <1>7, AroundStep DEF Lifecycle

(* The bundle at Spawnfile, the target and the wall clock change on their own. *)
LEMMA AroundKeeps ==
  ASSUME CommandInv,
         \/ BundleTakesEffect \/ BundleIsRolledBack
         \/ TargetDrifts \/ ClockStepsBack \/ ClockCatchesUp
  PROVE  CommandInv'
<1>0. CommandTypeOK /\ Bound /\ outside \in [config : Config, behind : BOOLEAN, adrift : BOOLEAN]
  BY DEF CommandInv, CommandTypeOK
<1>1. /\ UNCHANGED << Lifecycle, cmd, root, boot, grants, record >>
      /\ faults' \in 0 .. MaxFaults
      /\ bundle' \in {"absent", "running", "done"}
  BY <1>0, FaultsTyped
  DEF BundleTakesEffect, BundleIsRolledBack, TargetDrifts, ClockStepsBack, ClockCatchesUp,
      CommandInv, CommandTypeOK
<1>2. outside' \in [config : Config, behind : BOOLEAN, adrift : BOOLEAN]
  <2>1. outside.config \in Config /\ 3 - outside.config \in Config
    BY <1>0 DEF Config
  <2>2. CASE TargetDrifts
    BY <2>2, <1>0, <2>1 DEF TargetDrifts
  <2>3. CASE ClockStepsBack \/ ClockCatchesUp
    BY <1>0, <2>3 DEF ClockStepsBack, ClockCatchesUp
  <2>4. CASE BundleTakesEffect \/ BundleIsRolledBack
    BY <1>0, <2>4 DEF BundleTakesEffect, BundleIsRolledBack
  <2> QED
    BY <2>2, <2>3, <2>4
<1>3. /\ Inv' /\ Orderly' /\ TypeOK' /\ (Untouched => Untouched')
  BY <1>1, LifecycleStays
<1>4. CommandTypeOK'
  BY <1>0, <1>1, <1>2, <1>3 DEF CommandTypeOK
<1>5. Bound'
  BY <1>0, <1>1 DEF Bound, State, Lifecycle, Untouched
<1> QED
  BY <1>1, <1>3, <1>4, <1>5, AroundStep DEF Lifecycle

-----------------------------------------------------------------------------
(* The invariant of the commands.                                           *)

(* It holds of a machine on which nothing has run yet. *)
LEMMA InitCommandInv == CommandInit => CommandInv
<1> SUFFICES ASSUME CommandInit PROVE CommandInv
  OBVIOUS
<1>1. Inv /\ Serial /\ Init
  BY InitInv, InitSerial DEF CommandInit
<1>2. Orderly
  BY <1>1 DEF Serial, Orderly
<1>3. /\ NoJournal \in BootJournal /\ NoJournal.execution = 0
      /\ \A k \in Bootstrap : NoJournal.ops[k] = "none"
  BY DEF NoJournal, BootJournal, BootState
<1>4. Idle \in Command /\ Idle.at = "idle"
  BY DEF Idle, Command, At
<1>5. CommandTypeOK
  BY <1>1, <1>3, <1>4
  DEF CommandInit, CommandTypeOK, Inv, Command, BootJournal, NoRoot, NoGrants, Config
<1>6. Bound
  BY <1>1, <1>3, BootstrapIs
  DEF CommandInit, Init, Bound, State, Untouched, NoRoot, NoGrants
<1>7. Commanded
  <2>1. \A q \in Procs : cmd[q].at = "idle" /\ proc[q].mode = "off"
    BY <1>1, <1>4 DEF CommandInit, Init, Off
  <2>2. ASSUME NEW q \in Procs PROVE Relies(cmd[q])
    BY <2>1 DEF Relies, Resolution, Attached, Before
  <2> QED
    BY <1>1, <1>4, <2>1, <2>2 DEF CommandInit, Commanded
<1> QED
  BY <1>1, <1>2, <1>5, <1>6, <1>7 DEF CommandInv

(* Every step keeps it. *)
LEMMA NextCommandInv ==
  ASSUME ~Overlap, CommandInv, [CommandNext]_allVars
  PROVE  CommandInv'
<1>1. CASE Surroundings
  BY <1>1, SpawnfileKeepsCommands, GrantsKeep, AroundKeeps DEF Surroundings
<1>2. ASSUME NEW p \in Procs, RunStart(p) \/ RecoverStart(p)
      PROVE  CommandInv'
  BY <1>2, RunStartKeeps, RecoverStartKeeps
<1>3. ASSUME NEW p \in Procs, BootstrapWork(p)
      PROVE  CommandInv'
  BY <1>3, PreparingKeeps, RecordsKeep, IntendsKeep, ResolvedKeeps, BundlesKeep, FileKeeps,
     CredentialsKeep, BindKeeps, PreserveKeeps DEF BootstrapWork
<1>4. ASSUME NEW p \in Procs, CommandWork(p)
      PROVE  CommandInv'
  BY <1>3, <1>4, RecordsKeep, StartLifecycleKeeps, LifecycleKeeps, FinishKeeps
  DEF CommandWork
<1>5. ASSUME NEW p \in Procs, CommandDisturbance(p)
      PROVE  CommandInv'
  BY <1>5, PreparingKeeps, BootstrapFailsKeeps, RecordsKeep, LifecycleKeeps, FinishKeeps,
     CommandCrashKeeps DEF CommandDisturbance
<1>6. CASE UNCHANGED allVars
  BY <1>6, FaultsTyped, LifecycleStays, AroundStep DEF allVars, vars,
     commandVars, Lifecycle, CommandInv, CommandTypeOK, Bound, State, Untouched
<1> QED
  BY <1>1, <1>2, <1>4, <1>5, <1>6 DEF CommandNext

(* The commands keep their invariant, one at a time. *)
THEOREM CommandInvAlways ==
  ASSUME ~Overlap
  PROVE  CommandSpec => []CommandInv
<1>1. CommandInit => CommandInv
  BY InitCommandInv
<1>2. CommandInv /\ [CommandNext]_allVars => CommandInv'
  BY NextCommandInv
<1> QED
  BY <1>1, <1>2, PTL DEF CommandSpec

(* The authority of a run (bootstrap.ts, bootstrapJournal.ts, run.ts): nothing is asked
   for at the target, or of its credentials, before the journal on disk says so;
   through any crash, recovery or late answer one journal provisions credentials at most
   once; and every command that works on the lifecycle does so with the configuration
   that the journal was bound to. *)
THEOREM AuthorityExactAlways ==
  ASSUME ~Overlap
  PROVE  CommandSpec => []AuthorityExact
<1>1. ASSUME CommandInv PROVE AuthorityFirst
  <2>1. IntentDurable
    BY <1>1 DEF CommandInv, Orderly
  <2>2. grants.inflight \/ grants.live =>
          root.journal /\ State("provision_credentials") # "none"
    BY <1>1 DEF CommandInv, Bound, NoGrants
  <2>3. (\E op \in Operation : target[op] # "absent") =>
          /\ root.journal /\ boot.execution # 0
          /\ \A p \in Procs : ~IsAt(p, "record")
    BY <1>1 DEF CommandInv, Bound, Commanded, Relies, Before, At, IsAt, Untouched
  <2> QED
    BY <2>1, <2>2, <2>3 DEF AuthorityFirst
<1>2. ASSUME CommandInv PROVE CredentialsOnce
  BY <1>2 DEF CommandInv, Bound, CredentialsOnce
<1>3. ASSUME CommandInv PROVE BindingAgrees
  <2>1. boot.execution # 0 =>
          /\ \A k \in Bootstrap : State(k) = "completed"
          /\ boot.execution = boot.receipt
    BY <1>3 DEF CommandInv, Bound
  <2>2. ASSUME NEW p \in Procs, cmd[p].at \in {"record", "ready", "lifecycle"}
        PROVE  cmd[p].config = boot.execution /\ boot.execution # 0
    BY <1>3, <2>2 DEF CommandInv, Commanded, Relies, Resolution, Attached
  <2> QED
    BY <2>1, <2>2 DEF BindingAgrees
<1>4. CommandInv => AuthorityExact
  BY <1>1, <1>2, <1>3 DEF AuthorityExact, CredentialsBound
<1> QED
  BY <1>4, CommandInvAlways, PTL

(* Around the lifecycle, too, a phase that is durable stands on effects at the target,
   and its receipts are kept with it. *)
THEOREM LifecycleSafeAlways ==
  ASSUME ~Overlap
  PROVE  CommandSpec => [](EffectBeforePhase /\ ReceiptsKept)
<1>1. ASSUME CommandInv PROVE EffectBeforePhase /\ ReceiptsKept
  BY <1>1 DEF CommandInv, Inv, EffectBeforePhase, ReceiptsKept, Founded, Recorded, Sound
<1>2. CommandInv => EffectBeforePhase /\ ReceiptsKept
  BY <1>1
<1> QED
  BY <1>2, CommandInvAlways, PTL

------------------------------------------------------------------------------
(* The receipts of runs that share a target.  Who is told of an operation   *)
(* asked for it as the phases have it, over resources of its own: each of   *)
(* them was made by an operation that was answered before.                  *)

Ops == {"create_world_service", "start_world_service",
        "attach_organization", "stop_world_service",
        "export_evidence_volume", "detach_organization",
        "revoke_secret_bindings", "cleanup_run", "prepare_composed_run", "up",
        "artifacts_export", "down", "query_world_readiness", "attest_topology",
        "activate_topology", "query_world_clock",
        "snapshot_public_artifact"}

(* The phase an operation is a call into. *)
Place(op) ==
  CASE op = "prepare_composed_run" -> 1
    [] op = "create_world_service" -> 2
    [] op = "start_world_service" -> 3
    [] op = "query_world_readiness" -> 4
    [] op \in {"up", "attach_organization"} -> 5
    [] op = "attest_topology" -> 7
    [] op = "activate_topology" -> 8
    [] op = "query_world_clock" -> 9
    [] op = "snapshot_public_artifact" -> 11
    [] op = "stop_world_service" -> 12
    [] op = "export_evidence_volume" -> 13
    [] op = "artifacts_export" -> 14
    [] OTHER -> 15

(* The operations, one by one. *)
LEMMA OperationIs == Operation = Ops
  BY DEF Operation, JournaledOps, TargetOps, Preparation, LifecycleOps, DirectOps, Ops

(* An operation is a call into its place, once. *)
LEMMA PlaceIs ==
  /\ \A k \in 1 .. Completed : \A i \in DOMAIN Calls(k) :
       Calls(k)[i] \in Ops /\ Place(Calls(k)[i]) = k
  /\ \A op \in Ops : /\ Place(op) \in 1 .. Completed
                     /\ \E i \in DOMAIN Calls(Place(op)) : op = Calls(Place(op))[i]
<1> DEFINE Called(s, k) == \A i \in DOMAIN s : s[i] \in Ops /\ Place(s[i]) = k
           Among(s, op) == \E i \in DOMAIN s : op = s[i]
<1>1. Called(<< "prepare_composed_run" >>, 1)
  BY DEF Ops, Place
<1>2. Called(<< "create_world_service" >>, 2)
  BY DEF Ops, Place
<1>3. Called(<< "start_world_service" >>, 3)
  BY DEF Ops, Place
<1>4. Called(<< "query_world_readiness" >>, 4)
  BY DEF Ops, Place
<1>5. Called(<< "up", "attach_organization" >>, 5)
  BY DEF Ops, Place
<1>6. \A k : Called(<< >>, k)
  OBVIOUS
<1>7. Called(<< "attest_topology" >>, 7)
  BY DEF Ops, Place
<1>8. Called(<< "activate_topology" >>, 8)
  BY DEF Ops, Place
<1>9. Called(<< "query_world_clock" >>, 9)
  BY DEF Ops, Place
<1>11. Called(<< "snapshot_public_artifact" >>, 11)
  BY DEF Ops, Place
<1>12. Called(<< "stop_world_service" >>, 12)
  BY DEF Ops, Place
<1>13. Called(<< "export_evidence_volume" >>, 13)
  BY DEF Ops, Place
<1>14. Called(<< "artifacts_export" >>, 14)
  BY DEF Ops, Place
<1>15. Called(<< "detach_organization", "down", "revoke_secret_bindings", "cleanup_run" >>, 15)
  BY DEF Ops, Place
<1>20. ASSUME NEW k \in 1 .. Completed PROVE Called(Calls(k), k)
  <2> HIDE DEF Called
  <2>1. k \in {1, 2, 3, 4, 5, 6, 7, 8, 9, 10, 11, 12, 13, 14, 15, 16}
    BY DEF Completed
  <2>2. Preparation = "prepare_composed_run"
    BY DEF Preparation
  <2> QED
    BY <1>1, <1>2, <1>3, <1>4, <1>5, <1>6, <1>7, <1>8, <1>9, <1>11, <1>12, <1>13, <1>14,
       <1>15, <2>1, <2>2, CallsOf, Zenon
<1>21. ASSUME NEW op \in Ops PROVE Place(op) \in 1 .. Completed /\ Among(Calls(Place(op)), op)
  <2>1. Preparation = "prepare_composed_run"
    BY DEF Preparation
  <2>2. CASE op = "prepare_composed_run"
    BY <2>2, <2>1, CallsOf DEF Place, Completed
  <2>3. CASE op = "create_world_service"
    BY <2>3, CallsOf DEF Place, Completed
  <2>4. CASE op = "start_world_service"
    BY <2>4, CallsOf DEF Place, Completed
  <2>5. CASE op = "query_world_readiness"
    BY <2>5, CallsOf DEF Place, Completed
  <2>6. CASE op \in {"up", "attach_organization"}
    <3>1. Place(op) = 5
      BY <2>6 DEF Place
    <3>2. Among(<< "up", "attach_organization" >>, op)
      BY <2>6
    <3> QED
      BY <3>1, <3>2, CallsOf DEF Completed
  <2>7. CASE op = "attest_topology"
    BY <2>7, CallsOf DEF Place, Completed
  <2>8. CASE op = "activate_topology"
    BY <2>8, CallsOf DEF Place, Completed
  <2>9. CASE op = "query_world_clock"
    BY <2>9, CallsOf DEF Place, Completed
  <2>10. CASE op = "snapshot_public_artifact"
    BY <2>10, CallsOf DEF Place, Completed
  <2>11. CASE op = "stop_world_service"
    BY <2>11, CallsOf DEF Place, Completed
  <2>12. CASE op = "export_evidence_volume"
    BY <2>12, CallsOf DEF Place, Completed
  <2>13. CASE op = "artifacts_export"
    BY <2>13, CallsOf DEF Place, Completed
  <2>14. CASE op \in {"detach_organization", "down", "revoke_secret_bindings", "cleanup_run"}
    <3>1. Place(op) = 15
      BY <2>14 DEF Place
    <3>2. Among(<< "detach_organization", "down", "revoke_secret_bindings", "cleanup_run" >>, op)
      BY <2>14
    <3> QED
      BY <3>1, <3>2, CallsOf DEF Completed
  <2> QED
    BY <2>2, <2>3, <2>4, <2>5, <2>6, <2>7, <2>8, <2>9, <2>10, <2>11, <2>12, <2>13, <2>14 DEF Ops
<1> QED
  BY <1>20, <1>21

(* What a phase stands on is what is placed no later. *)
LEMMA PlacedThrough ==
  ASSUME NEW k \in Phase, NEW op
  PROVE  op \in CallsThrough(k) <=> op \in Ops /\ Place(op) <= k
<1>1. op \in CallsThrough(k) <=> \E j \in 0 .. k : \E i \in DOMAIN Calls(j) : op = Calls(j)[i]
  BY ThroughIs DEF Phase, Completed
<1>2. Calls(0) = << >> /\ DOMAIN Calls(0) = {}
  BY CallsOf
<1>3. k \in Nat /\ \A j \in 0 .. k : j = 0 \/ j \in 1 .. Completed
  BY DEF Phase, Completed
<1>4. ASSUME op \in CallsThrough(k) PROVE op \in Ops /\ Place(op) <= k
  <2>1. PICK j \in 0 .. k : \E i \in DOMAIN Calls(j) : op = Calls(j)[i]
    BY <1>1, <1>4
  <2>2. j \in 1 .. Completed
    BY <1>2, <1>3, <2>1
  <2>3. op \in Ops /\ Place(op) = j
    BY <2>1, <2>2, PlaceIs
  <2> QED
    BY <1>3, <2>3
<1>5. ASSUME op \in Ops, Place(op) <= k PROVE op \in CallsThrough(k)
  BY <1>5, PlaceIs, <1>3, <1>1
<1> QED
  BY <1>4, <1>5

(* What creates a resource. *)
LEMMA CreatorIs ==
  /\ Creator["artifact"] = "prepare_composed_run"
  /\ Creator["secrets"] = "prepare_composed_run"
  /\ Creator["network"] = "prepare_composed_run"
  /\ Creator["volume"] = "prepare_composed_run"
  /\ Creator["created"] = "create_world_service"
  /\ Creator["service"] = "start_world_service"
  /\ Creator["handoff"] = "up"
  /\ Creator["attachment"] = "attach_organization"
<1> DEFINE Makes(n, x) == x \in Operation /\ \A op \in Operation : n \in Creates[op] <=> op = x
<1>1. \A op \in Operation :
        Creates[op] =
          CASE op = "prepare_composed_run" -> {"artifact", "secrets", "network", "volume"}
            [] op = "create_world_service" -> {"created"}
            [] op = "start_world_service"  -> {"service"}
            [] op = "up"                   -> {"handoff"}
            [] op = "attach_organization"  -> {"attachment"}
            [] OTHER                       -> {}
  BY DEF Creates, Preparation
<1>2. /\ Makes("artifact", "prepare_composed_run") /\ Makes("secrets", "prepare_composed_run")
      /\ Makes("network", "prepare_composed_run") /\ Makes("volume", "prepare_composed_run")
  BY <1>1, OperationIs DEF Ops
<1>3. /\ Makes("created", "create_world_service") /\ Makes("service", "start_world_service")
      /\ Makes("handoff", "up") /\ Makes("attachment", "attach_organization")
  BY <1>1, OperationIs DEF Ops
<1>4. ASSUME NEW n, NEW x, Makes(n, x) PROVE Creator[n] = x
  BY <1>4 DEF Creator
<1> HIDE DEF Makes
<1> QED
  BY <1>2, <1>3, <1>4

(* What creates and what needs a resource, by place. *)
LEMMA CreatesIs ==
  /\ Creates["prepare_composed_run"] = {"artifact", "secrets", "network", "volume"}
  /\ Creates["create_world_service"] = {"created"}
  /\ Creates["start_world_service"] = {"service"}
  /\ Creates["up"] = {"handoff"}
  /\ Creates["attach_organization"] = {"attachment"}
  /\ \A op \in Ops : Place(op) > 5 \/ op = "query_world_readiness" => Creates[op] = {}
<1>1. \A op \in Ops :
        Creates[op] =
          CASE op = "prepare_composed_run" -> {"artifact", "secrets", "network", "volume"}
            [] op = "create_world_service" -> {"created"}
            [] op = "start_world_service"  -> {"service"}
            [] op = "up"                   -> {"handoff"}
            [] op = "attach_organization"  -> {"attachment"}
            [] OTHER                       -> {}
  BY OperationIs DEF Creates, Preparation
<1>2. \A op \in Ops : Place(op) > 5 \/ op = "query_world_readiness" =>
        op \notin {"prepare_composed_run", "create_world_service", "start_world_service",
                   "up", "attach_organization"}
  BY DEF Place
<1>3. \A op \in Ops : Place(op) > 5 \/ op = "query_world_readiness" => Creates[op] = {}
  BY <1>1, <1>2
<1> QED
  BY <1>1, <1>3 DEF Ops

LEMMA NeedsIs ==
  /\ Needs["create_world_service"] = {"artifact", "secrets", "network", "volume"}
  /\ Needs["start_world_service"] = {"created"}
  /\ Needs["up"] = {"network"}
  /\ Needs["attach_organization"] = {"network", "handoff"}
  /\ Needs["attest_topology"] = {"network", "created", "service", "attachment"}
  /\ Needs["activate_topology"] = {"network", "created", "service", "attachment"}
  /\ \A op \in {"query_world_readiness", "query_world_clock", "snapshot_public_artifact",
                "stop_world_service"} : Needs[op] = {"service"}
  /\ Needs["export_evidence_volume"] = {"volume"}
  /\ Needs["detach_organization"] = {"network", "attachment"}
  /\ Needs["revoke_secret_bindings"] = {"secrets"}
  /\ Needs["cleanup_run"] = {"volume", "attachment", "secrets", "service"}
  /\ \A op \in {"prepare_composed_run", "artifacts_export", "down"} : Needs[op] = {}
<1>1. Creates["prepare_composed_run"] = {"artifact", "secrets", "network", "volume"}
  BY CreatesIs
<1>2. \A op \in Ops :
        Needs[op] =
          CASE op = "create_world_service" -> {"artifact", "secrets", "network", "volume"}
            [] op = "start_world_service"  -> {"created"}
            [] op = "up"                   -> {"network"}
            [] op = "attach_organization"  -> {"network", "handoff"}
            [] op \in {"attest_topology", "activate_topology"} ->
                 {"network", "created", "service", "attachment"}
            [] op \in {"query_world_readiness", "query_world_clock",
                       "snapshot_public_artifact", "stop_world_service"} -> {"service"}
            [] op = "export_evidence_volume" -> {"volume"}
            [] op = "detach_organization"    -> {"network", "attachment"}
            [] op = "revoke_secret_bindings" -> {"secrets"}
            [] op = "cleanup_run" -> {"volume", "attachment", "secrets", "service"}
            [] OTHER -> {}
  BY <1>1, OperationIs DEF Needs, Preparation
<1> QED
  BY <1>2 DEF Ops

(* Whatever an operation needs was created by an operation before it. *)
LEMMA NeedsCreated ==
  ASSUME NEW op \in Ops, NEW n \in Needs[op]
  PROVE  /\ Creator[n] \in Ops
         /\ Place(Creator[n]) < Place(op) \/ (op = "attach_organization" /\ Creator[n] = "up")
<1>1. /\ Place("prepare_composed_run") = 1 /\ Place("create_world_service") = 2
      /\ Place("start_world_service") = 3 /\ Place("up") = 5
      /\ Place("attach_organization") = 5
  BY DEF Place
<1>2. {"prepare_composed_run", "create_world_service", "start_world_service", "up",
       "attach_organization"} \subseteq Ops
  BY DEF Ops
<1>3. CASE op \in {"create_world_service", "start_world_service", "up"}
  BY <1>1, <1>2, <1>3, NeedsIs, CreatorIs
<1>4. CASE op = "attach_organization"
  BY <1>1, <1>2, <1>4, NeedsIs, CreatorIs
<1>9. Place(op) \in Nat
  BY PlaceIs DEF Completed
<1>5. CASE op \in {"attest_topology", "activate_topology"}
  BY <1>5, NeedsIs, <1>1, <1>2, CreatorIs, <1>9 DEF Place
<1>6. CASE op \in {"query_world_readiness", "query_world_clock", "snapshot_public_artifact",
                   "stop_world_service"}
  BY <1>6, NeedsIs, <1>1, <1>2, CreatorIs, <1>9 DEF Place
<1>7. CASE op \in {"export_evidence_volume", "detach_organization", "revoke_secret_bindings",
                   "cleanup_run"}
  BY <1>7, NeedsIs, <1>1, <1>2, CreatorIs, <1>9 DEF Place
<1>8. CASE op \in {"prepare_composed_run", "artifacts_export", "down"}
  BY <1>8, NeedsIs
<1> QED
  BY <1>3, <1>4, <1>5, <1>6, <1>7, <1>8 DEF Ops

(* The phases the verification of a run asks about. *)
LEMMA IndexIs ==
  /\ Index["activated"] = 8
  /\ Index["organization_evidence_exported"] = 14
  /\ Index["cleaned"] = 15
<1>1. DOMAIN PhaseNames = 1 .. 17
  BY DEF PhaseNames
<1>2. ASSUME NEW k \in 1 .. 17, NEW name, name = PhaseNames[k],
             \A j \in 1 .. 17 : PhaseNames[j] = name => j = k
      PROVE  Index[name] = k - 1
  BY <1>1, <1>2 DEF Index
<1>3. \A j \in 1 .. 17 : j \in {1, 2, 3, 4, 5, 6, 7, 8, 9, 10, 11, 12, 13, 14, 15, 16, 17}
  OBVIOUS
<1>4. "activated" = PhaseNames[9] /\ \A j \in 1 .. 17 : PhaseNames[j] = "activated" => j = 9
  BY <1>3 DEF PhaseNames
<1>5. /\ "organization_evidence_exported" = PhaseNames[15]
      /\ \A j \in 1 .. 17 : PhaseNames[j] = "organization_evidence_exported" => j = 15
  BY <1>3 DEF PhaseNames
<1>6. "cleaned" = PhaseNames[16] /\ \A j \in 1 .. 17 : PhaseNames[j] = "cleaned" => j = 16
  BY <1>3 DEF PhaseNames
<1>7. Index["activated"] = 9 - 1
  BY <1>2, <1>4
<1>8. Index["organization_evidence_exported"] = 15 - 1
  BY <1>2, <1>5
<1>9. Index["cleaned"] = 16 - 1
  BY <1>2, <1>6
<1> QED
  BY <1>7, <1>8, <1>9

(* A request over resources of the run alone. *)
Proper(r, op) == [op |-> op, run |-> r, uses |-> Needs[op] \X {r}]

ChainTypes ==
  /\ stage \in [Chain -> Phase] /\ on \in [Chain -> BOOLEAN]
  /\ took \in [Chain -> [Operation -> given \union {NoAnswer}]]
  /\ kept \in [Chain -> [JournaledOps -> given \union {NoAnswer}]]
  /\ \A h \in held : h = <<h[1], h[2]>>

(* Who was answered had asked as the phases have it, for itself. *)
GivenFits ==
  \A a \in given :
    /\ a.run \in Chain /\ a.op \in Ops
    /\ a.request = Proper(a.run, a.op)
    /\ Place(a.op) <= stage[a.run] + 1

(* What a process stands on answers that very question, and will do. *)
Suits(r, op, a) ==
  /\ a.op = op /\ a.run = r /\ Fits(op, a)
  /\ op = "cleanup_run" => a.fact = "removed"

TookFits ==
  \A r \in Chain : \A op \in Ops : took[r][op] # NoAnswer => Suits(r, op, took[r][op])

KeptFits ==
  \A r \in Chain : \A op \in JournaledOps :
    kept[r][op] # NoAnswer => kept[r][op].op = op /\ kept[r][op].run = r

(* The phases that are committed were answered in full. *)
Answered ==
  \A r \in Chain : \A op \in Ops : Place(op) <= stage[r] => took[r][op] # NoAnswer

(* What is released stays released, and nothing is before the cleanup. *)
HeldFits ==
  \A a \in given :
    /\ a.op = "down" /\ a.fact = "removed" =>
         \A h \in held : h[2] = a.run => h[1] # "handoff"
    /\ a.op = "cleanup_run" /\ a.fact = "removed" =>
         \A h \in held : h[2] = a.run => h[1] = "handoff"
    /\ stage[a.run] < 14 => Creates[a.op] \X {a.run} \subseteq held

ChainInv == ChainTypes /\ GivenFits /\ TookFits /\ KeptFits /\ Answered /\ HeldFits

(* A set of natural numbers that is not empty has a smallest element. *)
LEMMA SmallestExists ==
  ASSUME NEW T, T \subseteq Nat, T # {}
  PROVE  \E x \in T : \A y \in T : x <= y
<1> DEFINE R == {p \in Nat \X Nat : p[1] < p[2]}
<1>1. IsWellFoundedOn(R, Nat)
  BY NatLessThanWellFounded DEF OpToRel
<1>2. \E x \in T : \A y \in T : ~ (<<y, x>> \in R)
  <2> HIDE DEF R
  <2> QED BY <1>1, WFMin
<1>3. \A x, y \in Nat : y < x => <<y, x>> \in R
  OBVIOUS
<1>4. \A x, y \in Nat : y < x \/ x <= y
  OBVIOUS
<1> HIDE DEF R
<1> QED BY <1>2, <1>3, <1>4

(* A call is the first without an answer: those before it have theirs. *)
LEMMA NextAskedIs ==
  ASSUME NEW r \in Chain, stage \in [Chain -> Phase], stage[r] < Completed, CallsLeft(r) # {}
  PROVE  /\ NextAsked(r) \in Ops /\ Place(NextAsked(r)) = stage[r] + 1
         /\ took[r][NextAsked(r)] = NoAnswer
         /\ NextAsked(r) = "attach_organization" => took[r]["up"] # NoAnswer
<1> DEFINE k == stage[r] + 1
           calls == Calls(k)
           first(i) == i \in CallsLeft(r) /\ \A j \in CallsLeft(r) : i <= j
<1>1. k \in 1 .. Completed
  BY DEF Phase, Completed
<1>2. CallsInto[k] = calls
  BY <1>1 DEF CallsInto
<1>3. calls \in Seq(Operation)
  <2>1. k \in Phase
    BY <1>1 DEF Phase, Completed
  <2> HIDE DEF k
  <2> QED
    BY <2>1, CallsType
<1>4. /\ DOMAIN calls \subseteq Nat
      /\ CallsLeft(r) = {i \in DOMAIN calls : took[r][calls[i]] = NoAnswer}
  BY <1>3, <1>2 DEF CallsLeft
<1>5. \E i : first(i)
  BY <1>4, SmallestExists
<1>6. PICK i : first(i) /\ NextAsked(r) = calls[i]
  BY <1>5, <1>2 DEF NextAsked
<1>7. i \in DOMAIN calls /\ took[r][calls[i]] = NoAnswer
  BY <1>4, <1>6
<1>8. NextAsked(r) \in Ops /\ Place(NextAsked(r)) = k
  BY <1>1, <1>6, <1>7, PlaceIs
<1>9. ASSUME NextAsked(r) = "attach_organization" PROVE took[r]["up"] # NoAnswer
  <2>1. Place("attach_organization") = 5
    BY DEF Place
  <2>2. k = 5 /\ calls = << "up", "attach_organization" >>
    BY <1>8, <1>9, <2>1, CallsOf
  <2>3. i = 2 /\ 1 \in DOMAIN calls /\ calls[1] = "up"
    BY <1>6, <1>7, <1>9, <2>2
  <2>4. 1 \notin CallsLeft(r)
    BY <1>6, <2>3
  <2> QED
    BY <1>4, <2>3, <2>4
<1> QED
  BY <1>6, <1>7, <1>8, <1>9

(* Over receipts that are a run's own, its request is over its own. *)
LEMMA RequestIs ==
  ASSUME TookFits, NEW r \in Chain, NEW op \in Ops,
         \A n \in Needs[op] : took[r][Creator[n]] # NoAnswer
  PROVE  Request(r, op) = Proper(r, op)
<1>1. \A n \in Needs[op] : Handle(r, n) = <<n, r>>
  <2> SUFFICES ASSUME NEW n \in Needs[op] PROVE Handle(r, n) = <<n, r>>
    OBVIOUS
  <2>1. Creator[n] \in Ops
    BY NeedsCreated
  <2>2. took[r][Creator[n]].run = r
    BY <2>1 DEF TookFits, Suits
  <2> QED
    BY <2>2 DEF Handle
<1>2. {Handle(r, n) : n \in Needs[op]} = Needs[op] \X {r}
  BY <1>1
<1> QED
  BY <1>2 DEF Request, Proper

LEMMA RequestPlaced ==
  ASSUME TookFits, Answered, stage \in [Chain -> Phase], NEW r \in Chain, NEW op \in Ops,
         Place(op) <= stage[r] + 1,
         op = "attach_organization" => took[r]["up"] # NoAnswer
  PROVE  Request(r, op) = Proper(r, op)
<1>1. \A n \in Needs[op] : took[r][Creator[n]] # NoAnswer
  <2> SUFFICES ASSUME NEW n \in Needs[op] PROVE took[r][Creator[n]] # NoAnswer
    OBVIOUS
  <2>1. /\ Creator[n] \in Ops
        /\ Place(Creator[n]) < Place(op) \/ (op = "attach_organization" /\ Creator[n] = "up")
    BY NeedsCreated
  <2>2. Place(Creator[n]) \in Nat /\ Place(op) \in Nat /\ stage[r] \in Nat
    BY <2>1, PlaceIs DEF Phase, Completed
  <2>3. CASE Place(Creator[n]) < Place(op)
    BY <2>2, <2>3, <2>1 DEF Answered
  <2> QED
    BY <2>1, <2>3
<1> QED
  BY <1>1, RequestIs

(* What an operation releases is the asking run's, and at its end. *)
LEMMA ReleasedIs ==
  ASSUME NEW a, a.op \in Ops, a.request = Proper(a.run, a.op), NEW h \in Released(a)
  PROVE  h[2] = a.run /\ Place(a.op) = 15
<1>1. a.request.uses = Needs[a.op] \X {a.run}
  BY DEF Proper
<1>2. \A u \in a.request.uses : u[2] = a.run
  BY <1>1
<1>3. CASE a.op = "detach_organization"
  BY <1>2, <1>3 DEF Released, Place
<1>4. CASE a.op = "revoke_secret_bindings"
  BY <1>2, <1>4 DEF Released, Place
<1>5. CASE a.op = "down"
  BY <1>5 DEF Released, Place
<1>6. CASE a.op = "cleanup_run"
  BY <1>2, <1>6 DEF Released, Place
<1>7. CASE a.op \notin {"detach_organization", "revoke_secret_bindings", "down", "cleanup_run"}
  BY <1>7 DEF Released
<1> QED
  BY <1>3, <1>4, <1>5, <1>6, <1>7

(* A function of functions with one value of one of them replaced. *)
Put(f, r, op, a) == [f EXCEPT ![r][op] = a]

Table(f, C, O, W) == f \in [C -> [O -> W]]

Replaced(g, f, C, O, r, op, a) ==
  \A s \in C : \A o \in O : g[s][o] = IF s = r /\ o = op THEN a ELSE f[s][o]

LEMMA PutIs ==
  ASSUME NEW C, NEW O, NEW W, NEW f, Table(f, C, O, W), NEW r \in C, NEW op \in O, NEW a \in W
  PROVE  /\ Table(Put(f, r, op, a), C, O, W)
         /\ Replaced(Put(f, r, op, a), f, C, O, r, op, a)
<1> USE DEF Table
<1>1. PICK row : row = [f[r] EXCEPT ![op] = a]
  OBVIOUS
<1>2. row \in [O -> W] /\ \A o \in O : row[o] = IF o = op THEN a ELSE f[r][o]
  BY <1>1
<1>3. Put(f, r, op, a) = [f EXCEPT ![r] = row]
  BY <1>1 DEF Put
<1>4. \A s \in C : Put(f, r, op, a)[s] = IF s = r THEN row ELSE f[s]
  BY <1>3
<1>5. Put(f, r, op, a) \in [C -> [O -> W]]
  BY <1>2, <1>3
<1> QED
  BY <1>2, <1>4, <1>5 DEF Replaced

LEMMA ChainParts ==
  ASSUME ChainInv
  PROVE  /\ stage \in [Chain -> Phase] /\ on \in [Chain -> BOOLEAN]
         /\ took \in [Chain -> [Ops -> given \union {NoAnswer}]]
         /\ kept \in [Chain -> [JournaledOps -> given \union {NoAnswer}]]
         /\ \A r \in Chain : stage[r] \in Nat
         /\ \A h \in held : h = <<h[1], h[2]>>
         /\ GivenFits /\ TookFits /\ KeptFits /\ Answered /\ HeldFits
  BY OperationIs DEF ChainInv, ChainTypes, Phase, Completed

LEMMA JournaledOf == JournaledOps \subseteq Ops
  BY DEF JournaledOps, TargetOps, Preparation, Ops

LEMMA ThroughOf ==
  ASSUME stage \in [Chain -> Phase], NEW r \in Chain, NEW op \in Ops
  PROVE  op \in Through[stage[r]] <=> Place(op) <= stage[r]
  BY PlacedThrough DEF Through

(* What the invariant says of the processes and the journals of the runs. *)
OwnFits ==
  /\ on \in [Chain -> BOOLEAN]
  /\ took \in [Chain -> [Operation -> given \union {NoAnswer}]]
  /\ kept \in [Chain -> [JournaledOps -> given \union {NoAnswer}]]
  /\ TookFits /\ KeptFits /\ Answered

(* What a process that ends leaves is what the committed phases stand on. *)
LEMMA EndsKeeps ==
  ASSUME ChainInv, NEW r \in Chain, stage' = stage, given \subseteq given', Ends(r)
  PROVE  /\ on' \in [Chain -> BOOLEAN]
         /\ took' \in [Chain -> [Operation -> given' \union {NoAnswer}]]
         /\ TookFits' /\ Answered'
<1> USE ChainParts
<1>1. on' = [on EXCEPT ![r] = FALSE] /\ took' = [took EXCEPT ![r] = Durable(r)]
  BY DEF Ends
<1>2. /\ Durable(r) \in [Ops -> given' \union {NoAnswer}]
      /\ \A op \in Ops : Durable(r)[op] = IF Place(op) <= stage[r] THEN took[r][op] ELSE NoAnswer
  BY ThroughOf, OperationIs DEF Durable
<1>3. on' \in [Chain -> BOOLEAN]
  BY <1>1
<1>4. took' \in [Chain -> [Ops -> given' \union {NoAnswer}]]
  BY <1>1, <1>2
<1>5. \A s \in Chain : \A op \in Ops :
        /\ took'[s][op] \in {took[s][op], NoAnswer}
        /\ Place(op) <= stage[s] => took'[s][op] = took[s][op]
  BY <1>1, <1>2
<1>6. TookFits'
  BY <1>5 DEF TookFits, Suits, Fits
<1>7. Answered'
  BY <1>5 DEF Answered
<1> QED
  BY <1>3, <1>4, <1>6, <1>7, OperationIs

LEMMA KeepKeeps ==
  ASSUME ChainInv, NEW r \in Chain, NEW op \in Ops, NEW a, a \in given', given \subseteq given',
         a.op = op, a.run = r, Keep(r, op, a)
  PROVE  kept' \in [Chain -> [JournaledOps -> given' \union {NoAnswer}]] /\ KeptFits'
<1> USE ChainParts
<1>1. CASE op \notin JournaledOps
  BY <1>1 DEF Keep, KeptFits
<1>2. CASE op \in JournaledOps
  <2>1. kept' = Put(kept, r, op, a)
    BY <1>2 DEF Keep, Put
  <2>2. /\ kept' \in [Chain -> [JournaledOps -> given' \union {NoAnswer}]]
        /\ \A s \in Chain : \A o \in JournaledOps :
             kept'[s][o] = IF s = r /\ o = op THEN a ELSE kept[s][o]
    <3> DEFINE W == given' \union {NoAnswer}
    <3>1. Table(kept, Chain, JournaledOps, W) /\ a \in W
      BY DEF Table
    <3> HIDE DEF W
    <3>2. /\ Table(kept', Chain, JournaledOps, W)
          /\ Replaced(kept', kept, Chain, JournaledOps, r, op, a)
      BY <1>2, <2>1, <3>1, PutIs
    <3> QED
      BY <3>2 DEF W, Table, Replaced
  <2>3. KeptFits'
    <3> SUFFICES ASSUME NEW s \in Chain, NEW o \in JournaledOps, kept'[s][o] # NoAnswer
                 PROVE  kept'[s][o].op = o /\ kept'[s][o].run = s
      BY DEF KeptFits
    <3>1. CASE s = r /\ o = op
      BY <2>2, <3>1
    <3>2. CASE ~(s = r /\ o = op)
      BY <2>2, <3>2 DEF KeptFits
    <3> QED
      BY <3>1, <3>2
  <2> QED
    BY <2>2, <2>3
<1> QED
  BY <1>1, <1>2

LEMMA TakesKeeps ==
  ASSUME ChainInv, NEW r \in Chain, NEW op \in Ops, Place(op) = stage[r] + 1, stage' = stage,
         NEW a, a \in given', given \subseteq given', a.op = op,
         Accepts(r, op, a) => a.run = r, Takes(r, op, a)
  PROVE  OwnFits'
<1> USE ChainParts
<1>1. CASE ~Accepts(r, op, a)
  BY <1>1, EndsKeeps DEF Takes, OwnFits, KeptFits
<1>2. CASE Accepts(r, op, a)
  <2>1. a.run = r /\ Fits(op, a) /\ Keep(r, op, a)
    BY <1>2 DEF Takes, Accepts
  <2>2. kept' \in [Chain -> [JournaledOps -> given' \union {NoAnswer}]] /\ KeptFits'
    BY <2>1, KeepKeeps
  <2>3. CASE ~Usable(r, op, a)
    BY <1>2, <2>3, <2>2, EndsKeeps DEF Takes, OwnFits
  <2>4. CASE Usable(r, op, a)
    <3>1. took' = Put(took, r, op, a) /\ on' = on
      BY <1>2, <2>4 DEF Takes, Put
    <3>2. /\ took' \in [Chain -> [Ops -> given' \union {NoAnswer}]]
          /\ \A s \in Chain : \A o \in Ops :
               took'[s][o] = IF s = r /\ o = op THEN a ELSE took[s][o]
      <4> DEFINE W == given' \union {NoAnswer}
      <4>1. Table(took, Chain, Ops, W) /\ a \in W
        BY DEF Table
      <4> HIDE DEF W
      <4>2. Table(took', Chain, Ops, W) /\ Replaced(took', took, Chain, Ops, r, op, a)
        BY <3>1, <4>1, PutIs
      <4> QED
        BY <4>2 DEF W, Table, Replaced
    <3>3. Suits(r, op, a)
      BY <2>1, <2>4 DEF Suits, Usable
    <3>4. TookFits'
      <4> SUFFICES ASSUME NEW s \in Chain, NEW o \in Ops, took'[s][o] # NoAnswer
                   PROVE  Suits(s, o, took'[s][o])
        BY DEF TookFits, Suits, Fits
      <4>1. CASE s = r /\ o = op
        BY <3>2, <3>3, <4>1
      <4>2. CASE ~(s = r /\ o = op)
        BY <3>2, <4>2 DEF TookFits
      <4> QED
        BY <4>1, <4>2
    <3>5. Answered'
      <4> SUFFICES ASSUME NEW s \in Chain, NEW o \in Ops, Place(o) <= stage[s]
                   PROVE  took'[s][o] # NoAnswer
        BY DEF Answered
      <4>1. ~(s = r /\ o = op)
        BY ChainParts
      <4> QED
        BY <3>2, <4>1 DEF Answered
    <3> QED
      BY <2>2, <3>1, <3>2, <3>4, <3>5, OperationIs DEF OwnFits
  <2> QED
    BY <2>3, <2>4
<1> QED
  BY <1>1, <1>2

(* An answer that is heard is the answer to what was asked. *)
LEMMA RepliesAre ==
  ASSUME ChainInv, NEW r \in Chain, NEW op \in Ops, Request(r, op) = Proper(r, op),
         NEW a \in Replies(r, op)
  PROVE  a.op = op /\ a.run = r /\ a.request = Proper(r, op)
<1>1. GivenFits
  BY ChainParts
<1>2. CASE a \in given /\ a.request = Request(r, op)
  <2>1. a.request = Proper(a.run, a.op)
    BY <1>1, <1>2 DEF GivenFits
  <2>2. Proper(a.run, a.op) = Proper(r, op)
    BY <1>2, <2>1
  <2>3. a.run = r /\ a.op = op
    BY <2>2 DEF Proper
  <2> QED
    BY <1>2, <2>3
<1>3. CASE \E f \in Facts(r, op) : a = Answer(r, op, f)
  BY <1>3 DEF Answer
<1> QED
  BY <1>2, <1>3 DEF Replies

(* What a run is answered for releases nothing of another run. *)
LEMMA PerformsKeeps ==
  ASSUME ChainInv, NEW r \in Chain, NEW op \in Ops, Place(op) = stage[r] + 1, stage' = stage,
         NEW a, a.op = op, a.run = r, a.request = Proper(r, op), Performs(r, op, a)
  PROVE  /\ given' = given \union {a}
         /\ GivenFits' /\ HeldFits'
         /\ \A h \in held' : h = <<h[1], h[2]>>
<1>1. /\ GivenFits /\ HeldFits /\ stage[r] \in Nat
      /\ \A s \in Chain : stage[s] \in Nat
      /\ \A h \in held : h = <<h[1], h[2]>>
  BY ChainParts
<1>2. given' = given \union {a}
  BY DEF Performs
<1>3. GivenFits'
  BY <1>1, <1>2 DEF GivenFits
<1>4. held' = IF a \in given THEN held
              ELSE (held \union {<<name, r>> : name \in Creates[op]}) \ Released(a)
  BY DEF Performs
<1>5. CASE a \in given
  BY <1>2, <1>4, <1>5, <1>1, <1>3 DEF HeldFits
<1>6. CASE a \notin given
  <2>1. held' = (held \union {<<name, r>> : name \in Creates[op]}) \ Released(a)
    BY <1>4, <1>6
  <2>2. \A h \in held' : h \in held \/ (h[2] = r /\ h[1] \in Creates[op] /\ h = <<h[1], h[2]>>)
    BY <2>1
  <2>3. \A h \in Released(a) : h[2] = r /\ Place(op) = 15
    BY ReleasedIs
  <2>4. \A h : h \in held \/ h \in {<<name, r>> : name \in Creates[op]} =>
                 h \in held' \/ h \in Released(a)
    BY <2>1
  <2>5. HeldFits'
    <3> SUFFICES ASSUME NEW b \in given \union {a}
                 PROVE  /\ b.op = "down" /\ b.fact = "removed" =>
                             \A h \in held' : h[2] = b.run => h[1] # "handoff"
                        /\ b.op = "cleanup_run" /\ b.fact = "removed" =>
                             \A h \in held' : h[2] = b.run => h[1] = "handoff"
                        /\ stage[b.run] < 14 => Creates[b.op] \X {b.run} \subseteq held'
      BY <1>2 DEF HeldFits
    <3>1. b.run \in Chain /\ b.op \in Ops /\ Place(b.op) <= stage[b.run] + 1
      BY <1>1, <1>2, <1>3 DEF GivenFits
    <3>2. CASE b \in given
      <4>1. /\ b.op = "down" /\ b.fact = "removed" =>
                 \A h \in held : h[2] = b.run => h[1] # "handoff"
            /\ b.op = "cleanup_run" /\ b.fact = "removed" =>
                 \A h \in held : h[2] = b.run => h[1] = "handoff"
            /\ stage[b.run] < 14 => Creates[b.op] \X {b.run} \subseteq held
        BY <1>1, <3>2 DEF HeldFits
      <4>2. ASSUME b.op \in {"down", "cleanup_run"}, b.run = r PROVE Creates[op] = {}
        BY <4>2, <1>1, <3>1, CreatesIs DEF Place
      <4>3. ASSUME stage[b.run] < 14, NEW h \in held, h[2] = b.run PROVE h \in held'
        <5>1. CASE h \in Released(a)
          BY <1>1, <2>3, <4>3, <5>1
        <5> QED
          BY <2>4, <4>3, <5>1
      <4>4. stage[b.run] < 14 => Creates[b.op] \X {b.run} \subseteq held'
        BY <4>1, <4>3
      <4>5. ASSUME b.op = "down", b.fact = "removed", NEW h \in held', h[2] = b.run
            PROVE  h[1] # "handoff"
        BY <2>2, <4>1, <4>2, <4>5
      <4>6. ASSUME b.op = "cleanup_run", b.fact = "removed", NEW h \in held', h[2] = b.run
            PROVE  h[1] = "handoff"
        BY <2>2, <4>1, <4>2, <4>6
      <4> QED
        BY <4>4, <4>5, <4>6
    <3>3. CASE b = a
      <4>1. stage[b.run] < 14 => Creates[b.op] \X {b.run} \subseteq held'
        <5> SUFFICES ASSUME stage[r] < 14, NEW h \in Creates[op] \X {r} PROVE h \in held'
          BY <3>3
        <5>1. h \in {<<name, r>> : name \in Creates[op]}
          OBVIOUS
        <5>2. h \notin Released(a)
          BY <1>1, <2>3
        <5> QED
          BY <2>4, <5>1, <5>2
      <4>2. ASSUME op = "down", a.fact = "removed", NEW h \in held', h[2] = r
            PROVE  h[1] # "handoff"
        BY <4>2, <1>1, <2>1, <2>2 DEF Released
      <4>3. ASSUME op = "cleanup_run", a.fact = "removed", NEW h \in held', h[2] = r
            PROVE  h[1] = "handoff"
        BY <4>3, <2>1, <2>2, CreatesIs DEF Released, Place
      <4> QED
        BY <3>3, <4>1, <4>2, <4>3
    <3> QED
      BY <3>2, <3>3
  <2>6. \A h \in held' : h = <<h[1], h[2]>>
    BY <1>1, <2>2
  <2> QED
    BY <1>2, <1>3, <2>5, <2>6
<1> QED
  BY <1>5, <1>6

(* The call a process makes, and how it may be asked. *)
LEMMA AskingIs ==
  ASSUME ChainInv, NEW r \in Chain, Asking(r)
  PROVE  /\ NextAsked(r) \in Ops /\ Place(NextAsked(r)) = stage[r] + 1
         /\ Request(r, NextAsked(r)) = Proper(r, NextAsked(r))
<1>1. /\ stage \in [Chain -> Phase] /\ TookFits /\ Answered
      /\ stage[r] \in Nat
  BY ChainParts
<1>2. /\ NextAsked(r) \in Ops /\ Place(NextAsked(r)) = stage[r] + 1
      /\ NextAsked(r) = "attach_organization" => took[r]["up"] # NoAnswer
  BY <1>1, NextAskedIs DEF Asking
<1>3. Request(r, NextAsked(r)) = Proper(r, NextAsked(r))
  BY <1>1, <1>2, RequestPlaced
<1> QED
  BY <1>2, <1>3

(* A step that leaves the target alone leaves what it holds alone. *)
LEMMA TargetStays ==
  ASSUME ChainInv, stage' = stage, given' = given, held' = held, OwnFits'
  PROVE  ChainInv'
<1>1. stage \in [Chain -> Phase] /\ GivenFits /\ HeldFits /\ \A h \in held : h = <<h[1], h[2]>>
  BY ChainParts
<1>2. GivenFits' /\ HeldFits'
  BY <1>1 DEF GivenFits, HeldFits
<1> QED
  BY <1>1, <1>2 DEF ChainInv, ChainTypes, OwnFits

(* A step of the target on behalf of a run. *)
LEMMA TargetMoves ==
  ASSUME ChainInv, NEW r \in Chain, NEW op \in Ops, Place(op) = stage[r] + 1, stage' = stage,
         NEW a, a.op = op, a.run = r, a.request = Proper(r, op), Performs(r, op, a), OwnFits'
  PROVE  ChainInv'
<1>1. stage' \in [Chain -> Phase]
  BY ChainParts
<1>2. GivenFits' /\ HeldFits' /\ \A h \in held' : h = <<h[1], h[2]>>
  BY PerformsKeeps
<1> QED
  BY <1>1, <1>2 DEF ChainInv, ChainTypes, OwnFits

LEMMA OwnStays ==
  ASSUME ChainInv, stage' = stage, took' = took, kept' = kept, given \subseteq given',
         on' \in [Chain -> BOOLEAN]
  PROVE  OwnFits'
<1> USE ChainParts, OperationIs
<1>1. /\ took \in [Chain -> [Operation -> given' \union {NoAnswer}]]
      /\ kept \in [Chain -> [JournaledOps -> given' \union {NoAnswer}]]
  OBVIOUS
<1>2. TookFits' /\ KeptFits' /\ Answered'
  BY DEF TookFits, Suits, Fits, KeptFits, Answered
<1> QED
  BY <1>1, <1>2 DEF OwnFits

LEMMA ResumeKeeps ==
  ASSUME ChainInv, NEW r \in Chain, Resume(r)
  PROVE  ChainInv'
<1>1. /\ on' = [on EXCEPT ![r] = TRUE] /\ stage' = stage /\ took' = took /\ kept' = kept
      /\ given' = given /\ held' = held
  BY DEF Resume
<1>2. on' \in [Chain -> BOOLEAN]
  BY <1>1, ChainParts
<1> QED
  BY <1>1, <1>2, OwnStays, TargetStays

LEMMA CrashKeepsChain ==
  ASSUME ChainInv, NEW r \in Chain, CrashesWhileOn(r)
  PROVE  ChainInv'
<1>1. Ends(r) /\ stage' = stage /\ kept' = kept /\ given' = given /\ held' = held
  BY DEF CrashesWhileOn
<1>2. kept' \in [Chain -> [JournaledOps -> given' \union {NoAnswer}]] /\ KeptFits'
  BY <1>1, ChainParts DEF KeptFits
<1>3. OwnFits'
  BY <1>1, <1>2, EndsKeeps DEF OwnFits
<1> QED
  BY <1>1, <1>3, TargetStays

LEMMA RecallKeeps ==
  ASSUME ChainInv, NEW r \in Chain, Recall(r)
  PROVE  ChainInv'
<1>1. PICK op : /\ op = NextAsked(r) /\ Recalls(r, op) /\ Takes(r, op, kept[r][op])
                /\ stage' = stage /\ given' = given /\ held' = held /\ Asking(r)
  BY DEF Recall
<1>2. op \in Ops /\ Place(op) = stage[r] + 1
  BY <1>1, AskingIs
<1>3. kept[r][op] \in given /\ kept[r][op].op = op /\ kept[r][op].run = r
  BY <1>1, ChainParts DEF Recalls, KeptFits
<1>4. OwnFits'
  BY <1>1, <1>2, <1>3, TakesKeeps
<1> QED
  BY <1>1, <1>4, TargetStays

LEMMA AskKeeps ==
  ASSUME ChainInv, NEW r \in Chain, Ask(r)
  PROVE  ChainInv'
<1>1. PICK op : /\ op = NextAsked(r) /\ stage' = stage /\ Asking(r)
                /\ \E a \in Replies(r, op) : Performs(r, op, a) /\ Takes(r, op, a)
  BY DEF Ask
<1>2. op \in Ops /\ Place(op) = stage[r] + 1 /\ Request(r, op) = Proper(r, op)
  BY <1>1, AskingIs
<1>3. PICK a \in Replies(r, op) : Performs(r, op, a) /\ Takes(r, op, a)
  BY <1>1
<1>4. a.op = op /\ a.run = r /\ a.request = Proper(r, op)
  BY <1>2, RepliesAre
<1>5. given \subseteq given' /\ a \in given'
  BY <1>3 DEF Performs
<1>6. OwnFits'
  BY <1>1, <1>2, <1>3, <1>4, <1>5, TakesKeeps
<1> QED
  BY <1>1, <1>2, <1>3, <1>4, <1>6, TargetMoves

LEMMA EndsAskingKeeps ==
  ASSUME ChainInv, NEW r \in Chain, EndsAsking(r)
  PROVE  ChainInv'
<1>1. PICK op : /\ op = NextAsked(r) /\ stage' = stage /\ Asking(r)
                /\ \E a \in Replies(r, op) :
                     Performs(r, op, a) /\ Ends(r) /\ (kept' = kept \/ Keep(r, op, a))
  BY DEF EndsAsking
<1>2. op \in Ops /\ Place(op) = stage[r] + 1 /\ Request(r, op) = Proper(r, op)
  BY <1>1, AskingIs
<1>3. PICK a \in Replies(r, op) : Performs(r, op, a) /\ Ends(r) /\ (kept' = kept \/ Keep(r, op, a))
  BY <1>1
<1>4. a.op = op /\ a.run = r /\ a.request = Proper(r, op)
  BY <1>2, RepliesAre
<1>5. given \subseteq given' /\ a \in given'
  BY <1>3 DEF Performs
<1>6. kept' \in [Chain -> [JournaledOps -> given' \union {NoAnswer}]] /\ KeptFits'
  <2>1. CASE kept' = kept
    BY <1>5, <2>1, ChainParts DEF KeptFits
  <2>2. CASE Keep(r, op, a)
    BY <1>2, <1>4, <1>5, <2>2, KeepKeeps
  <2> QED
    BY <1>3, <2>1, <2>2
<1>7. OwnFits'
  BY <1>1, <1>3, <1>5, <1>6, EndsKeeps DEF OwnFits
<1> QED
  BY <1>1, <1>2, <1>3, <1>4, <1>7, TargetMoves

(* A receipt of another run passes no verification. *)
LEMMA HearsAnotherKeeps ==
  ASSUME ChainInv, NEW r \in Chain, HearsAnother(r)
  PROVE  ChainInv'
<1>1. PICK op : /\ op = NextAsked(r) /\ stage' = stage /\ given' = given /\ held' = held
                /\ Asking(r) /\ \E a \in given : a.op = op /\ Takes(r, op, a)
  BY DEF HearsAnother
<1>2. op \in Ops /\ Place(op) = stage[r] + 1 /\ Request(r, op) = Proper(r, op)
  BY <1>1, AskingIs
<1>3. PICK a \in given : a.op = op /\ Takes(r, op, a)
  BY <1>1
<1>4. ASSUME Accepts(r, op, a) PROVE a.run = r
  <2>1. CASE Names(r, op, a)
    BY <2>1 DEF Names
  <2>2. CASE Tied(r, op, a)
    <3>1. a.request = Proper(a.run, a.op)
      BY ChainParts DEF GivenFits
    <3>2. Proper(a.run, a.op) = Proper(r, op)
      BY <1>2, <2>2, <3>1 DEF Tied
    <3> QED
      BY <3>2 DEF Proper
  <2> QED
    BY <1>4, <2>1, <2>2 DEF Accepts
<1>5. OwnFits'
  BY <1>1, <1>2, <1>3, <1>4, TakesKeeps
<1> QED
  BY <1>1, <1>5, TargetStays

(* A phase is committed when all of its calls were answered. *)
LEMMA CommitsKeep ==
  ASSUME ChainInv, NEW r \in Chain, Commits(r)
  PROVE  ChainInv'
<1>1. /\ stage[r] < Completed /\ CallsLeft(r) = {} /\ stage' = [stage EXCEPT ![r] = @ + 1]
      /\ took' = took /\ kept' = kept /\ on' = on /\ given' = given /\ held' = held
  BY DEF Commits
<1>2. /\ stage \in [Chain -> Phase] /\ on \in [Chain -> BOOLEAN]
      /\ took \in [Chain -> [Operation -> given \union {NoAnswer}]]
      /\ kept \in [Chain -> [JournaledOps -> given \union {NoAnswer}]]
      /\ \A h \in held : h = <<h[1], h[2]>>
  BY DEF ChainInv, ChainTypes
<1>3. PICK next : next = stage[r] + 1
  OBVIOUS
<1>4. next \in 1 .. Completed /\ next \in Phase
  BY <1>1, <1>2, <1>3 DEF Phase, Completed
<1>5. /\ stage' \in [Chain -> Phase]
      /\ \A s \in Chain : stage'[s] = IF s = r THEN next ELSE stage[s]
  BY <1>1, <1>2, <1>3, <1>4
<1>6. \A s \in Chain : stage[s] \in Nat /\ stage[s] <= stage'[s]
  <2> SUFFICES ASSUME NEW s \in Chain PROVE stage[s] \in Nat /\ stage[s] <= stage'[s]
    OBVIOUS
  <2>1. stage[s] \in Nat
    BY ChainParts
  <2>2. CASE s = r
    BY <1>3, <1>5, <2>2, <2>1
  <2>3. CASE s # r
    BY <1>5, <2>3, <2>1
  <2> QED
    BY <2>2, <2>3
<1>7. Answered'
  <2> SUFFICES ASSUME NEW s \in Chain, NEW op \in Ops, Place(op) <= stage'[s]
               PROVE  took[s][op] # NoAnswer
    BY <1>1 DEF Answered
  <2>1. Place(op) \in Nat
    BY PlaceIs DEF Completed
  <2>2. CASE Place(op) <= stage[s]
    BY <2>2, ChainParts DEF Answered
  <2>3. CASE s = r /\ Place(op) = next
    <3>1. PICK i \in DOMAIN Calls(next) : op = Calls(next)[i]
      BY <2>3, PlaceIs
    <3>2. CallsInto[stage[r] + 1] = Calls(next)
      BY <1>3, <1>4 DEF CallsInto
    <3> QED
      BY <1>1, <2>3, <3>1, <3>2 DEF CallsLeft
  <2> QED
    BY <1>3, <1>5, <1>6, <2>1, <2>2, <2>3
<1>8. GivenFits'
  <2> SUFFICES ASSUME NEW a \in given
               PROVE  /\ a.run \in Chain /\ a.op \in Ops
                      /\ a.request = Proper(a.run, a.op)
                      /\ Place(a.op) <= stage'[a.run] + 1
    BY <1>1 DEF GivenFits
  <2>1. /\ a.run \in Chain /\ a.op \in Ops
        /\ a.request = Proper(a.run, a.op)
        /\ Place(a.op) <= stage[a.run] + 1
    BY ChainParts DEF GivenFits
  <2>2. stage'[a.run] \in Nat
    BY <1>5, <2>1 DEF Phase, Completed
  <2>3. Place(a.op) \in Nat
    BY <2>1, PlaceIs DEF Completed
  <2> QED
    BY <1>6, <2>1, <2>2, <2>3
<1>9. HeldFits'
  <2>1. ASSUME NEW a \in given, stage'[a.run] < 14 PROVE stage[a.run] < 14
    <3>1. a.run \in Chain
      BY ChainParts DEF GivenFits
    <3>2. stage'[a.run] \in Nat
      BY <1>5, <3>1 DEF Phase, Completed
    <3> QED
      BY <1>6, <2>1, <3>1, <3>2
  <2> QED
    BY <1>1, <2>1, ChainParts DEF HeldFits
<1>10. TookFits' /\ KeptFits'
  BY <1>1, ChainParts DEF TookFits, Suits, Fits, KeptFits
<1>11. ChainTypes'
  BY <1>1, <1>2, <1>5 DEF ChainTypes
<1> QED
  BY <1>7, <1>8, <1>9, <1>10, <1>11 DEF ChainInv

(* The worlds and the time outside leave the receipts alone. *)
LEMMA ChainStutter ==
  ASSUME ChainInv, UNCHANGED <<stage, took, kept, on, given, held>>
  PROVE  ChainInv'
<1>1. on' \in [Chain -> BOOLEAN]
  BY ChainParts
<1>2. OwnFits'
  BY <1>1, OwnStays
<1> QED
  BY <1>2, TargetStays

LEMMA ChainNextInv == ChainInv /\ [ChainNext]_chainVars => ChainInv'
<1> SUFFICES ASSUME ChainInv, [ChainNext]_chainVars PROVE ChainInv'
  OBVIOUS
<1>1. CASE UNCHANGED chainVars
  BY <1>1, ChainStutter DEF chainVars
<1>2. CASE ChainNext
  <2>1. PICK r \in Chain :
          \/ Proceeds(r) \/ CrashesWhileOn(r) \/ EndsAsking(r) \/ HearsAnother(r)
          \/ Ticks(r) \/ AgentActs(r) \/ IsInterrupted(r)
    BY <1>2 DEF ChainNext
  <2>2. CASE Proceeds(r)
    BY <2>2, ResumeKeeps, CommitsKeep, RecallKeeps, AskKeeps DEF Proceeds
  <2>3. CASE CrashesWhileOn(r) \/ EndsAsking(r) \/ HearsAnother(r)
    BY <2>3, CrashKeepsChain, EndsAskingKeeps, HearsAnotherKeeps
  <2>4. CASE Ticks(r) \/ AgentActs(r) \/ IsInterrupted(r)
    BY <2>4, ChainStutter DEF Ticks, AgentActs, IsInterrupted
  <2> QED
    BY <2>1, <2>2, <2>3, <2>4
<1> QED
  BY <1>1, <1>2

LEMMA ChainInitInv == ChainInit => ChainInv
<1> SUFFICES ASSUME ChainInit PROVE ChainInv
  OBVIOUS
<1>1. ChainTypes
  BY DEF ChainInit, ChainTypes, Phase, Completed
<1>2. GivenFits /\ HeldFits
  BY DEF ChainInit, GivenFits, HeldFits
<1>3. TookFits /\ KeptFits
  BY OperationIs DEF ChainInit, TookFits, KeptFits
<1>4. Answered
  <2>1. ASSUME NEW op \in Ops PROVE ~(Place(op) <= 0)
    BY PlaceIs DEF Completed
  <2>2. \A r \in Chain : stage[r] = 0
    BY DEF ChainInit
  <2> QED
    BY <2>1, <2>2 DEF Answered
<1> QED
  BY <1>1, <1>2, <1>3, <1>4 DEF ChainInv

(* The receipts of every run stay its own. *)
LEMMA ChainInvAlways == ChainSpec => []ChainInv
  BY ChainInitInv, ChainNextInv, PTL DEF ChainSpec

(* The handles of a run are as many as it must own. *)
LEMMA OwnedHandles ==
  ASSUME NEW r, \A name \in Owned : Handle(r, name) = <<name, r>>
  PROVE  Cardinality({Handle(r, name) : name \in Owned}) = Cardinality(Owned)
<1> DEFINE handles == {Handle(r, name) : name \in Owned}
           f == [name \in Owned |-> Handle(r, name)]
<1>1. f \in Surjection(Owned, handles) /\ f \in Injection(Owned, handles)
  BY DEF Surjection, Injection, IsInjective
<1>2. IsFiniteSet(Owned)
  <2>1. \A S, x : IsFiniteSet(S) => IsFiniteSet(S \cup {x})
    BY FS_AddElement
  <2>2. IsFiniteSet({})
    BY FS_EmptySet
  <2>3. IsFiniteSet((({} \cup {"network"}) \cup {"volume"}) \cup {"attachment"})
    BY <2>1, <2>2
  <2>4. IsFiniteSet((((({} \cup {"network"}) \cup {"volume"}) \cup {"attachment"})
                       \cup {"handoff"}) \cup {"secrets"})
    BY <2>1, <2>3
  <2>5. IsFiniteSet((((((({} \cup {"network"}) \cup {"volume"}) \cup {"attachment"})
                       \cup {"handoff"}) \cup {"secrets"}) \cup {"created"}) \cup {"service"})
    BY <2>1, <2>4
  <2>6. Owned = (((((({} \cup {"network"}) \cup {"volume"}) \cup {"attachment"})
                       \cup {"handoff"}) \cup {"secrets"}) \cup {"created"}) \cup {"service"}
    BY DEF Owned
  <2> QED
    BY <2>5, <2>6
<1> HIDE DEF f, handles
<1>3. Cardinality(Owned) = Cardinality(handles)
  BY <1>1, <1>2, FS_Surjection
<1> QED
  BY <1>3 DEF handles

(* What is stored for the phases passes every later verification. *)
LEMMA StoredAccepted ==
  ASSUME ChainInv
  PROVE  StoredStaysAccepted
<1> SUFFICES ASSUME NEW r \in Chain
             PROVE  /\ StillAccepted(r)
                    /\ \A op \in Through[stage[r]] : took[r][op].request = Request(r, op)
  BY DEF StoredStaysAccepted
<1>1. /\ stage \in [Chain -> Phase] /\ TookFits /\ Answered /\ GivenFits /\ stage[r] \in Nat
      /\ took \in [Chain -> [Ops -> given \union {NoAnswer}]]
  BY ChainParts
<1>2. \A op \in Through[stage[r]] : op \in Ops /\ Place(op) <= stage[r]
  BY <1>1, PlacedThrough DEF Through
<1>3. ASSUME NEW op \in Ops, Place(op) <= stage[r]
      PROVE  /\ took[r][op] # NoAnswer /\ Suits(r, op, took[r][op])
             /\ took[r][op].request = Proper(r, op) /\ took[r][op] \in given
  BY <1>1, <1>3 DEF Answered, TookFits, GivenFits, Suits
<1>4. ASSUME NEW op \in Ops, Place(op) <= stage[r] PROVE Request(r, op) = Proper(r, op)
  <2>1. Place(op) \in Nat
    BY PlaceIs DEF Completed
  <2>2. Place(op) <= stage[r] + 1
    BY <1>1, <1>4, <2>1
  <2>3. ASSUME op = "attach_organization" PROVE took[r]["up"] # NoAnswer
    BY <2>3, <1>3, <1>4 DEF Ops, Place
  <2> QED
    BY <1>1, <2>2, <2>3, RequestPlaced
<1>5. \A op \in Through[stage[r]] : took[r][op].request = Request(r, op)
  BY <1>2, <1>3, <1>4
<1>6. \A op \in Through[stage[r]] : took[r][op] # NoAnswer /\ took[r][op].run = r
  BY <1>2, <1>3 DEF Suits
<1>7. ASSUME Reached(r, "activated")
      PROVE  Names(r, "activate_topology", took[r]["activate_topology"])
  <2>1. stage[r] >= 8
    BY <1>7, IndexIs DEF Reached
  <2>2. /\ "attest_topology" \in Ops /\ Place("attest_topology") = 7
        /\ "activate_topology" \in Ops /\ Place("activate_topology") = 8
    BY DEF Ops, Place
  <2>3. /\ took[r]["activate_topology"].request = Proper(r, "activate_topology")
        /\ took[r]["activate_topology"].run = r
        /\ took[r]["attest_topology"].request = Proper(r, "attest_topology")
    BY <1>1, <1>3, <2>1, <2>2 DEF Suits
  <2>4. Proper(r, "activate_topology").uses = Proper(r, "attest_topology").uses
    BY NeedsIs DEF Proper
  <2> QED
    BY <2>3, <2>4 DEF Names, Attested
<1>8. ASSUME Reached(r, "organization_evidence_exported")
      PROVE  /\ Cardinality({Handle(r, name) : name \in Owned}) = Cardinality(Owned)
             /\ Correlated(r)
  <2>1. stage[r] >= 14
    BY <1>8, IndexIs DEF Reached
  <2>2. \A op \in {"prepare_composed_run", "create_world_service", "start_world_service", "up",
                   "attach_organization", "query_world_readiness", "stop_world_service",
                   "snapshot_public_artifact"} : op \in Ops /\ Place(op) <= 12
    BY DEF Ops, Place
  <2>3. \A op \in {"prepare_composed_run", "create_world_service", "start_world_service", "up",
                   "attach_organization", "query_world_readiness", "stop_world_service",
                   "snapshot_public_artifact"} : op \in Ops /\ Place(op) <= stage[r]
    <3> SUFFICES ASSUME NEW op \in Ops, Place(op) <= 12 PROVE Place(op) <= stage[r]
      BY <2>2
    <3>1. Place(op) \in Nat
      BY PlaceIs DEF Completed
    <3> QED
      BY <1>1, <2>1, <3>1
  <2>4. \A name \in Owned : Handle(r, name) = <<name, r>>
    BY CreatorIs, <1>3, <2>3 DEF Owned, Suits, Handle
  <2>5. \A op \in {"stop_world_service", "query_world_readiness"} :
          took[r][op].request.uses = {Handle(r, "service")}
    <3> SUFFICES ASSUME NEW op \in {"stop_world_service", "query_world_readiness"}
                 PROVE  took[r][op].request.uses = {Handle(r, "service")}
      OBVIOUS
    <3>1. took[r][op].request = Proper(r, op)
      BY <1>3, <2>3
    <3>2. Needs[op] = {"service"}
      BY NeedsIs
    <3>3. Proper(r, op).uses = {<<"service", r>>}
      BY <3>2 DEF Proper
    <3>4. Handle(r, "service") = <<"service", r>>
      BY <2>4 DEF Owned
    <3> QED
      BY <3>1, <3>3, <3>4
  <2>6. took[r]["snapshot_public_artifact"].fact = "completed"
    BY <1>3, <2>3 DEF Suits, Fits
  <2> QED
    BY <2>4, <2>5, <2>6, OwnedHandles DEF Correlated
<1> QED
  BY <1>5, <1>6, <1>7, <1>8 DEF StillAccepted

(* A run is cleaned when both releases of what it held were whole. *)
LEMMA Cleans ==
  ASSUME ChainInv
  PROVE  CleanedIsClean
<1>1. /\ stage \in [Chain -> Phase] /\ TookFits /\ Answered /\ HeldFits
      /\ took \in [Chain -> [Ops -> given \union {NoAnswer}]]
      /\ \A r \in Chain : stage[r] \in Nat
  BY ChainParts
<1>2. ASSUME NEW r \in Chain, Reached(r, "cleaned"), NEW h \in held PROVE h[2] # r
  <2>1. stage[r] >= 15
    BY <1>2, IndexIs DEF Reached
  <2>2. /\ "down" \in Ops /\ Place("down") = 15
        /\ "cleanup_run" \in Ops /\ Place("cleanup_run") = 15
    BY DEF Ops, Place
  <2>3. took[r]["down"] # NoAnswer /\ took[r]["cleanup_run"] # NoAnswer
    BY <1>1, <2>1, <2>2 DEF Answered
  <2>4. Suits(r, "down", took[r]["down"]) /\ Suits(r, "cleanup_run", took[r]["cleanup_run"])
    BY <1>1, <2>2, <2>3 DEF TookFits
  <2>5. took[r]["down"] \in given /\ took[r]["cleanup_run"] \in given
    BY <1>1, <2>2, <2>3
  <2>6. h[2] = r => h[1] # "handoff"
    BY <2>4, <1>1, <2>5 DEF Suits, Fits, HeldFits
  <2>7. h[2] = r => h[1] = "handoff"
    BY <2>4, <1>1, <2>5 DEF Suits, HeldFits
  <2> QED
    BY <2>6, <2>7
<1>3. ASSUME NEW r \in Chain, ~Reached(r, "organization_evidence_exported"),
             NEW a \in given, a.run = r
      PROVE  {<<name, r>> : name \in Creates[a.op]} \subseteq held
  BY <1>1, <1>3, IndexIs DEF Reached, HeldFits
<1> QED
  BY <1>2, <1>3 DEF CleanedIsClean

(* ReceiptsTied for every number of runs on one target: whatever answer a  *)
(* run is given, its own or another run's, before or after a crash, what   *)
(* run.ts, cleanup.ts and the terminal receipt verify again is of that run  *)
(* and over its own resources, and a run that is cleaned left nothing.      *)
THEOREM ReceiptsTiedAlways == ChainSpec => []ReceiptsTied
<1>1. ChainInv => ReceiptsTied
  BY StoredAccepted, Cleans DEF ReceiptsTied
<1> QED
  BY <1>1, ChainInvAlways, PTL
=============================================================================
