------------------------------ MODULE RunRecord ------------------------------
(***************************************************************************)
(* The record of a run (src/run).                                          *)
(*                                                                         *)
(* A run reserves its output directory, and writes its evidence in a       *)
(* staging directory beside it.  In each tick the source of actions runs,  *)
(* with the tick open; then the run drains what it left in the session     *)
(* (the queued actions), in the worldLog's refusal journal and in the read    *)
(* ledger, steps the session, and writes the results and what they caused. *)
(* An entry is acknowledged, and forgotten by its owner, once its lines    *)
(* have been synced.  At the end the replay is rebuilt from the attempts,  *)
(* and the staging directory is renamed to the output directory: the       *)
(* record is sealed.  Any failure before that removes both.                *)
(*                                                                         *)
(* A line is what identifies it; a line of the causal ledger also names    *)
(* its causes, by line number.  The frames, which repeat the session's     *)
(* state at each tick, are left out.                                       *)
(***************************************************************************)
EXTENDS Integers, Sequences, FiniteSets, SequencesExt

CONSTANTS
    Run,            \* the runs that are given this output directory
    RunTicks,       \* the length of a run
    ActionsPerTick, \* what a session accepts in a tick (limits.ts)
    RefusalsKept,   \* entries the refusal journal retains
    Retained,       \* entries the read ledger retains
    MaxActions,     \* bound: actions queued in a run
    MaxLogged       \* bound: refusals and observations in a run

ASSUME RunRecordAssumption ==
    /\ {"absent", "empty", "foreign", "free", "taken"} \cap Run = {}
    /\ RunTicks \in Nat /\ ActionsPerTick \in Nat \ {0}
    /\ RefusalsKept \in Nat \ {0} /\ Retained \in Nat \ {0}
    /\ MaxActions \in Nat /\ MaxLogged \in Nat

Origin == {"controller", "agentic"}

Path == {"attempts", "refusals", "perceptions", "results", "outcomes",
         "causal", "steps", "replay"}

VARIABLES
    outDir,     \* the output directory, or the run whose record it is
    pc,         \* where each run is
    staging,    \* each run's staging directory
    session,    \* each run's dynamics session
    worldLog,      \* its refusal journal and its read ledger
    book        \* what the recorder keeps in memory

recordVars == << outDir, pc, staging, session, worldLog, book >>

NoLines == [p \in Path |-> << >>]

NewDisk == [lines |-> NoLines, synced |-> [p \in Path |-> 0]]

NewSession == [tick |-> 0, pending |-> << >>, nextSequence |-> 1,
               evidence |-> << >>, ordinal |-> 0, accepted |-> {}]

NewWorld == [refusals |-> << >>, current |-> 0, lostThrough |-> 0,
             reads |-> << >>, sequence |-> 0]

NewLog == [open |-> FALSE, batch |-> << >>, afterIngress |-> 0,
           afterRefusal |-> 0, afterRead |-> 0, ingress |-> << >>,
           results |-> << >>, outcomes |-> << >>, resultLines |-> {},
           causes |-> << >>, previousStep |-> 0, stepLine |-> 0,
           origins |-> {}, decision |-> {}]

RecordInit ==
    /\ outDir = "absent"
    /\ pc = [r \in Run |-> "start"]
    /\ staging = [r \in Run |-> NewDisk]
    /\ session = [r \in Run |-> NewSession]
    /\ worldLog = [r \in Run |-> NewWorld]
    /\ book = [r \in Run |-> NewLog]

-----------------------------------------------------------------------------
(* Helpers.                                                                *)

\* Where a run may be between taking the directory and ending.
Underway == {"load", "tick", "source", "ingress", "ingressFlush", "refusal",
              "refusalFlush", "perception", "step", "result", "stepEvent",
              "outcome", "final", "replay", "close", "rename"}

Goto(r, from, to) ==
    /\ pc[r] = from
    /\ pc' = [pc EXCEPT ![r] = to]

\* A path's lines with one more.
Appended(d, path, line) == [d EXCEPT !.lines[path] = Append(@, line)]

LedgerLine(kind, of, causes) == [kind |-> kind, of |-> of, causes |-> causes]

\* The number of the line the causal ledger gets next.
NextLine(r) == Len(staging[r].lines["causal"]) + 1

\* appendLedger: the validator refuses a cause that is not an earlier event.
Caused(r, d, kind, of, causes) ==
    /\ causes \subseteq 1 .. (NextLine(r) - 1)
    /\ staging' = [staging EXCEPT ![r] = Appended(d, "causal",
                                           LedgerLine(kind, of, causes))]

\* Fault: the causal ledger's handle is not among the dirty ones.
FaultySynced(d) ==
    [d EXCEPT !.synced = [p \in Path |-> IF p = "causal" THEN d.synced[p]
                                         ELSE Len(d.lines[p])]]

\* flush syncs every handle with unsynced lines.
Synced(d) == [d EXCEPT !.synced = [p \in Path |-> Len(d.lines[p])]]

Extended(f, x, y) == [z \in DOMAIN f \cup {x} |-> IF z = x THEN y ELSE f[z]]

Later(entries, after) ==
    SelectSeq(entries, LAMBDA e : e.ordinal > after)

\* What the run had in memory is out of its scope, or gone with its process.
Ended(r) ==
    /\ session' = [session EXCEPT ![r] = NewSession]
    /\ worldLog' = [worldLog EXCEPT ![r] = NewWorld]
    /\ book' = [book EXCEPT ![r] = NewLog]

-----------------------------------------------------------------------------
(* The output directory and the staging directory.                         *)

\* Refused: someone reserved or sealed the directory, and it is left alone.
Refuse(r) ==
    /\ outDir # "absent"
    /\ Goto(r, "start", "refused")
    /\ UNCHANGED << outDir, staging, session, worldLog, book >>

\* Fault: a directory that exists is taken as if it had been made.
FaultyReserveOut(r) ==
    /\ outDir \in {"absent", "empty"}
    /\ outDir' = "empty"
    /\ Goto(r, "start", "create")
    /\ UNCHANGED << staging, session, worldLog, book >>

\* mkdir of the output directory: the reservation.
ReserveOut(r) ==
    /\ outDir = "absent"
    /\ outDir' = "empty"
    /\ Goto(r, "start", "create")
    /\ UNCHANGED << staging, session, worldLog, book >>

\* mkdtemp, the directories in it and a handle on each file.
CreateStaging(r) ==
    /\ Goto(r, "create", "load")
    /\ UNCHANGED << outDir, staging, session, worldLog, book >>

\* mkdtemp or something after it failed: the constructor cleans up.
CreateFails(r) ==
    /\ Goto(r, "create", "abortStaging")
    /\ UNCHANGED << outDir, staging, session, worldLog, book >>

\* The session is loaded, and the causal ledger opens with its first event.
Load(r) ==
    /\ Goto(r, "load", "tick")
    /\ Caused(r, staging[r], "initial", 0, {})
    /\ book' = [book EXCEPT ![r].previousStep = NextLine(r)]
    /\ UNCHANGED << outDir, session, worldLog >>

-----------------------------------------------------------------------------
(* The source of actions.  It may keep its context past the tick, and call *)
(* it from a promise nobody awaits.                                        *)

OpenTick(r) ==
    /\ session[r].tick < RunTicks
    /\ Goto(r, "tick", "source")
    /\ book' = [book EXCEPT ![r].open = TRUE, ![r].ingress = << >>,
                          ![r].resultLines = {}]
    /\ UNCHANGED << outDir, staging, session, worldLog >>

\* assertOpen
TickOpen(r) == book[r].open

\* queueAction: a sequence number, a pending action and its evidence.
QueueAction(r, origin) ==
    LET s == session[r] IN
    /\ pc[r] \in Underway /\ TickOpen(r)
    /\ Len(s.pending) < ActionsPerTick
    /\ s.nextSequence <= MaxActions
    /\ session' = [session EXCEPT ![r] =
            [s EXCEPT !.nextSequence = @ + 1,
                      !.pending = Append(@, s.nextSequence),
                      !.ordinal = @ + 1,
                      !.evidence = Append(@, [ordinal |-> s.ordinal + 1,
                                              sequence |-> s.nextSequence,
                                              origin |-> origin])]]
    /\ UNCHANGED << outDir, pc, staging, worldLog, book >>

\* The journal drops its oldest entry, and notes that it is lost.
Refused(w) ==
    LET entries == Append(w.refusals, [ordinal |-> w.current + 1])
        over == Len(entries) > RefusalsKept
    IN  [w EXCEPT !.current = @ + 1,
                  !.refusals = IF over THEN Tail(entries) ELSE entries,
                  !.lostThrough = IF over THEN Head(entries).ordinal ELSE @]

RefuseAction(r) ==
    /\ pc[r] \in Underway /\ TickOpen(r)
    /\ worldLog[r].current + worldLog[r].sequence < MaxLogged
    /\ worldLog' = [worldLog EXCEPT ![r] = Refused(@)]
    /\ UNCHANGED << outDir, pc, staging, session, book >>

\* An observation is retained in the read ledger, the oldest dropped.
ObservationLogged(w) ==
    LET entries == Append(w.reads, [ordinal |-> w.sequence + 1])
    IN  [w EXCEPT !.sequence = @ + 1,
                  !.reads = IF Len(entries) > Retained THEN Tail(entries)
                            ELSE entries]

LogObservation(r) ==
    /\ pc[r] \in Underway /\ TickOpen(r)
    /\ worldLog[r].current + worldLog[r].sequence < MaxLogged
    /\ worldLog' = [worldLog EXCEPT ![r] = ObservationLogged(@)]
    /\ UNCHANGED << outDir, pc, staging, session, book >>

\* The source returns, the tick closes, and the evidence is read.
CloseTick(r) ==
    /\ Goto(r, "source", "ingress")
    /\ book' = [book EXCEPT ![r].open = FALSE,
                          ![r].batch = Later(session[r].evidence,
                                             book[r].afterIngress)]
    /\ UNCHANGED << outDir, staging, session, worldLog >>

-----------------------------------------------------------------------------
(* Draining.  An entry's lines are appended, then flushed, and only then   *)
(* is the entry acknowledged.                                              *)

RecordIngress(r) ==
    /\ book[r].batch # << >>
    /\ Goto(r, "ingress", "ingressFlush")
    /\ LET e == Head(book[r].batch) IN
        Caused(r, Appended(staging[r], "attempts",
                          [sequence |-> e.sequence, origin |-> e.origin]),
               "queued", e.sequence, {book[r].previousStep})
    /\ UNCHANGED << outDir, session, worldLog, book >>

AcknowledgedSession(s, ordinal) ==
    [s EXCEPT !.evidence = Later(@, ordinal)]

AcknowledgeIngress(r) ==
    LET e == Head(book[r].batch) IN
    /\ Goto(r, "ingressFlush", "ingress")
    /\ staging' = [staging EXCEPT ![r] = Synced(@)]
    /\ session' = [session EXCEPT ![r] = AcknowledgedSession(@, e.ordinal)]
    /\ book' = [book EXCEPT ![r].batch = Tail(@),
                          ![r].afterIngress = e.ordinal,
                          ![r].origins = @ \cup {e.origin},
                          ![r].ingress = Extended(@, e.sequence,
                                                  NextLine(r) - 1)]
    /\ UNCHANGED << outDir, worldLog >>

\* Fault: the journal returns what it has.
FaultyRefusalsComplete(r) == TRUE

\* read throws when entries after the cursor have been dropped.
RefusalsComplete(r) == book[r].afterRefusal >= worldLog[r].lostThrough

ReadRefusals(r) ==
    /\ book[r].batch = << >>
    /\ RefusalsComplete(r)
    /\ Goto(r, "ingress", "refusal")
    /\ book' = [book EXCEPT ![r].batch = Later(worldLog[r].refusals,
                                             book[r].afterRefusal)]
    /\ UNCHANGED << outDir, staging, session, worldLog >>

RefusalsLost(r) ==
    /\ book[r].batch = << >>
    /\ ~ RefusalsComplete(r)
    /\ Goto(r, "ingress", "abort")
    /\ Ended(r)
    /\ UNCHANGED << outDir, staging >>

RecordRefusal(r) ==
    /\ book[r].batch # << >>
    /\ Goto(r, "refusal", "refusalFlush")
    /\ LET e == Head(book[r].batch) IN
        Caused(r, Appended(staging[r], "refusals", e.ordinal),
               "refused", e.ordinal, {book[r].previousStep})
    /\ UNCHANGED << outDir, session, worldLog, book >>

AcknowledgeRefusal(r) ==
    LET e == Head(book[r].batch) IN
    /\ Goto(r, "refusalFlush", "refusal")
    /\ staging' = [staging EXCEPT ![r] = Synced(@)]
    /\ worldLog' = [worldLog EXCEPT ![r].refusals = Later(@, e.ordinal)]
    /\ book' = [book EXCEPT ![r].batch = Tail(@), ![r].afterRefusal = e.ordinal]
    /\ UNCHANGED << outDir, session >>

\* Pages of the read ledger, from the cursor on; nothing is acknowledged.
ReadPerceptions(r) ==
    LET entries == Later(worldLog[r].reads, book[r].afterRead) IN
    /\ book[r].batch = << >>
    /\ Goto(r, "refusal", "perception")
    /\ book' = [book EXCEPT ![r].batch = entries,
                          ![r].afterRead = IF entries = << >> THEN @
                                           ELSE Last(entries).ordinal]
    /\ UNCHANGED << outDir, staging, session, worldLog >>

RecordPerception(r) ==
    /\ book[r].batch # << >>
    /\ pc[r] = "perception"
    /\ LET e == Head(book[r].batch) IN
        Caused(r, Appended(staging[r], "perceptions", e.ordinal),
               "perceived", e.ordinal, {book[r].previousStep})
    /\ book' = [book EXCEPT ![r].batch = Tail(@)]
    /\ UNCHANGED << outDir, pc, session, worldLog >>

-----------------------------------------------------------------------------
(* The step, and what it yields.                                           *)

\* Each pending action is accepted or not; an outcome (an event of the
\* provider, or a commitment's) names an action that has been accepted.
\* The session forgets the evidence of the tick that ends.
StepSession(r) ==
    LET s == session[r] IN
    /\ book[r].batch = << >>
    /\ Goto(r, "perception", "result")
    /\ \E yes \in SUBSET ToSet(s.pending) :
        LET accepted == s.accepted \cup yes IN
        /\ session' = [session EXCEPT ![r] =
                [AcknowledgedSession(s, s.ordinal) EXCEPT
                    !.tick = @ + 1, !.pending = << >>, !.accepted = accepted]]
        /\ \E outcomes \in {<< >>} \cup
                {<< [kind |-> k, of |-> a] >> : k \in {"event", "outcome"},
                                               a \in accepted} :
            book' = [book EXCEPT
                ![r].results = [i \in DOMAIN s.pending |->
                    [sequence |-> s.pending[i],
                     accepted |-> s.pending[i] \in yes]],
                ![r].outcomes = outcomes]
    /\ UNCHANGED << outDir, staging, worldLog >>

\* The line of the action the result is joined to.
IngressLine(r, a) == book[r].ingress[a]

\* A result, its event, and (if accepted) its place in the cause index.  A
\* result without an ingress of this tick throws (FailRun).
RecordResult(r) ==
    LET result == Head(book[r].results) IN
    /\ book[r].results # << >>
    /\ result.sequence \in DOMAIN book[r].ingress
    /\ pc[r] = "result"
    /\ Caused(r, Appended(staging[r], "results", result),
              IF result.accepted THEN "applied" ELSE "rejected",
              result.sequence, {IngressLine(r, result.sequence)})
    /\ book' = [book EXCEPT
            ![r].results = Tail(@),
            ![r].resultLines = @ \cup {NextLine(r)},
            ![r].causes = IF result.accepted
                          THEN Extended(@, result.sequence, NextLine(r))
                          ELSE @]
    /\ UNCHANGED << outDir, pc, session, worldLog >>

RecordStep(r) ==
    /\ book[r].results = << >>
    /\ Goto(r, "result", "outcome")
    /\ Caused(r, staging[r], "step", session[r].tick,
              {book[r].previousStep} \cup book[r].resultLines)
    /\ book' = [book EXCEPT ![r].stepLine = NextLine(r)]
    /\ UNCHANGED << outDir, session, worldLog >>

\* An outcome's cause is looked up in the index; a commitment's also gets a
\* line of its own.
RecordOutcome(r) ==
    LET outcome == Head(book[r].outcomes) IN
    /\ book[r].outcomes # << >>
    /\ outcome.of \in DOMAIN book[r].causes
    /\ pc[r] = "outcome"
    /\ Caused(r, IF outcome.kind = "outcome"
                 THEN Appended(staging[r], "outcomes", outcome.of) ELSE staging[r],
              outcome.kind, outcome.of,
              {book[r].stepLine, book[r].causes[outcome.of]})
    /\ book' = [book EXCEPT ![r].outcomes = Tail(@)]
    /\ UNCHANGED << outDir, pc, session, worldLog >>

EndTick(r) ==
    /\ book[r].outcomes = << >>
    /\ Goto(r, "outcome", "tick")
    /\ staging' = [staging EXCEPT ![r] = Appended(@, "steps", session[r].tick)]
    /\ book' = [book EXCEPT ![r].previousStep = book[r].stepLine]
    /\ UNCHANGED << outDir, session, worldLog >>

-----------------------------------------------------------------------------
(* Sealing.                                                                *)

\* The last event.  Who decided is derived from the origins recorded: none,
\* or one; a mixture cannot be represented.
EndRun(r) ==
    /\ session[r].tick = RunTicks
    /\ Goto(r, "tick", "final")
    /\ Caused(r, staging[r], "final", RunTicks, {book[r].previousStep})
    /\ UNCHANGED << outDir, session, worldLog, book >>

Decide(r) ==
    /\ Cardinality(book[r].origins) <= 1
    /\ Goto(r, "final", "replay")
    /\ book' = [book EXCEPT ![r].decision = book[r].origins]
    /\ UNCHANGED << outDir, staging, session, worldLog >>

MixedOrigins(r) ==
    /\ Cardinality(book[r].origins) > 1
    /\ Goto(r, "final", "abort")
    /\ Ended(r)
    /\ UNCHANGED << outDir, staging >>

\* The replay takes each attempt whose sequence is the next one; a later
\* one means that an attempt is missing, and throws (FailRun).
Sequences(attempts) == [i \in DOMAIN attempts |-> attempts[i].sequence]

Contiguous(sequences) == \A i \in DOMAIN sequences : sequences[i] = i

WriteReplay(r) ==
    LET sequences == Sequences(staging[r].lines["attempts"]) IN
    /\ Contiguous(sequences)
    /\ Goto(r, "replay", "close")
    /\ staging' = [staging EXCEPT ![r].lines["replay"] = sequences,
                            ![r].synced["attempts"] = Len(sequences),
                            ![r].synced["replay"] = Len(sequences)]
    /\ UNCHANGED << outDir, session, worldLog, book >>

\* seal: the handles are flushed and closed, every file hashed, and the
\* manifest written.
CloseHandles(r) ==
    /\ Goto(r, "close", "rename")
    /\ staging' = [staging EXCEPT ![r] = Synced(@)]
    /\ UNCHANGED << outDir, session, worldLog, book >>

\* rename replaces a directory only if it is empty.
SealStaging(r) ==
    /\ outDir = "empty"
    /\ Goto(r, "rename", "sealed")
    /\ outDir' = r
    /\ UNCHANGED << staging, session, worldLog, book >>

-----------------------------------------------------------------------------
(* Failures.                                                               *)

\* A call in the body of the run throws: the source, the step, a write, a
\* sync, a rename.  What the call had written is in the staging directory.
FailRun(r) ==
    /\ pc[r] \in Underway
    /\ pc' = [pc EXCEPT ![r] = "abort"]
    /\ Ended(r)
    /\ UNCHANGED << outDir, staging >>

\* abort closes the handles, if seal has not.
AbortHandles(r) ==
    /\ Goto(r, "abort", "abortStaging")
    /\ staging' = [staging EXCEPT ![r] = Synced(@)]
    /\ UNCHANGED << outDir, session, worldLog, book >>

\* rm of the staging directory; abort goes on if it fails half way, and what
\* it leaves is of no use.
AbortStaging(r) ==
    /\ Goto(r, "abortStaging", "abortOut")
    /\ staging' = [staging EXCEPT ![r] = NewDisk]
    /\ UNCHANGED << outDir, session, worldLog, book >>

\* rmdir of the output directory removes only an empty one.
AbortOut(r) ==
    /\ outDir = "empty"
    /\ Goto(r, "abortOut", "failed")
    /\ outDir' = "absent"
    /\ UNCHANGED << staging, session, worldLog, book >>

AbortOutFails(r) ==
    /\ Goto(r, "abortOut", "stuck")
    /\ UNCHANGED << outDir, staging, session, worldLog, book >>

\* The process dies; what it had reserved stays.
RunCrashes(r) ==
    /\ pc[r] \in Underway \cup {"create", "abort", "abortStaging",
                                 "abortOut"}
    /\ pc' = [pc EXCEPT ![r] = "crashed"]
    /\ Ended(r)
    /\ UNCHANGED << outDir, staging >>

\* Somebody puts a file in the reserved directory.
Intrude ==
    /\ outDir = "empty"
    /\ outDir' = "foreign"
    /\ UNCHANGED << pc, staging, session, worldLog, book >>

Source(r) ==
    \/ \E origin \in Origin : QueueAction(r, origin)
    \/ RefuseAction(r)
    \/ LogObservation(r)

RecordTick(r) ==
    \/ OpenTick(r) \/ CloseTick(r)
    \/ RecordIngress(r) \/ AcknowledgeIngress(r)
    \/ ReadRefusals(r) \/ RefusalsLost(r)
    \/ RecordRefusal(r) \/ AcknowledgeRefusal(r)
    \/ ReadPerceptions(r) \/ RecordPerception(r)
    \/ StepSession(r) \/ RecordResult(r)
    \/ RecordStep(r) \/ RecordOutcome(r) \/ EndTick(r)

Ending(r) ==
    \/ EndRun(r) \/ Decide(r) \/ MixedOrigins(r)
    \/ WriteReplay(r) \/ CloseHandles(r) \/ SealStaging(r)
    \/ FailRun(r) \/ AbortHandles(r) \/ AbortStaging(r)
    \/ AbortOut(r) \/ AbortOutFails(r) \/ RunCrashes(r)

RecordNext ==
    \/ Intrude
    \/ \E r \in Run :
        \/ Refuse(r) \/ ReserveOut(r) \/ CreateStaging(r) \/ CreateFails(r)
        \/ Load(r) \/ Source(r) \/ RecordTick(r) \/ Ending(r)

RecordSpec == RecordInit /\ [][RecordNext]_recordVars

-----------------------------------------------------------------------------
(* Properties.                                                             *)

RecordStage == Underway \cup {"start", "refused", "create", "sealed", "abort",
                        "abortStaging", "abortOut", "failed", "stuck",
                        "crashed"}

RecordTypeOK ==
    /\ outDir \in {"absent", "empty", "foreign"} \cup Run
    /\ pc \in [Run -> RecordStage]

UpTo(n) == [i \in 1 .. n |-> i]

\* A sealed record accounts for its run: each action the session queued is
\* there once and in order, as an attempt, in the replay and as a result;
\* each refusal of the world is there, although the journal forgets; so is
\* each observation the read ledger still retains, none twice; there is a
\* step for each tick; and who is said to have decided is who did.
SealedIsComplete ==
    \A r \in Run : outDir = r =>
        LET lines == staging[r].lines
            actions == UpTo(session[r].nextSequence - 1)
        IN  /\ Sequences(lines["attempts"]) = actions
            /\ lines["replay"] = actions
            /\ Sequences(lines["results"]) = actions
            /\ lines["refusals"] = UpTo(worldLog[r].current)
            /\ \A e \in ToSet(worldLog[r].reads) :
                    e.ordinal \in ToSet(lines["perceptions"])
            /\ IsInjective(lines["perceptions"])
            /\ lines["steps"] = UpTo(RunTicks)
            /\ book[r].decision = {a.origin : a \in ToSet(lines["attempts"])}

\* Whatever the session or the journal has been told it may forget can no
\* longer be lost: its lines have been synced.
AcknowledgedIsDurable ==
    \A r \in Run : pc[r] \in Underway =>
        LET s == session[r]
            w == worldLog[r]
            safe(path) == SubSeq(staging[r].lines[path], 1, staging[r].synced[path])
            events(kind) == {e \in ToSet(safe("causal")) : e.kind = kind}
            forgotten == s.ordinal - Len(s.evidence)
        IN  /\ Len(safe("attempts")) >= forgotten
            /\ Cardinality(events("queued")) >= forgotten
            /\ \A o \in (w.lostThrough + 1) .. w.current :
                    \/ \E e \in ToSet(w.refusals) : e.ordinal = o
                    \/ /\ o \in ToSet(safe("refusals"))
                       /\ \E e \in events("refused") : e.of = o

\* In the causal ledger a result is caused by its own action's queueing, a
\* step by the step before it and by the results in between, an outcome by
\* the step it came with and by the application of the action it names, and
\* everything else by the last step.
CausedRightly ==
    \A r \in Run :
        LET causal == staging[r].lines["causal"]
            lastStep(i) == CHOOSE j \in 1 .. (i - 1) :
                /\ causal[j].kind \in {"initial", "step"}
                /\ \A k \in (j + 1) .. (i - 1) : causal[k].kind # "step"
            lines(i, kinds) == {j \in 1 .. (i - 1) : causal[j].kind \in kinds}
            same(i, kind) == {j \in lines(i, {kind}) : causal[j].of = causal[i].of}
            expected(i) ==
                CASE causal[i].kind = "initial" -> {}
                  [] causal[i].kind \in {"applied", "rejected"} ->
                        same(i, "queued")
                  [] causal[i].kind = "step" ->
                        {lastStep(i)} \cup {j \in lines(i, {"applied", "rejected"}) :
                                                j > lastStep(i)}
                  [] causal[i].kind \in {"event", "outcome"} ->
                        {lastStep(i)} \cup same(i, "applied")
                  [] OTHER -> {lastStep(i)}
        IN  \A i \in DOMAIN causal : causal[i].causes = expected(i)

\* The record is sound at every moment: nothing is forgotten that is not on
\* the disk, and every line names the lines that caused it.
\* And what is sealed lacks nothing.
RecordSound == SealedIsComplete /\ AcknowledgedIsDurable /\ CausedRightly

\* The output directory, seen as a slot that runs take, seal or give back.
Slot == INSTANCE RunSlot WITH
    place <- IF outDir = "absent" THEN "free"
             ELSE IF outDir \in {"empty", "foreign"} THEN "taken" ELSE outDir,
    status <- [r \in Run |->
        IF pc[r] = "start" THEN "none"
        ELSE IF pc[r] \in {"refused", "failed"} THEN "gone"
        ELSE IF pc[r] = "sealed" THEN "sealed" ELSE "holds"]

\* One run at a time holds the output directory; a record, once sealed, stays
\* as it is; a run that fails gives back what it took and nothing else.
SlotSpec == Slot!Spec

===============================================================================
