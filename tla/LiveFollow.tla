------------------------------ MODULE LiveFollow ------------------------------
(***************************************************************************)
(* A viewer following a run that is still being recorded.                  *)
(*                                                                         *)
(* The producer appends lines to raw/frames.jsonl in a staging directory:  *)
(* a header, then one sample per tick.  Sealing writes the manifest and    *)
(* renames the directory; aborting removes it.  sendRunFrames              *)
(* (runLiveFollow.ts) polls that file and streams what is new to one       *)
(* client, through a socket whose buffer may be full; the seal follower    *)
(* (runSealFollower.ts) reconciles the viewer extensions once the manifest *)
(* is there.  Each await of a poll is a step of its own here.              *)
(***************************************************************************)
EXTENDS Naturals, Sequences, SequencesExt

CONSTANTS
    MaxLines,       \* bound: how many lines a run records
    MaxExtension,   \* bound: how often the extension data changes
    HighWater,      \* the socket's high-water mark, in events
    ExtensionSize   \* what extension data counts for in the buffer

ASSUME LiveFollowAssumption ==
    /\ MaxLines \in Nat \ {0}
    /\ MaxExtension \in Nat
    /\ HighWater \in Nat \ {0}
    /\ ExtensionSize \in Nat \ {0}

VARIABLES
    run,        \* the files of the run
    seal,       \* the seal follower
    waiter,     \* a caller of awaitTerminal
    follow,     \* what a poll keeps between its awaits, and between polls
    client      \* the response: its buffer, and all that was written to it

vars == << run, seal, waiter, follow, client >>

Event ==
    [ type    : {"header", "frame", "extension", "sealed", "mismatch"},
      tick    : 0 .. MaxLines,
      skipped : 0 .. MaxLines ]

TypeOK ==
    /\ run \in [ place : {"staging", "sealed", "gone"}, lines : 0 .. MaxLines,
                 torn : BOOLEAN, extension : 0 .. MaxExtension ]
    /\ seal \in [ status : {"live", "recorded", "failed"},
                  reconciling : BOOLEAN ]
    /\ waiter \in {"none", "waiting", "resolved", "rejected"}
    /\ follow \in [ stage : {"idle", "reading", "extension", "manifest",
                             "final", "sealing"},
                    path : {"staging", "sealed"}, offset : 0 .. MaxLines,
                    headerSent : BOOLEAN, extension : 0 .. MaxExtension,
                    ended : BOOLEAN ]
    /\ client \in [ sent : Seq(Event), buffered : Nat, needDrain : BOOLEAN,
                    destroyed : BOOLEAN, skipped : 0 .. MaxLines ]

Init ==
    /\ run = [ place |-> "staging", lines |-> 0, torn |-> FALSE,
               extension |-> 0 ]
    /\ seal = [ status |-> "live", reconciling |-> FALSE ]
    /\ waiter = "none"
    /\ follow = [ stage |-> "idle", path |-> "staging", offset |-> 0,
                  headerSent |-> FALSE, extension |-> 0, ended |-> FALSE ]
    /\ client = [ sent |-> << >>, buffered |-> 0, needDrain |-> FALSE,
                  destroyed |-> FALSE, skipped |-> 0 ]

-----------------------------------------------------------------------------
(* Writing to the response.                                                *)

Is(type, tick, skipped) == [type |-> type, tick |-> tick, skipped |-> skipped]

(* What write() returns: there is room for more. *)
Roomy(c, size) == c.buffered + size < HighWater

Wrote(c, e, size) ==
    IF c.destroyed THEN c
    ELSE [c EXCEPT !.sent = Append(@, e),
                   !.buffered = @ + size,
                   !.needDrain = @ \/ ~Roomy(c, size)]

(* A frame is skipped and counted while the client does not keep up; the   *)
(* count goes out with the next frame, and starts again when there was     *)
(* room for that one.                                                      *)
WroteFrame(c, tick) ==
    IF c.needDrain \/ c.destroyed THEN [c EXCEPT !.skipped = @ + 1]
    ELSE [Wrote(c, Is("frame", tick, c.skipped), 1)
            EXCEPT !.skipped = IF Roomy(c, 1) THEN 0 ELSE @]

(* The samples among the lines after the first m, up to the n-th. *)
FrameTicks(m, n) ==
    LET first == IF m = 0 THEN 1 ELSE m
    IN  [i \in 1 .. IF n > first THEN n - first ELSE 0 |-> first + i - 1]

WroteFrames(c, m, n) == FoldLeft(WroteFrame, c, FrameTicks(m, n))

-----------------------------------------------------------------------------
(* The producer.                                                           *)

BeginLine ==
    /\ run.place = "staging" /\ ~run.torn /\ run.lines < MaxLines
    /\ run' = [run EXCEPT !.torn = TRUE]
    /\ UNCHANGED << seal, waiter, follow, client >>

EndLine ==
    /\ run.place = "staging" /\ run.torn
    /\ run' = [run EXCEPT !.torn = FALSE, !.lines = @ + 1]
    /\ UNCHANGED << seal, waiter, follow, client >>

ChangeExtension ==
    /\ run.place = "staging" /\ run.extension < MaxExtension
    /\ run' = [run EXCEPT !.extension = @ + 1]
    /\ UNCHANGED << seal, waiter, follow, client >>

(* The handles are closed, the manifest written, the directory renamed. *)
Seal ==
    /\ run.place = "staging" /\ ~run.torn /\ run.lines > 0
    /\ run' = [run EXCEPT !.place = "sealed"]
    /\ UNCHANGED << seal, waiter, follow, client >>

Abort ==
    /\ run.place = "staging"
    /\ run' = [run EXCEPT !.place = "gone", !.torn = FALSE]
    /\ UNCHANGED << seal, waiter, follow, client >>

-----------------------------------------------------------------------------
(* The seal follower.                                                      *)

SealPoll ==
    /\ seal.status = "live" /\ ~seal.reconciling
    /\ run.place = "sealed"
    /\ seal' = [seal EXCEPT !.reconciling = TRUE]
    /\ UNCHANGED << run, waiter, follow, client >>

(* reconcileAtSeal settles; publish() tells whoever waits. *)
Reconcile ==
    /\ seal.reconciling
    /\ \E status \in {"recorded", "failed"} :
          seal' = [status |-> status, reconciling |-> FALSE]
    /\ waiter' = IF waiter = "waiting" THEN "resolved" ELSE waiter
    /\ UNCHANGED << run, follow, client >>

AwaitTerminal ==
    /\ waiter = "none"
    /\ waiter' = IF seal.status = "live" THEN "waiting" ELSE "resolved"
    /\ UNCHANGED << run, seal, follow, client >>

WaitTimesOut ==
    /\ waiter = "waiting"
    /\ waiter' = "rejected"
    /\ UNCHANGED << run, seal, follow, client >>

-----------------------------------------------------------------------------
(* The follower's poll.                                                    *)

(* finishSealed and finishFailed; c is the client so far. *)
Finished(c, type) ==
    IF follow.ended THEN c ELSE Wrote(c, Is(type, 0, c.skipped), 1)

(* What a poll does about the seal once it reads the sealed file; f and c  *)
(* are what it has made of follow and client.                              *)
ConsultSeal(f, c) ==
    CASE seal.status = "live" ->
            follow' = [f EXCEPT !.stage = "idle"] /\ client' = c
      [] seal.status = "recorded" ->
            follow' = [f EXCEPT !.stage = "sealing"] /\ client' = c
      [] seal.status = "failed" ->
            /\ follow' = [f EXCEPT !.stage = "idle", !.ended = TRUE]
            /\ client' = IF f.ended THEN c ELSE Wrote(c, Is("mismatch", 0, 0), 1)

(* Faulty: a poll waits for the client to catch up. *)
FaultyPatientPoll ==
    /\ follow.stage = "idle" /\ ~follow.ended /\ ~client.destroyed
    /\ ~client.needDrain
    /\ follow' = [follow EXCEPT !.stage = "reading"]
    /\ UNCHANGED << run, seal, waiter, client >>

(* Timer and watcher both poll; only one poll runs at a time. *)
Poll ==
    /\ follow.stage = "idle" /\ ~follow.ended /\ ~client.destroyed
    /\ follow' = [follow EXCEPT !.stage = "reading"]
    /\ UNCHANGED << run, seal, waiter, client >>

(* The whole lines of the file at this path, none if it is not there. *)
Readable == IF run.place = follow.path THEN run.lines ELSE 0

(* monotonicOffset *)
NextOffset == IF Readable > follow.offset THEN Readable ELSE follow.offset

(* The file was read: the header goes out if it was in it, and new frames. *)
Read ==
    /\ follow.stage = "reading"
    /\ LET header == follow.offset = 0 /\ Readable > 0 /\ ~follow.headerSent
           c == IF header THEN Wrote(client, Is("header", 0, 0), 1) ELSE client
           d == WroteFrames(c, follow.offset, Readable)
           f == [follow EXCEPT !.offset = NextOffset,
                               !.headerSent = @ \/ header]
       IN  IF follow.path = "staging"
           THEN follow' = [f EXCEPT !.stage = "extension"] /\ client' = d
           ELSE ConsultSeal(f, d)
    /\ UNCHANGED << run, seal, waiter >>

(* The staging directory's extension data, unless it went away under the   *)
(* reader; malformed data ends the stream.                                 *)
ReadExtension ==
    /\ follow.stage = "extension"
    /\ \/ /\ run.place = "staging" /\ run.extension # follow.extension
          /\ client' = Wrote(client, Is("extension", 0, 0), ExtensionSize)
          /\ follow' = [follow EXCEPT !.stage = "manifest",
                                      !.extension = run.extension]
       \/ /\ run.place = "staging" => run.extension = follow.extension
          /\ follow' = [follow EXCEPT !.stage = "manifest"]
          /\ UNCHANGED client
       \/ /\ run.place = "staging" /\ run.extension > 0
          /\ client' = IF follow.ended THEN client
                       ELSE Wrote(client, Is("mismatch", 0, 0), 1)
          /\ follow' = [follow EXCEPT !.stage = "idle", !.ended = TRUE]
    /\ UNCHANGED << run, seal, waiter >>

(* Faulty: the run is taken to be complete as it was read before. *)
FaultyCheckManifest ==
    /\ follow.stage = "manifest"
    /\ IF run.place = "sealed"
       THEN ConsultSeal([follow EXCEPT !.path = "sealed"], client)
       ELSE follow' = [follow EXCEPT !.stage = "idle"] /\ UNCHANGED client
    /\ UNCHANGED << run, seal, waiter >>

(* Once there is a manifest, the sealed file is read from the same offset. *)
CheckManifest ==
    /\ follow.stage = "manifest"
    /\ follow' = IF run.place = "sealed"
                 THEN [follow EXCEPT !.stage = "final", !.path = "sealed"]
                 ELSE [follow EXCEPT !.stage = "idle"]
    /\ UNCHANGED << run, seal, waiter, client >>

ReadFinal ==
    /\ follow.stage = "final"
    /\ ConsultSeal([follow EXCEPT !.offset = NextOffset],
                   WroteFrames(client, follow.offset, Readable))
    /\ UNCHANGED << run, seal, waiter >>

(* The sealed extension data, bound to the manifest, then the last event.  *)
ReadSealedExtension ==
    /\ follow.stage = "sealing"
    /\ follow' = [follow EXCEPT !.stage = "idle", !.ended = TRUE]
    /\ \/ client' = Finished(client, "sealed")
       \/ client' = Finished(Wrote(client, Is("extension", 0, 0),
                                   ExtensionSize), "sealed")
       \/ client' = IF follow.ended THEN client
                    ELSE Wrote(client, Is("mismatch", 0, 0), 1)
    /\ UNCHANGED << run, seal, waiter >>

(* The client has caught up. *)
Drain ==
    /\ client.buffered > 0 /\ ~client.destroyed
    /\ client' = [client EXCEPT !.buffered = 0, !.needDrain = FALSE]
    /\ UNCHANGED << run, seal, waiter, follow >>

(* The client goes away; cleanup ends the following. *)
Disconnect ==
    /\ ~client.destroyed
    /\ client' = [client EXCEPT !.destroyed = TRUE, !.buffered = 0,
                                !.needDrain = FALSE]
    /\ follow' = [follow EXCEPT !.ended = TRUE]
    /\ UNCHANGED << run, seal, waiter >>

-----------------------------------------------------------------------------
Produce == BeginLine \/ EndLine \/ ChangeExtension \/ Seal \/ Abort

FollowSeal == SealPoll \/ Reconcile

Follow ==
    \/ Poll \/ Read \/ ReadExtension \/ CheckManifest \/ ReadFinal
    \/ ReadSealedExtension

Next ==
    \/ Produce \/ FollowSeal \/ AwaitTerminal \/ WaitTimesOut
    \/ Follow \/ Drain \/ Disconnect

Spec == Init /\ [][Next]_vars

(* The intervals keep firing and the file system answers. *)
FairSpec == Spec /\ WF_vars(FollowSeal) /\ WF_vars(Follow)

-----------------------------------------------------------------------------
(* Properties.                                                             *)

Of(type) == SelectSeq(client.sent, LAMBDA e : e.type = type)

Reported == FoldLeft(LAMBDA n, e : n + e.skipped, 0, client.sent)

Samples == IF run.lines = 0 THEN 0 ELSE run.lines - 1

(* The frames a client gets are those of the record, each at most once and *)
(* in order, whichever polls read a part of a line, find the file gone or  *)
(* change over to the sealed file (offsetBytes in sendRunFrames).          *)
TicksIncrease ==
    LET frames == Of("frame") IN
    /\ \A i \in 1 .. Len(frames) - 1 : frames[i].tick < frames[i + 1].tick
    /\ \A i \in 1 .. Len(frames) : frames[i].tick \in 1 .. Samples

(* No frame is lost without a word: by the time the stream says the run is *)
(* sealed, each sample of the record was sent or reported as skipped.      *)
NothingLostSilently ==
    Of("sealed") # << >> => Len(Of("frame")) + Reported >= Samples

(* "delivered plus explicitly skipped frames must close against the        *)
(* record" (view/serverRunLive.test.ts): they are counted once each.       *)
FramesClose ==
    Of("sealed") # << >> => Len(Of("frame")) + Reported = Samples

(* A stream has one end, and nothing follows it (finishSealed,             *)
(* finishFailed, and writes still under way in a poll).                    *)
NothingAfterEnd ==
    \A i \in 1 .. Len(client.sent) :
        client.sent[i].type \in {"sealed", "mismatch"} =>
            i = Len(client.sent)

(* A client is told that the run is sealed only when it is and its viewer  *)
(* extensions were reconciled with it, and never after that failed.        *)
SealedIsReconciled ==
    Of("sealed") # << >> => run.place = "sealed" /\ seal.status = "recorded"

(* Whoever waits for the seal is woken by it: there is no moment between   *)
(* asking for the state and subscribing (awaitTerminal).                   *)
NoMissedWakeup == waiter = "waiting" => seal.status = "live"

(* What a client is told is true: the record in order, each sample sent or *)
(* said to be skipped, one end, and no end before the record is sealed.    *)
StreamHonest ==
    /\ TypeOK
    /\ TicksIncrease
    /\ NothingAfterEnd
    /\ NothingLostSilently
    /\ SealedIsReconciled
    /\ NoMissedWakeup
===============================================================================
