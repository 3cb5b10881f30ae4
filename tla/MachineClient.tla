--------------------------- MODULE MachineClient ---------------------------
(***************************************************************************)
(* The client of the Moltnet machine (moltnet/machine/client.ts): one      *)
(* long-lived child process that is sent requests, a line each, and        *)
(* answers every one with a terminal line.  Requests are under way         *)
(* together and are matched by their correlation; a signal aborts one by   *)
(* rejecting its promise and sending a cancel after it; the child's input  *)
(* may block; its output may end, or be nonsense; it may die.              *)
(*                                                                         *)
(* Requests are numbered in the order they were made, so that two of them  *)
(* under one correlation can be told apart.  The machine is external: it   *)
(* answers a line it was sent once, and whatever else it may print.        *)
(***************************************************************************)
EXTENDS Integers, FiniteSets, Sequences, SequencesExt

CONSTANTS
  Correlations,  \* correlation identities, and which operation each is used for
  OperationOf,
  MaxActive,     \* MOLTNET_MACHINE_MAX_ACTIVE_REQUESTS
  Oddities,      \* lines a machine may print that answer nothing
  MaxRequests    \* bound: requests made

ASSUME MachineAssumption == MaxActive \in Nat

VARIABLES
  requests,  \* the requests made: [id, promise, canceled, answer]
  pending,   \* correlation -> the number of its pending request, or None
  writes,    \* the lines queued for the child: [kind, n]
  cancels,   \* cancelCorrelations: the requests whose cancel is unanswered
  flow,      \* [blocked, eof: the output has ended, draining: it waits for ...
             \*  the queue, closed]
  child,     \* [alive, exitSeen, stdin: open, ended or destroyed]
  written    \* every line the child's input took, in order

machineVars == <<requests, pending, writes, cancels, flow, child, written>>

None == 0
Numbers == DOMAIN requests
MaxQueued == 2 * MaxActive
Line(kind, n) == [kind |-> kind, n |-> n]

\* The numbers of a set in their order.
Ordered(S) ==
  [i \in 1..Cardinality(S) |-> CHOOSE n \in S : Cardinality({m \in S : m < n}) = i - 1]

Active == {pending[c] : c \in Correlations} \ {None}

\* encodeMoltnetMachineRequest and decodeMoltnetMachineTerminal: a line of
\* the version, with the fields of its operation and one payload or error.
Decodes(f) ==
  /\ f.version = "moltnet.machine.v1"
  /\ f.size = "fits"
  /\ f.keysOnce
  /\ f.fields = {"version", "correlation_id", "operation"} \cup f.payloads
  /\ f.operation \in {"send_nudge", "read", "cancel"}
  /\ Cardinality(f.payloads) = 1
  /\ f.payloads \subseteq {f.operation, "error"}
  /\ f.payloadFits

------------------------------------------------------------------------------
(* What several operations share, each as the state it leads to.  A client *)
(* is [requests, pending, writes, cancels, flow, child, written].          *)

Client == [requests |-> requests, pending |-> pending, writes |-> writes,
           cancels |-> cancels, flow |-> flow, child |-> child,
           written |-> written]

Becomes(s) ==
  /\ requests' = s.requests
  /\ pending' = s.pending
  /\ writes' = s.writes
  /\ cancels' = s.cancels
  /\ flow' = s.flow
  /\ child' = s.child
  /\ written' = s.written

\* fail: every request that still waits is rejected, everything is dropped,
\* and the child is left to end or killed.
Fail(s, graceful) ==
  IF s.flow.closed THEN s
  ELSE [s EXCEPT
         !.flow.closed = TRUE, !.flow.draining = FALSE,
         !.requests = [n \in DOMAIN s.requests |->
                        IF s.requests[n].promise = "waiting"
                        THEN [s.requests[n] EXCEPT !.promise = "failed"]
                        ELSE s.requests[n]],
         !.pending = [c \in Correlations |-> None],
         !.writes = <<>>, !.cancels = {},
         !.child.stdin = IF graceful THEN "ended" ELSE "destroyed",
         !.child.alive = graceful /\ s.child.alive]

\* finishEof: once the output has ended and nothing is left to write.
FinishEof(s) ==
  IF s.flow.draining /\ ~s.flow.blocked /\ s.writes = <<>>
  THEN Fail(s, TRUE) ELSE s

\* flushWrites: lines are written until one of them fills the pipe, or fails;
\* the outcomes.
Flush(s) ==
  LET took(k) == [s EXCEPT
        !.writes = SubSeq(s.writes, k + 1, Len(s.writes)),
        !.written = s.written \o SubSeq(s.writes, 1, k)]
  IN  IF s.flow.closed \/ s.flow.blocked THEN {s}
      ELSE {FinishEof(took(Len(s.writes)))}
             \cup {[took(k) EXCEPT !.flow.blocked = TRUE] : k \in 1..Len(s.writes)}
             \cup {Fail(took(k - 1), FALSE) : k \in 1..Len(s.writes)}

\* enqueueWrite: refused once closed or with too many lines queued.
Enqueue(s, lines) ==
  LET queued == [s EXCEPT !.writes = s.writes \o lines]
  IN  {f \in Flush(queued) : Len(f.writes) <= MaxQueued}

Overflows(s, lines) ==
  \/ s.flow.closed
  \/ \E f \in Flush([s EXCEPT !.writes = s.writes \o lines]) :
       Len(f.writes) > MaxQueued

\* cancel: a cancel line for each of the requests that has none yet; a queue
\* that cannot take it fails the whole client.
Cancel(s, targets) ==
  LET new == {n \in targets : ~s.requests[n].canceled}
      lines == [i \in 1..Cardinality(new) |-> Line("cancel", Ordered(new)[i])]
      marked == [s EXCEPT
        !.requests = [n \in DOMAIN s.requests |->
                       IF n \in new THEN [s.requests[n] EXCEPT !.canceled = TRUE]
                       ELSE s.requests[n]],
        !.cancels = @ \cup new]
  IN  IF new = {} \/ s.flow.closed THEN {s}
      ELSE Enqueue(marked, lines)
             \cup (IF Overflows(marked, lines) THEN {Fail(marked, FALSE)} ELSE {})

------------------------------------------------------------------------------
(* The caller. *)

Asked(c, promise) ==
  [id |-> c, promise |-> promise, canceled |-> FALSE, answer |-> None]

\* request: refused before anything is sent when the client is closed or
\* ending, the correlation is taken or too many requests are active, and when
\* it was aborted before (line 174) or cannot be encoded.
RequestRefused(c, flawed) ==
  /\ Len(requests) < MaxRequests
  /\ \/ flow.closed \/ flow.eof
     \/ pending[c] # None \/ Cardinality(Active) >= MaxActive
     \/ flawed
  /\ requests' = Append(requests, Asked(c, "refused"))
  /\ UNCHANGED <<pending, writes, cancels, flow, child, written>>

Request(c) ==
  LET n == Len(requests) + 1
      asked == [Client EXCEPT
        !.requests = Append(requests, Asked(c, "waiting")),
        !.pending[c] = n]
      lines == <<Line("request", n)>>
      refused == [Client EXCEPT !.requests = Append(requests, Asked(c, "refused"))]
  IN  /\ Len(requests) < MaxRequests
      /\ ~flow.closed /\ ~flow.eof
      /\ pending[c] = None /\ Cardinality(Active) < MaxActive
      /\ \E s \in Enqueue(asked, lines)
                  \cup (IF Overflows(asked, lines) THEN {refused} ELSE {}) :
           Becomes(s)

\* The signal of a request: its promise is rejected, its entry stays until the
\* machine answers.
FaultyAborted(s, n) ==
  {[x EXCEPT !.requests[n].promise = "aborted",
             !.pending[requests[n].id] = None] : x \in Cancel(s, {n})}

Aborted(s, n) == {[x EXCEPT !.requests[n].promise = "aborted"] : x \in Cancel(s, {n})}

AbortRequest(n) ==
  /\ n \in Numbers /\ requests[n].promise = "waiting"
  /\ \E s \in Aborted(Client, n) : Becomes(s)

\* close: what is active is canceled, and the child left to end.
Close ==
  /\ ~flow.closed
  /\ \E s \in Cancel(Client, Active) : Becomes(Fail(s, TRUE))

------------------------------------------------------------------------------
(* The child. *)

Sent(kind) == {n \in Numbers : Line(kind, n) \in ToSet(written)}

\* consumeLine, for the answer to a request.
Resolve(s, n) ==
  LET c == requests[n].id
      m == pending[c]
  IN  IF m = None THEN Fail(s, FALSE)
      ELSE [s EXCEPT
             !.pending[c] = None,
             !.requests[m] =
               IF s.requests[m].promise = "waiting"
               THEN [s.requests[m] EXCEPT !.promise = "answered", !.answer = n]
               ELSE [s.requests[m] EXCEPT !.answer = n]]

AnswerRequest(n) ==
  /\ ~flow.closed /\ ~flow.eof
  /\ n \in Sent("request")
  /\ \A m \in Numbers : requests[m].answer # n
  /\ Becomes(Resolve(Client, n))

\* consumeLine, for the answer to a cancel.
AnswerCancel(n) ==
  /\ ~flow.closed /\ ~flow.eof
  /\ n \in Sent("cancel") \cap cancels
  /\ cancels' = cancels \ {n}
  /\ UNCHANGED <<requests, pending, writes, flow, child, written>>

\* A line that answers nothing, or cannot be read, fails the client.
Odd(f) ==
  /\ ~flow.closed /\ ~flow.eof
  /\ ~Decodes(f) \/ pending[f.correlation_id] = None
     \/ OperationOf[f.correlation_id] # f.operation
  /\ Becomes(Fail(Client, FALSE))

InputDrains ==
  /\ flow.blocked /\ child.stdin = "open"
  /\ \E s \in Flush([Client EXCEPT !.flow.blocked = FALSE]) : Becomes(s)

\* child.stdin or the child itself reports an error.
Breaks ==
  /\ ~flow.closed
  /\ Becomes(Fail(Client, FALSE))

Dies ==
  /\ child.alive
  /\ child' = [child EXCEPT !.alive = FALSE]
  /\ UNCHANGED <<requests, pending, writes, cancels, flow, written>>

ExitSeen ==
  /\ ~child.alive /\ ~child.exitSeen
  /\ LET s == [Client EXCEPT !.child.exitSeen = TRUE]
     IN  Becomes(IF flow.eof THEN s ELSE Fail(s, FALSE))

\* The output ends: what is active is canceled, and the queue given a second
\* to drain.
OutputEnds ==
  /\ ~flow.closed /\ ~flow.eof
  /\ \E s \in Cancel([Client EXCEPT !.flow.eof = TRUE], Active) :
       Becomes(IF s.flow.closed THEN s
               ELSE FinishEof([s EXCEPT !.flow.draining = TRUE]))

FaultyDeadline ==
  /\ flow.draining /\ ~flow.blocked
  /\ Becomes(Fail(Client, FALSE))

Deadline ==
  /\ flow.draining
  /\ Becomes(Fail(Client, FALSE))

\* The timer of a graceful end.
ForceKill ==
  /\ child.stdin = "ended" /\ child.alive
  /\ child' = [child EXCEPT !.alive = FALSE]
  /\ UNCHANGED <<requests, pending, writes, cancels, flow, written>>

------------------------------------------------------------------------------
MachineInit ==
  /\ requests = <<>>
  /\ pending = [c \in Correlations |-> None]
  /\ writes = <<>>
  /\ cancels = {}
  /\ flow = [blocked |-> FALSE, eof |-> FALSE, draining |-> FALSE, closed |-> FALSE]
  /\ child = [alive |-> TRUE, exitSeen |-> FALSE, stdin |-> "open"]
  /\ written = <<>>

MachineNext ==
  \/ \E c \in Correlations : Request(c) \/ \E flawed \in BOOLEAN : RequestRefused(c, flawed)
  \/ \E n \in 1..MaxRequests : AbortRequest(n) \/ AnswerRequest(n) \/ AnswerCancel(n)
  \/ \E f \in Oddities : Odd(f)
  \/ Close \/ InputDrains \/ Breaks \/ Dies \/ ExitSeen \/ OutputEnds
  \/ Deadline \/ ForceKill

\* Timers fire and the child's end is reported.
MachineFairness ==
  WF_machineVars(ExitSeen) /\ WF_machineVars(Deadline)
  /\ WF_machineVars(ForceKill)

MachineSpec == MachineInit /\ [][MachineNext]_machineVars /\ MachineFairness

------------------------------------------------------------------------------
\* A caller is given the terminal of its own request and of no other, also of
\* one that used the same correlation before.
AnsweredForItself ==
  \A n \in Numbers : requests[n].promise = "answered" => requests[n].answer = n

\* No promise is forgotten: whoever still waits is looked up by its correlation.
StillPending ==
  \A n \in Numbers : requests[n].promise = "waiting" =>
    ~flow.closed /\ pending[requests[n].id] = n

\* Each line is written once, a cancel only after its request, and nothing of a
\* request that was refused.
WrittenOnce ==
  LET place(kind, n) == {i \in DOMAIN written : written[i] = Line(kind, n)}
  IN  \A n \in Numbers :
        /\ Cardinality(place("request", n)) <= 1
        /\ Cardinality(place("cancel", n)) <= 1
        /\ \A i \in place("cancel", n) : \E j \in place("request", n) : j < i
        /\ requests[n].promise = "refused" => n \notin Sent("request")

\* The machine hears of every request that is active, and of its cancel once it
\* was aborted or the output ended, unless the client failed.
NothingDropped ==
  LET due == ToSet(writes) \cup ToSet(written)
  IN  ~flow.closed =>
        /\ \A n \in Active :
             /\ Line("request", n) \in due
             /\ requests[n].promise = "aborted" \/ flow.eof => requests[n].canceled
             /\ requests[n].canceled => Line("cancel", n) \in due
        /\ \A n \in cancels : Line("cancel", n) \in due
        /\ ~flow.blocked => writes = <<>>

\* What client.ts and its tests promise of a machine's client, closed or not:
\* and a closed one holds on to nothing and leaves its child no open input.
MachineHonest ==
  /\ AnsweredForItself /\ StillPending /\ WrittenOnce /\ NothingDropped
  /\ flow.closed => Active = {} /\ writes = <<>> /\ child.stdin # "open"
  /\ Cardinality(Active) <= MaxActive /\ Len(writes) <= MaxQueued

\* The client is going: its child is gone, or the output ended, or it was closed.
MachineGoing == ~child.alive \/ flow.eof \/ flow.closed
MachineGone == ~child.alive /\ \A n \in Numbers : requests[n].promise # "waiting"
==============================================================================
