--------------------------- MODULE SupervisedCall ---------------------------
(***************************************************************************)
(* Waiting for a world's end (compose/supervisionTimeout.ts): the operator *)
(* timeout and the caller's abort race a loop that asks the target, one    *)
(* child process after another (spawnfile/productionTerminal.ts), whether  *)
(* the terminal artifact is there.  Whoever cancels waits for the loop to  *)
(* come to rest, and the loop for its child: SIGTERM, a grace, SIGKILL and *)
(* a look at the process group until it is gone or a deadline has passed   *)
(* (spawnfile/process.ts, processTree.ts).                                 *)
(*                                                                         *)
(* A child is a process that may leave a helper in its group, which may    *)
(* hold the pipes open.  Processes die when they like: nothing is assumed  *)
(* of how they take a signal.  Timers fire in any order once armed.        *)
(***************************************************************************)
EXTENDS Naturals, FiniteSets

CONSTANTS
  MaxCalls,    \* bound: children started
  MaxPolls,    \* bound: looks at the group before the deadline has passed
  MaxRefusals  \* bound: signals the system refuses to send

VARIABLES
  sup,     \* waitForComposedTerminal: [stage, why, answer]
  asking,  \* waitForProductionWorldTerminal: calling, pausing, answered or failed
  spawn,   \* the current call of runBoundedProcess and its process group
  ended,   \* the world has published its terminal artifact
  counts   \* [calls, refusals]

supervisedVars == <<sup, asking, spawn, ended, counts>>

Cancelled == sup.why # "none"
Quiet == {"aborted", "timedOut", "exceeded"}

------------------------------------------------------------------------------
(* waitForProductionWorldTerminal. *)

\* run_target, which refuses at once when the signal is already aborted.
Spawned(holds) ==
  [alive |-> {"root", "helper"}, holds |-> holds, closed |-> FALSE, code |-> 0,
   seen |-> FALSE, why |-> "none", exceeded |-> FALSE, escalated |-> FALSE,
   timers |-> {"timeout"}, held |-> "none", polls |-> 0, answer |-> "none"]

Ask ==
  /\ asking = "pausing" /\ ~Cancelled
  /\ counts.calls < MaxCalls
  /\ \E holds \in BOOLEAN : spawn' = Spawned(holds)
  /\ asking' = "calling"
  /\ counts' = [counts EXCEPT !.calls = @ + 1]
  /\ UNCHANGED <<sup, ended>>

\* What the loop makes of a call's answer: an artifact that is there ends it, one
\* that is not is asked for again unless the signal is aborted.
Heard(answer, seen, s) ==
  IF answer = "ok" /\ seen THEN "answered"
  ELSE IF answer = "ok" /\ s.why = "none" THEN "pausing" ELSE "failed"

\* The race: what the operation comes to is told when nothing cancelled before it,
\* and otherwise lets the cancellation be told that waits for it.
Told(s, outcome) ==
  IF outcome = "pausing" THEN s
  ELSE CASE s.stage = "waiting" -> [s EXCEPT !.stage = "told", !.answer = outcome]
         [] s.stage = "quiescing" -> [s EXCEPT !.stage = "told", !.answer = s.why]
         [] s.stage = "told" -> s

------------------------------------------------------------------------------
(* runBoundedProcess. *)

\* finish: the first answer counts; cleanup clears the timers it knows of.
Finish(c, answer) ==
  IF c.answer # "none" THEN c
  ELSE [c EXCEPT !.answer = answer, !.timers = @ \ {"timeout", c.held}]

\* finish(undefined, code)
Closing(c) ==
  IF c.why # "none" THEN c.why
  ELSE IF c.exceeded THEN "exceeded" ELSE IF c.code = 0 THEN "ok" ELSE "failed"

\* A mutant of AwaitQuiescence: it waits for the group as long as it takes.
FaultyAwaitQuiescence(c, of, late) ==
  IF c.alive = {} THEN Finish([c EXCEPT !.escalated = TRUE], Closing(c))
  ELSE [c EXCEPT !.timers = @ \cup {of}, !.held = of, !.polls = MaxPolls]

\* A look at the group by the wait that was started by timer `of`.
AwaitQuiescence(c, of, late) ==
  IF c.alive = {} THEN Finish([c EXCEPT !.escalated = TRUE], Closing(c))
  ELSE IF late THEN Finish([c EXCEPT !.escalated = TRUE], "stuck")
  ELSE [c EXCEPT !.timers = @ \cup {of}, !.held = of, !.polls = @ + 1]

\* How a step of the child ends, with the wait for it being s: what the child's
\* call answers reaches the loop at once.
ChildBecomes(c, s) ==
  /\ spawn' = c
  /\ IF spawn.answer = "none" /\ c.answer # "none"
     THEN /\ asking' = Heard(c.answer, c.seen, s)
          /\ sup' = Told(s, asking')
     ELSE asking' = asking /\ sup' = s

\* A signal to the group of c, after which its call becomes next, or which the
\* system refuses.
Signal(c, next, s) ==
  \/ ChildBecomes(next, s) /\ UNCHANGED counts
  \/ /\ counts.refusals < MaxRefusals
     /\ ChildBecomes(Finish(c, "unsignalled"), s)
     /\ counts' = [counts EXCEPT !.refusals = @ + 1]

Late(c) == IF c.polls < MaxPolls THEN BOOLEAN ELSE {TRUE}
Fired(timer) == [spawn EXCEPT !.timers = @ \ {timer}]

\* terminate, by the abort listener or by the timeout: the later reason is kept.
Terminate(c, reason, s) ==
  LET cut == [c EXCEPT !.why = reason]
  IN  Signal(cut, IF c.held # "none" THEN cut
                  ELSE [cut EXCEPT !.timers = @ \cup {"kill"}, !.held = "kill"], s)

TimeoutFires ==
  /\ "timeout" \in spawn.timers
  /\ Terminate(Fired("timeout"), "timedOut", sup)
  /\ UNCHANGED ended

\* SIGKILL by the timer that terminate armed, which may outlive the call.
KillFires ==
  /\ "kill" \in spawn.timers
  /\ LET c == Fired("kill")
     IN  \E late \in Late(c) : Signal(c, AwaitQuiescence(c, "pollKilled", late), sup)
  /\ UNCHANGED ended

PollFires ==
  /\ \E of \in spawn.timers \cap {"pollKilled", "pollFull"} : \E late \in Late(spawn) :
       ChildBecomes(AwaitQuiescence(Fired(of), of, late), sup)
  /\ UNCHANGED <<ended, counts>>

\* collect: more output than is kept, and SIGKILL at once.
OutputExceeds ==
  /\ spawn.answer = "none" /\ ~spawn.closed /\ ~spawn.exceeded /\ spawn.alive # {}
  /\ LET c == [spawn EXCEPT !.exceeded = TRUE]
     IN  \E late \in Late(c) : Signal(c, AwaitQuiescence(c, "pollFull", late), sup)
  /\ UNCHANGED ended

MemberDies(p) ==
  /\ p \in spawn.alive
  /\ \E code \in IF p = "root" THEN {0, 1} ELSE {spawn.code} :
       \E seen \in IF p = "root" /\ ended THEN BOOLEAN ELSE {spawn.seen} :
         spawn' = [spawn EXCEPT !.alive = @ \ {p}, !.code = code, !.seen = seen]
  /\ UNCHANGED <<sup, asking, ended, counts>>

\* A mutant of Closed: it does not look whether the group still lives.
FaultyClosed ==
  /\ ~spawn.closed /\ spawn.answer = "none"
  /\ "root" \notin spawn.alive /\ ~(spawn.holds /\ "helper" \in spawn.alive)
  /\ ChildBecomes(Finish([spawn EXCEPT !.closed = TRUE], Closing(spawn)), sup)
  /\ UNCHANGED <<ended, counts>>

\* "close": the root is gone and nothing holds its pipes.  A call that was cut
\* short waits for the rest of the group.
Closed ==
  /\ ~spawn.closed /\ spawn.answer = "none"
  /\ "root" \notin spawn.alive /\ ~(spawn.holds /\ "helper" \in spawn.alive)
  /\ LET c == [spawn EXCEPT !.closed = TRUE]
     IN  IF (c.why # "none" \/ c.exceeded) /\ ~c.escalated /\ c.alive # {}
         THEN ChildBecomes(c, sup)
         ELSE ChildBecomes(Finish(c, Closing(c)), sup)
  /\ UNCHANGED <<ended, counts>>

------------------------------------------------------------------------------
(* waitForComposedTerminal. *)

\* cancel: the reason is kept and the operation's signal aborts, which the pause or
\* the call hears at once.
CancelWait(reason) ==
  /\ sup.stage = "waiting"
  /\ IF asking = "calling"
     THEN Terminate(spawn, "aborted", [sup EXCEPT !.stage = "quiescing", !.why = reason])
     ELSE /\ sup' = [stage |-> "told", why |-> reason, answer |-> reason]
          /\ asking' = "failed"
          /\ UNCHANGED <<spawn, counts>>
  /\ UNCHANGED ended

\* awaitOperationQuiescence: the timer of the wait.
GiveUp ==
  /\ sup.stage = "quiescing"
  /\ sup' = [sup EXCEPT !.stage = "told", !.answer = "stuck"]
  /\ UNCHANGED <<asking, spawn, ended, counts>>

WorldEnds == ~ended /\ ended' = TRUE /\ UNCHANGED <<sup, asking, spawn, counts>>

------------------------------------------------------------------------------
SupervisedInit ==
  /\ sup = [stage |-> "waiting", why |-> "none", answer |-> "none"]
  /\ asking = "pausing"
  /\ spawn = [Spawned(FALSE) EXCEPT !.alive = {}, !.timers = {}, !.answer = "ok"]
  /\ ended = FALSE
  /\ counts = [calls |-> 0, refusals |-> 0]

SupervisedNext ==
  \/ Ask \/ TimeoutFires \/ KillFires \/ PollFires \/ OutputExceeds
  \/ \E p \in {"root", "helper"} : MemberDies(p)
  \/ Closed \/ GiveUp \/ WorldEnds
  \/ \E reason \in {"abort", "timeout"} : CancelWait(reason)

\* What the runtime owes: timers fire.
SupervisedFairness ==
  /\ WF_supervisedVars(TimeoutFires)
  /\ WF_supervisedVars(KillFires) /\ WF_supervisedVars(PollFires)
  /\ WF_supervisedVars(GiveUp) /\ WF_supervisedVars(CancelWait("timeout"))

SupervisedSpec == SupervisedInit /\ [][SupervisedNext]_supervisedVars /\ SupervisedFairness

------------------------------------------------------------------------------
\* A world's end is told only of a world that ended; a cancellation is told as one
\* only when nothing is asked any more; and a child that was cut short is answered
\* for as such only when none of its group is left.
SupervisionExact ==
  /\ sup.answer = "answered" => ended
  /\ sup.answer \in {"abort", "timeout"} => asking = "failed" /\ spawn.answer # "none"
  /\ spawn.answer \in Quiet => spawn.alive = {}

SupervisionGoing == sup.stage # "told" \/ spawn.answer = "none"
SupervisionGone == sup.stage = "told" /\ spawn.answer # "none"
==============================================================================
