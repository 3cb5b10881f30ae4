---------------------------- MODULE ClientsProofs ----------------------------
(***************************************************************************)
(* Proofs about those who are told what happens in a run: the two ends of  *)
(* a call to something that may die, the supervised child process          *)
(* (SupervisedCall) and an agent's call to its world (WorldCall), and the  *)
(* readers of a run's viewer data (LiveProjection).                        *)
(*                                                                         *)
(* SupervisedCall: what is told of a world's end, and when a child's call  *)
(* may be answered as cut short, for any number of children, of looks at a *)
(* group and of refused signals.                                           *)
(*                                                                         *)
(* LiveProjection: what its files and its record show stands on what was   *)
(* committed, wherever a publication, its undoing or the making of the     *)
(* record has come to, and whichever writes fail.                          *)
(*                                                                         *)
(* SpatialPlayback: the playhead of a map stays on the samples the page    *)
(* has and goes back only by hand, for any samples, speeds and frames.     *)
(***************************************************************************)
EXTENDS SupervisedCall, WorldCall, LiveProjection, SpatialPlayback, FiniteSetTheorems, TLAPS

Timers == {"timeout", "kill", "pollKilled", "pollFull"}
Outcomes == {"pausing", "answered", "failed"}

Waits ==
  [stage : {"waiting", "quiescing", "told"}, why : {"none", "abort", "timeout"},
   answer : {"none", "answered", "failed", "abort", "timeout", "stuck"}]

Answers == {"none", "ok", "failed", "stuck", "unsignalled"} \cup Quiet

Children ==
  [alive : SUBSET {"root", "helper"}, holds : BOOLEAN, closed : BOOLEAN, code : {0, 1},
   seen : BOOLEAN, why : {"none", "aborted", "timedOut"}, exceeded : BOOLEAN,
   escalated : BOOLEAN, timers : SUBSET Timers,
   held : {"none", "kill", "pollKilled", "pollFull"}, polls : Nat,
   answer : Answers]

\* What holds of a child on its own: it saw the artifact only if that is there, is
\* answered as cut short only when its group is gone, and is answered once its group
\* was waited for to the end.
Honest(c) ==
  /\ c \in Children
  /\ c.seen => ended
  /\ c.answer \in Quiet => c.alive = {}
  /\ c.escalated => c.answer # "none"

\* What holds of the wait on its own.
Waited(s) ==
  /\ s \in Waits
  /\ s.stage = "waiting" => s.why = "none" /\ s.answer = "none"
  /\ s.stage = "quiescing" => s.why # "none" /\ s.answer = "none"
  /\ s.answer = "answered" => ended

\* The strengthening: a cancellation is only waited for while its child is under way,
\* which was told to end.
Inv ==
  /\ ended \in BOOLEAN
  /\ asking \in Outcomes \cup {"calling"}
  /\ Honest(spawn)
  /\ Waited(sup)
  /\ asking = "calling" <=> spawn.answer = "none"
  /\ sup.stage = "quiescing" => asking = "calling" /\ spawn.why # "none"
  /\ sup.answer \in {"abort", "timeout"} => asking = "failed"

------------------------------------------------------------------------------
\* The three ways the race is told (CASE of Told).
LEMMA ToldCases ==
  ASSUME NEW s \in Waits, NEW outcome \in Outcomes
  PROVE  /\ outcome = "pausing" => Told(s, outcome) = s
         /\ outcome # "pausing" /\ s.stage = "waiting"
              => Told(s, outcome) = [s EXCEPT !.stage = "told", !.answer = outcome]
         /\ outcome # "pausing" /\ s.stage = "quiescing"
              => Told(s, outcome) = [s EXCEPT !.stage = "told", !.answer = s.why]
         /\ outcome # "pausing" /\ s.stage = "told" => Told(s, outcome) = s
<1>1. "waiting" # "quiescing" /\ "waiting" # "told" /\ "quiescing" # "told"
  OBVIOUS
<1> QED
  BY <1>1, Zenon DEF Told

\* A child that is answered keeps its answer (finish).
LEMMA FinishIs ==
  ASSUME NEW c \in Children, NEW answer \in Answers \ {"none"}
  PROVE  /\ Finish(c, answer) \in Children
         /\ Finish(c, answer).answer = IF c.answer # "none" THEN c.answer ELSE answer
         /\ Finish(c, answer).why = c.why
         /\ Finish(c, answer).alive = c.alive
         /\ Finish(c, answer).seen = c.seen
         /\ Finish(c, answer).escalated = c.escalated
<1> DEFINE left == c.timers \ {"timeout", c.held}
<1>1. left \in SUBSET Timers
  BY DEF Children
<1>2. Finish(c, answer) = IF c.answer # "none" THEN c
                          ELSE [c EXCEPT !.answer = answer, !.timers = left]
  BY DEF Finish
<1> HIDE DEF left
<1>3. Finish(c, answer) \in Children
  <2>1. CASE c.answer # "none"
    BY <1>2, <2>1
  <2>2. CASE c.answer = "none"
    <3>1. Finish(c, answer) = [c EXCEPT !.answer = answer, !.timers = left]
      BY <1>2, <2>2
    <3>2. answer \in Answers
      OBVIOUS
    <3> QED
      BY <1>1, <3>1, <3>2, ZenonT(60) DEF Children
  <2> QED
    BY <2>1, <2>2
<1> QED
  BY <1>2, <1>3 DEF Children

\* Answering a child keeps it honest, if its group is gone where the answer says so.
LEMMA FinishHonest ==
  ASSUME NEW c, Honest(c), NEW answer \in Answers \ {"none"},
         answer \in Quiet => c.alive = {}
  PROVE  Honest(Finish(c, answer))
<1> DEFINE d == Finish(c, answer)
<1>1. /\ d \in Children /\ d.seen = c.seen /\ d.alive = c.alive
      /\ d.escalated = c.escalated
      /\ d.answer = IF c.answer # "none" THEN c.answer ELSE answer
  BY FinishIs DEF Honest
<1> HIDE DEF d
<1>2. Honest(d)
  BY <1>1 DEF Honest, Answers
<1> QED
  BY <1>2 DEF d

\* The answer of a closing child is "ok" only if nobody cut it short, and as cut
\* short only for a reason.
LEMMA ClosingAnswer ==
  ASSUME NEW c \in Children
  PROVE  /\ Closing(c) \in Answers \ {"none"}
         /\ Closing(c) = "ok" => c.why = "none"
  BY DEF Closing, Children, Quiet, Answers

\* A look at the group answers the call as cut short only when the group is gone.
LEMMA LookHonest ==
  ASSUME NEW c, Honest(c), NEW of \in {"pollKilled", "pollFull"}, NEW past \in BOOLEAN
  PROVE  LET d == AwaitQuiescence(c, of, past)
         IN  /\ Honest(d)
             /\ d.why = c.why
             /\ c.answer # "none" => d.answer = c.answer
             /\ d.answer = "ok" /\ c.answer = "none" => c.why = "none"
<1> DEFINE d == AwaitQuiescence(c, of, past)
           e == [c EXCEPT !.escalated = TRUE]
           armed == c.timers \cup {of}
           polls == c.polls + 1
<1>1. /\ e \in Children /\ e.why = c.why /\ e.answer = c.answer /\ e.alive = c.alive
      /\ e.seen = c.seen /\ Closing(e) = Closing(c)
  BY DEF Honest, Children, Closing
<1>2. armed \in SUBSET Timers /\ polls \in Nat
  BY DEF Honest, Children, Timers
<1>3. d = IF c.alive = {} THEN Finish(e, Closing(e))
          ELSE IF past THEN Finish(e, "stuck")
          ELSE [c EXCEPT !.timers = armed, !.held = of, !.polls = polls]
  BY <1>1 DEF AwaitQuiescence
<1> HIDE DEF e, armed, polls, d
<1>4. SUFFICES /\ Honest(d)
               /\ d.why = c.why
               /\ c.answer # "none" => d.answer = c.answer
               /\ d.answer = "ok" /\ c.answer = "none" => c.why = "none"
  BY DEF d
<1>5. CASE c.alive = {}
  <2> DEFINE answer == Closing(e)
  <2>1. answer \in Answers \ {"none"} /\ (answer = "ok" => e.why = "none")
    BY <1>1, ClosingAnswer
  <2>2. d = Finish(e, answer)
    BY <1>3, <1>5
  <2> HIDE DEF answer
  <2>3. /\ d \in Children /\ d.seen = e.seen /\ d.alive = e.alive /\ d.why = e.why
        /\ d.answer = IF e.answer # "none" THEN e.answer ELSE answer
    BY <1>1, <2>1, <2>2, FinishIs
  <2> QED
    BY <1>1, <1>5, <2>1, <2>3 DEF Honest, Answers
<1>6. CASE c.alive # {} /\ past
  BY <1>1, <1>3, <1>6, FinishIs DEF Answers, Honest, Quiet
<1>7. CASE c.alive # {} /\ ~past
  BY <1>3, <1>7, <1>2 DEF Honest, Children
<1> QED
  BY <1>5, <1>6, <1>7

\* A step of the child keeps the invariant, if the child it makes of it is honest and
\* a child that was answered stays so.
LEMMA ChildBecomesKeeps ==
  ASSUME Inv, UNCHANGED ended,
         NEW c, Honest(c), NEW s, Waited(s),
         ChildBecomes(c, s),
         spawn.answer # "none" => c.answer = spawn.answer,
         spawn.answer = "none" /\ c.answer = "ok" => c.why = "none",
         s.stage = "quiescing" => asking = "calling" /\ c.why # "none",
         s.answer \in {"abort", "timeout"} => s = sup
  PROVE  Inv'
<1>1. spawn' = c /\ Honest(spawn)'
  BY DEF ChildBecomes, Honest, Inv, Waited
<1>2. s.answer \in {"abort", "timeout"} => asking = "failed" /\ spawn.answer # "none"
  BY DEF Inv
<1>3. CASE spawn.answer = "none" /\ c.answer # "none"
  <2>1. asking' = Heard(c.answer, c.seen, s) /\ sup' = Told(s, asking')
    BY <1>3 DEF ChildBecomes
  <2>2. /\ asking' \in Outcomes
        /\ asking' = "answered" <=> c.answer = "ok" /\ c.seen
        /\ asking' = "pausing" => s.why = "none"
    BY <2>1 DEF Heard, Outcomes
  <2>3. s.answer \notin {"abort", "timeout"}
    BY <1>2, <1>3
  <2>4. CASE asking' = "pausing"
    BY <2>1, <2>2, <2>4, ToldCases, <1>1, <1>3, <2>3 DEF Waited, Inv, Outcomes
  <2>5. CASE asking' # "pausing"
    <3>1. CASE s.stage = "waiting"
      <4>1. sup' = [s EXCEPT !.stage = "told", !.answer = asking']
        BY <2>1, <2>2, <2>5, <3>1, ToldCases DEF Waited
      <4> QED
        BY <1>1, <1>3, <2>2, <2>5, <3>1, <4>1 DEF Inv, Waited, Waits, Outcomes, Honest
    <3>2. CASE s.stage = "quiescing"
      <4>1. sup' = [s EXCEPT !.stage = "told", !.answer = s.why]
        BY <2>1, <2>2, <2>5, <3>2, ToldCases DEF Waited
      <4>2. asking' = "failed"
        BY <1>3, <2>2, <2>5, <3>2 DEF Outcomes
      <4> QED
        BY <1>1, <1>3, <3>2, <4>1, <4>2 DEF Inv, Waited, Waits, Outcomes
    <3>3. CASE s.stage = "told"
      BY <2>1, <2>2, <2>5, <3>3, ToldCases, <1>1, <1>3, <2>3 DEF Waited, Inv,
         Outcomes
    <3> QED
      BY <3>1, <3>2, <3>3 DEF Waited, Waits
  <2> QED
    BY <2>4, <2>5
<1>4. CASE ~(spawn.answer = "none" /\ c.answer # "none")
  BY <1>4, <1>1, <1>2 DEF ChildBecomes, Inv, Waited
<1> QED
  BY <1>3, <1>4

\* A timer that fired is gone and changes nothing else of the child.
LEMMA FiredIs ==
  ASSUME Honest(spawn), NEW timer
  PROVE  /\ Honest(Fired(timer))
         /\ Fired(timer).why = spawn.why /\ Fired(timer).answer = spawn.answer
<1> DEFINE left == spawn.timers \ {timer}
<1>1. left \in SUBSET Timers
  BY DEF Honest, Children
<1>2. Fired(timer) = [spawn EXCEPT !.timers = left]
  BY DEF Fired
<1> HIDE DEF left
<1> QED
  BY <1>1, <1>2 DEF Honest, Children

\* A signal to a child's group keeps the invariant: sent or refused, the child is not
\* answered as cut short by it, and stays answered if it was.
LEMMA SignalKeeps ==
  ASSUME Inv, UNCHANGED ended,
         NEW c, Honest(c), c.answer = spawn.answer,
         NEW next, Honest(next),
         spawn.answer # "none" => next.answer = spawn.answer,
         spawn.answer = "none" /\ next.answer = "ok" => next.why = "none",
         NEW s, Waited(s),
         s.stage = "quiescing" => asking = "calling" /\ c.why # "none" /\ next.why # "none",
         s.answer \in {"abort", "timeout"} => s = sup,
         Signal(c, next, s)
  PROVE  Inv'
<1>1. CASE ChildBecomes(next, s)
  BY <1>1, ChildBecomesKeeps
<1>2. CASE ChildBecomes(Finish(c, "unsignalled"), s)
  <2> DEFINE d == Finish(c, "unsignalled")
  <2>1. "unsignalled" \in Answers \ {"none"} /\ "unsignalled" \notin Quiet
    BY DEF Answers, Quiet
  <2>2. Honest(d)
    BY <2>1, FinishHonest
  <2>3. d.why = c.why /\ d.answer = IF c.answer # "none" THEN c.answer ELSE "unsignalled"
    BY <2>1, FinishIs DEF Honest
  <2>4. ChildBecomes(d, s)
    BY <1>2
  <2> HIDE DEF d
  <2> QED
    BY <2>2, <2>3, <2>4, ChildBecomesKeeps
<1> QED
  BY <1>1, <1>2 DEF Signal

\* Ending a child keeps the invariant, whoever asks for it.
LEMMA TerminateKeeps ==
  ASSUME Inv, UNCHANGED ended,
         NEW c, Honest(c), c.answer = spawn.answer,
         NEW reason \in {"aborted", "timedOut"},
         NEW s, Waited(s),
         s.stage = "quiescing" => asking = "calling",
         s.answer \in {"abort", "timeout"} => s = sup,
         Terminate(c, reason, s)
  PROVE  Inv'
<1> DEFINE cut == [c EXCEPT !.why = reason]
           armed == cut.timers \cup {"kill"}
           next == IF c.held # "none" THEN cut
                   ELSE [cut EXCEPT !.timers = armed, !.held = "kill"]
<1>1. /\ Honest(cut) /\ cut.why = reason /\ cut.answer = c.answer
  BY DEF Honest, Children
<1>2. armed \in SUBSET Timers
  BY <1>1 DEF Honest, Children, Timers
<1>3. Signal(cut, next, s)
  BY DEF Terminate
<1> HIDE DEF cut, armed
<1>4. Honest(next) /\ next.why = reason /\ next.answer = c.answer
  <2>1. CASE c.held # "none"
    BY <1>1, <2>1
  <2>2. CASE c.held = "none"
    <3>1. next = [cut EXCEPT !.timers = armed, !.held = "kill"]
      BY <2>2
    <3> HIDE DEF next
    <3> QED
      BY <1>1, <1>2, <3>1 DEF Honest, Children
  <2> QED
    BY <2>1, <2>2
<1> HIDE DEF next
<1>5. spawn.answer = "none" /\ next.answer = "ok" => next.why = "none"
  BY <1>4
<1> QED
  BY <1>1, <1>3, <1>4, <1>5, SignalKeeps

------------------------------------------------------------------------------
\* The wait begins with no child and nothing asked.
LEMMA InitInv == SupervisedInit => Inv
<1> SUFFICES ASSUME SupervisedInit PROVE Inv
  OBVIOUS
<1>1. spawn = [alive |-> {}, holds |-> FALSE, closed |-> FALSE, code |-> 0,
               seen |-> FALSE, why |-> "none", exceeded |-> FALSE, escalated |-> FALSE,
               timers |-> {}, held |-> "none", polls |-> 0, answer |-> "ok"]
  BY DEF SupervisedInit, Spawned
<1>2. Honest(spawn)
  BY <1>1 DEF Honest, Children, Answers, Quiet, Timers
<1>3. spawn.answer = "ok"
  BY <1>1
<1> QED
  BY <1>2, <1>3 DEF SupervisedInit, Inv, Waited, Waits, Outcomes

\* Every timer, signal, death and answer keeps the invariant.
LEMMA NextInv == Inv /\ [SupervisedNext]_supervisedVars => Inv'
<1> SUFFICES ASSUME Inv, [SupervisedNext]_supervisedVars PROVE Inv'
  OBVIOUS
<1>0. Honest(spawn) /\ Waited(sup)
  BY DEF Inv
<1>w. sup.stage = "quiescing" => asking = "calling" /\ spawn.why # "none"
  BY DEF Inv
<1>1. CASE Ask
  <2>1. PICK holds \in BOOLEAN : spawn' = Spawned(holds)
    BY <1>1 DEF Ask
  <2>2. Honest(spawn)'
    BY <2>1, <1>1 DEF Ask, Spawned, Honest, Children, Answers, Quiet, Timers
  <2>3. spawn'.answer = "none"
    BY <2>1 DEF Spawned
  <2>4. sup.why = "none" /\ UNCHANGED <<sup, ended>> /\ asking' = "calling" /\ asking = "pausing"
    BY <1>1 DEF Ask, Cancelled
  <2> QED
    BY <2>2, <2>3, <2>4 DEF Inv, Waited, Outcomes
<1>2. CASE TimeoutFires
  BY <1>2, <1>0, <1>w, FiredIs, TerminateKeeps DEF TimeoutFires
<1>3. CASE KillFires
  <2> DEFINE c == Fired("kill")
  <2>1. PICK past \in Late(c) : Signal(c, AwaitQuiescence(c, "pollKilled", past), sup)
    BY <1>3 DEF KillFires
  <2>2. UNCHANGED ended /\ past \in BOOLEAN
    BY <1>3 DEF KillFires, Late
  <2>3. Honest(c) /\ c.why = spawn.why /\ c.answer = spawn.answer
    BY <1>0, FiredIs
  <2> HIDE DEF c
  <2> DEFINE d == AwaitQuiescence(c, "pollKilled", past)
  <2>4. /\ Honest(d) /\ d.why = c.why /\ (c.answer # "none" => d.answer = c.answer)
        /\ (d.answer = "ok" /\ c.answer = "none" => c.why = "none")
    BY <2>2, <2>3, LookHonest
  <2>5. Signal(c, d, sup)
    BY <2>1
  <2> HIDE DEF d
  <2> QED
    BY <1>0, <1>w, <2>2, <2>3, <2>4, <2>5, SignalKeeps
<1>4. CASE PollFires
  <2>1. PICK of \in spawn.timers \cap {"pollKilled", "pollFull"} : \E past \in Late(spawn) :
          ChildBecomes(AwaitQuiescence(Fired(of), of, past), sup)
    BY <1>4 DEF PollFires
  <2>2. PICK past \in Late(spawn) : ChildBecomes(AwaitQuiescence(Fired(of), of, past), sup)
    BY <2>1
  <2>3. UNCHANGED ended /\ past \in BOOLEAN
    BY <1>4 DEF PollFires, Late
  <2> DEFINE c == Fired(of)
  <2>4. Honest(c) /\ c.why = spawn.why /\ c.answer = spawn.answer
    BY <1>0, FiredIs
  <2> HIDE DEF c
  <2>5. ChildBecomes(AwaitQuiescence(c, of, past), sup)
    BY <2>2 DEF c
  <2> DEFINE d == AwaitQuiescence(c, of, past)
  <2>6. /\ Honest(d) /\ d.why = c.why /\ (c.answer # "none" => d.answer = c.answer)
        /\ (d.answer = "ok" /\ c.answer = "none" => c.why = "none")
    BY <2>3, <2>4, LookHonest
  <2> HIDE DEF d
  <2>7. ChildBecomes(d, sup)
    BY <2>5 DEF d
  <2> QED
    BY <1>0, <1>w, <2>3, <2>4, <2>6, <2>7, ChildBecomesKeeps
<1>5. CASE OutputExceeds
  <2> DEFINE c == [spawn EXCEPT !.exceeded = TRUE]
  <2>1. PICK past \in Late(c) : Signal(c, AwaitQuiescence(c, "pollFull", past), sup)
    BY <1>5 DEF OutputExceeds
  <2>2. UNCHANGED ended /\ past \in BOOLEAN
    BY <1>5 DEF OutputExceeds, Late
  <2>3. Honest(c) /\ c.why = spawn.why /\ c.answer = spawn.answer
    BY <1>0 DEF Honest, Children
  <2> HIDE DEF c
  <2> DEFINE d == AwaitQuiescence(c, "pollFull", past)
  <2>4. /\ Honest(d) /\ d.why = c.why /\ (c.answer # "none" => d.answer = c.answer)
        /\ (d.answer = "ok" /\ c.answer = "none" => c.why = "none")
    BY <2>2, <2>3, LookHonest
  <2>5. Signal(c, d, sup)
    BY <2>1
  <2> HIDE DEF d
  <2> QED
    BY <1>0, <1>w, <2>2, <2>3, <2>4, <2>5, SignalKeeps
<1>6. CASE \E p \in {"root", "helper"} : MemberDies(p)
  <2>1. PICK p \in {"root", "helper"} : MemberDies(p)
    BY <1>6
  <2>2. PICK code \in {0, 1}, seen \in BOOLEAN :
          /\ spawn' = [spawn EXCEPT !.alive = @ \ {p}, !.code = code, !.seen = seen]
          /\ seen => ended
    BY <2>1, <1>0 DEF MemberDies, Honest, Children
  <2>3. UNCHANGED <<sup, asking, ended>> /\ p \in spawn.alive
    BY <2>1 DEF MemberDies
  <2> DEFINE left == spawn.alive \ {p}
  <2>4. left \in SUBSET {"root", "helper"}
    BY <1>0 DEF Honest, Children
  <2>5. spawn' = [spawn EXCEPT !.alive = left, !.code = code, !.seen = seen]
    BY <2>2
  <2>6. spawn.answer \notin Quiet
    BY <1>0, <2>3 DEF Honest
  <2> HIDE DEF left
  <2>7. /\ spawn' \in Children /\ spawn'.answer = spawn.answer /\ spawn'.why = spawn.why
        /\ spawn'.seen = seen /\ spawn'.escalated = spawn.escalated
    BY <1>0, <2>4, <2>5 DEF Honest, Children
  <2>8. Honest(spawn)'
    BY <1>0, <2>2, <2>3, <2>6, <2>7 DEF Honest
  <2> QED
    BY <2>3, <2>7, <2>8 DEF Inv, Waited
<1>7. CASE Closed
  <2> DEFINE c == [spawn EXCEPT !.closed = TRUE]
             answer == Closing(c)
  <2>1. /\ Honest(c) /\ c.why = spawn.why /\ c.answer = spawn.answer
        /\ c.alive = spawn.alive /\ c.exceeded = spawn.exceeded
        /\ c.escalated = spawn.escalated
    BY <1>0 DEF Honest, Children
  <2>2. answer \in Answers \ {"none"} /\ (answer = "ok" => c.why = "none")
    BY <2>1, ClosingAnswer DEF Honest
  <2>3. answer \in Quiet => c.why # "none" \/ c.exceeded
    BY <2>1 DEF Closing, Quiet, Honest, Children
  <2>4. UNCHANGED ended /\ spawn.answer = "none"
    BY <1>7 DEF Closed
  <2>5. \/ ChildBecomes(c, sup)
        \/ /\ ChildBecomes(Finish(c, answer), sup)
           /\ ~((c.why # "none" \/ c.exceeded) /\ ~c.escalated /\ c.alive # {})
    BY <1>7 DEF Closed
  <2> HIDE DEF c, answer
  <2>6. CASE ChildBecomes(c, sup)
    BY <1>0, <1>w, <2>1, <2>4, <2>6, ChildBecomesKeeps
  <2>7. CASE /\ ChildBecomes(Finish(c, answer), sup)
             /\ ~((c.why # "none" \/ c.exceeded) /\ ~c.escalated /\ c.alive # {})
    <3>1. answer \in Quiet => c.alive = {}
      BY <2>1, <2>3, <2>4, <2>7 DEF Honest
    <3> DEFINE d == Finish(c, answer)
    <3>2. Honest(d)
      BY <2>1, <2>2, <3>1, FinishHonest
    <3>3. d.why = c.why /\ d.answer = answer
      BY <2>1, <2>2, <2>4, FinishIs DEF Honest
    <3> HIDE DEF d
    <3>4. ChildBecomes(d, sup)
      BY <2>7 DEF d
    <3> QED
      BY <1>0, <1>w, <2>1, <2>2, <2>4, <3>2, <3>3, <3>4, ChildBecomesKeeps
  <2> QED
    BY <2>5, <2>6, <2>7
<1>8. CASE GiveUp
  BY <1>8 DEF GiveUp, Inv, Honest, Waited, Waits
<1>9. CASE WorldEnds
  BY <1>9 DEF WorldEnds, Inv, Honest, Waited
<1>10. CASE \E reason \in {"abort", "timeout"} : CancelWait(reason)
  <2>1. PICK reason \in {"abort", "timeout"} : CancelWait(reason)
    BY <1>10
  <2>2. sup.stage = "waiting" /\ UNCHANGED ended
    BY <2>1 DEF CancelWait
  <2>3. CASE asking = "calling"
    <3> DEFINE s == [sup EXCEPT !.stage = "quiescing", !.why = reason]
    <3>1. Terminate(spawn, "aborted", s)
      BY <2>1, <2>3 DEF CancelWait
    <3>2. Waited(s) /\ s.answer = "none"
      BY <1>0, <2>2 DEF Waited, Waits
    <3> HIDE DEF s
    <3> QED
      BY <1>0, <2>2, <2>3, <3>1, <3>2, TerminateKeeps
  <2>4. CASE asking # "calling"
    BY <2>1, <2>4, <2>2 DEF CancelWait, Waited, Waits, Inv, Honest, Outcomes
  <2> QED
    BY <2>3, <2>4
<1>11. CASE UNCHANGED supervisedVars
  BY <1>11 DEF supervisedVars, Inv, Honest, Waited
<1> QED
  BY <1>1, <1>2, <1>3, <1>4, <1>5, <1>6, <1>7, <1>8, <1>9, <1>10, <1>11 DEF SupervisedNext

\* A world's end is told only of a world that ended, a cancellation only when nothing
\* is asked any more, and a child is answered as cut short only when none of its group
\* is left: for any number of calls, polls and refused signals, in every order of the
\* timers (supervisionTimeout.ts, process.ts).
THEOREM SupervisionExactAlways == SupervisedSpec => []SupervisionExact
<1>1. Inv => SupervisionExact
  BY DEF Inv, Honest, Waited, SupervisionExact
<1> QED
  BY <1>1, InitInv, NextInv, PTL DEF SupervisedSpec

(***************************************************************************)
(* WorldCall: what becomes of decisions, acts and tokens, for any agents,  *)
(* messages and number of calls under way.  A call that was answered owes  *)
(* its caller the truth (CallTrue), the counts of acts and of decisions    *)
(* spent agree, and a token is in one place (InPlace).                     *)
(***************************************************************************)
Decisions == [principal : Agents, state : {"active", "consumed", "expired"}]
Requests == {message.request : message \in UNION {Messages[p] : p \in Agents}}
Acts(p) == {r \in DOMAIN applied : applied[r].principal = p}
Spent(p) == {t \in Tokens : decisions[t].principal = p /\ decisions[t].state = "consumed"}

StoreTypes ==
  /\ Cardinality(Tokens) \in Nat /\ Tokens = 1 .. Cardinality(Tokens)
  /\ decisions \in [Tokens -> Decisions]
  /\ IsFiniteSet(DOMAIN applied)
  /\ \A r \in DOMAIN applied : applied[r].principal \in Agents /\ applied[r].receipt \in Nat

CallTypes ==
  /\ StoreTypes
  /\ session \in [Agents -> [open : BOOLEAN, authority : Tokens \cup {NoToken}]]
  /\ known \in [Agents -> [tokens : SUBSET Tokens,
                           receipts : SUBSET [request : Requests, receipt : Nat]]]
  /\ calls = [k \in Slots |-> calls[k]]
  /\ lost \subseteq Tokens

\* A call that has not been handled.
Unhandled(c) ==
  /\ c.phase \in {"reading", "called"} /\ c.caller \in Agents
  /\ c.via = (IF c.phase = "reading" THEN "json" ELSE "mcp")
  /\ {"operation", "request", "fields"} \subseteq DOMAIN c.message
  /\ c.message.request \in Requests

OnRecordAs(c) ==
  \E entry \in recorded :
    /\ <<entry.operation, entry.request>> = c.about
    /\ entry.principal = c.caller /\ entry.status = 200

\* What an answered call owes its caller.
CallTrue(c) ==
  /\ c.phase = "answered" /\ c.caller \in Agents
  /\ c.answer.tokens \subseteq Tokens
  /\ \A t \in c.answer.tokens : decisions[t].principal = c.caller
  /\ c.via = "mcp" => c.answer.tokens = {}
  /\ c.answer.kind = "receipt" =>
       /\ c.about[2] \in DOMAIN applied \cap Requests
       /\ applied[c.about[2]].principal = c.caller
       /\ applied[c.about[2]].receipt = c.answer.receipt
  /\ c.answer.kind \in {"token", "claimed", "receipt"} => OnRecordAs(c)

ReceiptsTrue ==
  \A p \in Agents : \A told \in known[p].receipts :
    /\ told.request \in DOMAIN applied
    /\ applied[told.request].principal = p
    /\ applied[told.request].receipt = told.receipt

ActsRecorded ==
  /\ \A r \in DOMAIN applied : \E entry \in recorded :
       /\ entry.operation = "act" /\ entry.request = r
       /\ entry.principal = applied[r].principal
  /\ \A entry \in recorded : entry.tokens = {}

\* Where a token may be: told to its principal, remembered by a session of the
\* principal's, or on its way in an answer.
Carries(c) == IF c.phase = "answered" THEN c.answer.tokens ELSE {}
Held(t) ==
  \/ t \in known[decisions[t].principal].tokens
  \/ session[decisions[t].principal].authority = t
  \/ \E k \in Slots : t \in Carries(calls[k])

OwnTokens ==
  \A p \in Agents :
    /\ session[p].authority # NoToken => decisions[session[p].authority].principal = p
    /\ session[p].authority \notin known[p].tokens
    /\ \A t \in known[p].tokens : decisions[t].principal = p

OnePlace ==
  \A k \in Slots : \A t \in Carries(calls[k]) :
    /\ t \notin known[calls[k].caller].tokens
    /\ t # session[calls[k].caller].authority
    /\ \A j \in Slots : t \in Carries(calls[j]) => j = k

NoneForgotten ==
  \A t \in Tokens : decisions[t].state = "active" => (Held(t) <=> t \notin lost)

InPlace == OwnTokens /\ OnePlace /\ NoneForgotten

\* A session that is closed remembers nothing, and no call of it waits.
SessionsOpen ==
  /\ \A p \in Agents : session[p].open \/ session[p].authority = NoToken
  /\ \A k \in Slots : calls[k].phase = "called" => session[calls[k].caller].open

\* As many acts as decisions that were spent on them.
PaidFor == \A p \in Agents : Cardinality(Acts(p)) = Cardinality(Spent(p))

CallOk(c) == c = Free \/ Unhandled(c) \/ CallTrue(c)

CallInv ==
  /\ CallTypes /\ PaidFor /\ ReceiptsTrue /\ ActsRecorded /\ SessionsOpen
  /\ \A k \in Slots : CallOk(calls[k])
  /\ OwnTokens /\ OnePlace /\ NoneForgotten

-------------------------------------------------------------------------------
\* What the runtime may answer, and what the handler makes of it.

(* A claim is granted a new token, an act is repeated or made, and whatever else is
   said brings neither. *)
LEMMA InvokedCases ==
  ASSUME NEW p, NEW m, NEW token, NEW a, a = Invoked(p, m, token)
  PROVE  \/ a.kind \in {"error", "refused", "read"} /\ a.tokens = {}
         \/ /\ a.kind = "token" /\ m.operation = "claim" /\ ClaimGranted(p, m)
            /\ a.tokens = {Cardinality(Tokens) + 1} /\ a.status = 200
         \/ /\ a.kind = "receipt" /\ m.operation = "act" /\ a.tokens = {} /\ a.status = 200
            /\ \/ Replays(p, m) /\ a.receipt = applied[m.request].receipt
               \/ /\ m.request \notin DOMAIN applied /\ MayAct(p, token)
                  /\ a.receipt = Cardinality(DOMAIN applied) + 1
<1>1. \A x : Error(x).kind = "error" /\ Error(x).tokens = {}
  BY DEF Error, NoAnswer
<1>2. Refused.kind = "refused" /\ Refused.tokens = {}
  BY DEF Refused, NoAnswer
<1>3. CASE ~WellFormed(m)
  BY <1>1, <1>3 DEF Invoked
<1>4. CASE WellFormed(m) /\ m.operation = "claim"
  BY <1>4, <1>1 DEF Invoked, NoAnswer
<1>5. CASE WellFormed(m) /\ m.operation = "act"
  BY <1>5, <1>2 DEF Invoked, NoAnswer, Conflicts
<1>6. CASE WellFormed(m) /\ m.operation # "claim" /\ m.operation # "act"
  BY <1>6, <1>1 DEF Invoked, NoAnswer
<1> QED
  BY <1>3, <1>4, <1>5, <1>6

(* What is answered was done, what was done is recorded, and an answer that says so is
   recorded as one that succeeded. *)
LEMMA HandledCases ==
  ASSUME NEW p, NEW m, NEW token, NEW mishap, NEW h, h = Handled(p, m, token, mishap)
  PROVE  /\ h.done = Invoked(p, m, token) \/ (h.done.kind = "none" /\ h.done.tokens = {})
         /\ \/ h.answer = h.done /\ h.done = Invoked(p, m, token)
            \/ h.answer.kind = "error" /\ h.answer.tokens = {}
         /\ h.done.kind \notin {"token", "receipt"} => h.recorded = {}
         /\ h.done.kind \in {"token", "receipt"} => \E entry :
              /\ h.recorded = {entry} /\ entry.principal = p /\ entry.tokens = {}
              /\ entry.operation = m.operation /\ entry.request = m.request
              /\ h.answer.kind # "error" => entry.status = h.answer.status
<1> DEFINE early == TurnedAway(m, mishap)
           done == Invoked(p, m, token)
           sent == Sendable(done, mishap)
<1>1. \A x : Error(x).kind = "error" /\ Error(x).tokens = {}
  BY DEF Error, NoAnswer
<1>2. early = NoAnswer \/ (early.kind = "error" /\ early.tokens = {})
  BY <1>1 DEF TurnedAway
<1>3. sent = done \/ (sent.kind = "error" /\ sent.tokens = {})
  BY <1>1 DEF Sendable
<1>4. CASE early # NoAnswer
  BY <1>4, <1>2 DEF Handled, NoAnswer
<1>5. CASE early = NoAnswer
  <2> DEFINE entry == Observed(p, m, IF mishap = "complete" THEN NoAnswer ELSE sent)
  <2>1. h = [answer |-> IF mishap = "complete" THEN Error(500) ELSE sent,
             done |-> done, recorded |-> Kept(entry, done)]
    BY <1>5 DEF Handled
  <2>2. /\ entry.principal = p /\ entry.tokens = {} /\ entry.operation = m.operation
        /\ entry.request = m.request
        /\ mishap # "complete" => entry.status = sent.status
    BY DEF Observed
  <2>3. Kept(entry, done) = IF done.kind \in {"token", "receipt"} THEN {entry} ELSE {}
    BY DEF Kept
  <2> HIDE DEF entry, sent, done
  <2>4. /\ h.done = done /\ h.recorded = Kept(entry, done)
        /\ h.answer = IF mishap = "complete" THEN Error(500) ELSE sent
    BY <2>1
  <2>5. h.answer.kind # "error" => entry.status = h.answer.status
    BY <1>1, <2>2, <2>4
  <2>6. h.answer = h.done \/ (h.answer.kind = "error" /\ h.answer.tokens = {})
    BY <1>1, <1>3, <2>4
  <2> QED
    BY <2>2, <2>3, <2>4, <2>5, <2>6 DEF done
<1> QED
  BY <1>4, <1>5

\* What the runtime did for a call: nothing new, a decision minted, or an act made and a
\* decision spent on it.
NothingNew(p, m, done) ==
  /\ done.tokens = {} /\ done.kind # "token"
  /\ done.kind = "receipt" =>
       /\ Replays(p, m) /\ done.receipt = applied[m.request].receipt
  /\ decisions' = decisions /\ applied' = applied

Minted(p, done) ==
  /\ done.kind = "token" /\ done.tokens = {Cardinality(Tokens) + 1} /\ ActiveOf(p) = {}
  /\ decisions' = [t \in Tokens \cup {Cardinality(Tokens) + 1} |->
       IF t \in Tokens THEN decisions[t] ELSE [principal |-> p, state |-> "active"]]
  /\ applied' = applied

Acted(p, m, token, done) ==
  /\ done.kind = "receipt" /\ done.tokens = {} /\ m.operation = "act"
  /\ m.request \notin DOMAIN applied /\ token \in ActiveOf(p)
  /\ done.receipt = Cardinality(DOMAIN applied) + 1
  /\ decisions' = [decisions EXCEPT ![token].state = "consumed"]
  /\ applied' = [r \in DOMAIN applied \cup {m.request} |->
       IF r \in DOMAIN applied THEN applied[r]
       ELSE [principal |-> p, body |-> Envelope(m).body, receipt |-> done.receipt]]

(* Whatever is handled does one of the three. *)
LEMMA HandleDoes ==
  ASSUME NEW p, NEW m, NEW token, NEW mishap, NEW h, h = Handled(p, m, token, mishap),
         Changes(p, m, token, h.done)
  PROVE  NothingNew(p, m, h.done) \/ Minted(p, h.done) \/ Acted(p, m, token, h.done)
<1> PICK a : a = h.done
  OBVIOUS
<1>1. a = Invoked(p, m, token) \/ (a.kind = "none" /\ a.tokens = {})
  BY HandledCases
<1>2. CASE a.kind = "token"
  <2>1. a = Invoked(p, m, token)
    BY <1>1, <1>2
  <2>2. a.tokens = {Cardinality(Tokens) + 1} /\ ClaimGranted(p, m)
    BY <1>2, <2>1, InvokedCases
  <2> QED
    BY <1>2, <2>2 DEF Changes, Minted, ClaimGranted
<1>3. CASE a.kind = "receipt"
  <2>1. a = Invoked(p, m, token)
    BY <1>1, <1>3
  <2>2. /\ m.operation = "act" /\ a.tokens = {}
        /\ \/ Replays(p, m) /\ a.receipt = applied[m.request].receipt
           \/ /\ m.request \notin DOMAIN applied /\ MayAct(p, token)
              /\ a.receipt = Cardinality(DOMAIN applied) + 1
    BY <1>3, <2>1, InvokedCases
  <2>3. CASE Replays(p, m)
    BY <1>3, <2>2, <2>3 DEF Changes, NothingNew, Replays
  <2>4. CASE ~Replays(p, m)
    BY <1>3, <2>2, <2>4 DEF Changes, Acted, MayAct
  <2> QED
    BY <2>3, <2>4
<1>4. CASE a.kind # "token" /\ a.kind # "receipt"
  BY <1>1, <1>4, InvokedCases DEF Changes, NothingNew
<1> QED
  BY <1>2, <1>3, <1>4

\* Nobody's decision, act or record is taken back.
Advances ==
  /\ Tokens \subseteq Tokens' /\ recorded \subseteq recorded'
  /\ \A t \in Tokens : decisions'[t].principal = decisions[t].principal
  /\ \A r \in DOMAIN applied : r \in DOMAIN applied' /\ applied'[r] = applied[r]

(* What an answer owed its caller it still owes. *)
LEMMA TrueStays ==
  ASSUME CallTypes, Advances
  PROVE  \A c : CallTrue(c) => CallTrue(c)'
<1> TAKE c
<1> SUFFICES ASSUME CallTrue(c) PROVE CallTrue(c)'
  OBVIOUS
<1>1. OnRecordAs(c) => OnRecordAs(c)'
  BY DEF OnRecordAs, Advances
<1>2. c.answer.kind = "receipt" => c.about[2] \in DOMAIN applied
  BY DEF CallTrue
<1> QED
  BY <1>1, <1>2 DEF CallTrue, Advances

(* So do the receipts a caller has. *)
LEMMA ReceiptsStay ==
  ASSUME Advances, ReceiptsTrue, UNCHANGED known
  PROVE  ReceiptsTrue'
BY DEF Advances, ReceiptsTrue

(* Every call is in order when one has become another that is. *)
LEMMA CallsStep ==
  ASSUME \A k \in Slots : CallOk(calls[k]), calls = [k \in Slots |-> calls[k]],
         \A c : CallTrue(c) => CallTrue(c)',
         NEW k \in Slots, NEW n, calls' = [calls EXCEPT ![k] = n],
         n = Free \/ Unhandled(n) \/ CallTrue(n)'
  PROVE  /\ \A j \in Slots : CallOk(calls[j])'
         /\ calls' = [j \in Slots |-> calls'[j]]
         /\ calls'[k] = n /\ \A j \in Slots \ {k} : calls'[j] = calls[j]
<1>1. calls'[k] = n /\ \A j \in Slots \ {k} : calls'[j] = calls[j]
  OBVIOUS
<1>2. \A c : CallOk(c) => CallOk(c)'
  BY DEF CallOk
<1>3. CallOk(n)'
  BY DEF CallOk
<1>4. \A j \in Slots : CallOk(calls[j])'
  BY <1>1, <1>2, <1>3
<1> QED
  BY <1>1, <1>4

(* The acts of a principal and the decisions it spent are finitely many. *)
LEMMA CountedFinite ==
  ASSUME StoreTypes
  PROVE  /\ IsFiniteSet(Tokens) /\ Cardinality(DOMAIN applied) \in Nat
         /\ \A p : /\ IsFiniteSet(Acts(p)) /\ Cardinality(Acts(p)) \in Nat
                   /\ IsFiniteSet(Spent(p)) /\ Cardinality(Spent(p)) \in Nat
<1>0. PICK n \in Nat : n = Cardinality(Tokens)
  BY DEF StoreTypes
<1>1. IsFiniteSet(1 .. n)
  BY FS_Interval
<1>2. IsFiniteSet(Tokens)
  BY <1>0, <1>1 DEF StoreTypes
<1>3. \A p : Acts(p) \subseteq DOMAIN applied /\ Spent(p) \subseteq Tokens
  BY DEF Acts, Spent
<1>4. \A p : IsFiniteSet(Acts(p)) /\ IsFiniteSet(Spent(p))
  BY <1>2, <1>3, FS_Subset DEF StoreTypes
<1> QED
  BY <1>2, <1>4, FS_CardinalityType DEF StoreTypes

(* A decision minted is new, its principal's, and active, and nothing else changes. *)
LEMMA MintedKeeps ==
  ASSUME StoreTypes, PaidFor, NEW p \in Agents, NEW done, Minted(p, done)
  PROVE  /\ StoreTypes' /\ PaidFor'
         /\ Cardinality(Tokens) + 1 \notin Tokens /\ Tokens' = Tokens \cup done.tokens
         /\ decisions'[Cardinality(Tokens) + 1] = [principal |-> p, state |-> "active"]
         /\ \A t \in Tokens : decisions'[t] = decisions[t]
<1> PICK n : n = Cardinality(Tokens)
  OBVIOUS
<1>1. n \in Nat /\ Tokens = 1 .. n /\ n + 1 \notin Tokens
  BY DEF StoreTypes
<1>2. /\ decisions' = [t \in Tokens \cup {n + 1} |->
           IF t \in Tokens THEN decisions[t] ELSE [principal |-> p, state |-> "active"]]
      /\ applied' = applied /\ done.tokens = {n + 1}
  BY DEF Minted
<1>3. Tokens' = Tokens \cup {n + 1}
  BY <1>2 DEF Tokens
<1>4. /\ decisions'[n + 1] = [principal |-> p, state |-> "active"]
      /\ \A t \in Tokens : decisions'[t] = decisions[t]
  BY <1>1, <1>2
<1>5. Tokens' = 1 .. (n + 1)
  <2>1. (1 .. n) \cup {n + 1} = 1 .. (n + 1)
    BY <1>1
  <2> QED
    BY <1>1, <1>3, <2>1
<1>6. Cardinality(Tokens') = n + 1
  <2>1. Cardinality(1 .. (n + 1)) = n + 1
    BY <1>1, FS_Interval
  <2> QED
    BY <1>5, <2>1
<1>7. StoreTypes'
  <2>1. [principal |-> p, state |-> "active"] \in Decisions
    BY DEF Decisions
  <2>2. decisions' \in [Tokens' -> Decisions]
    BY <1>2, <2>1, <1>3 DEF StoreTypes
  <2>3. Cardinality(Tokens') \in Nat /\ Tokens' = 1 .. Cardinality(Tokens')
    <3>1. n + 1 \in Nat
      BY <1>1
    <3>2. \A S, i : S = 1 .. (n + 1) /\ i = n + 1 => S = 1 .. i
      OBVIOUS
    <3>3. Cardinality(Tokens') \in Nat
      BY <1>6, <3>1
    <3> QED
      BY <1>5, <1>6, <3>2, <3>3
  <2> QED
    BY <1>2, <2>2, <2>3 DEF StoreTypes
<1>8. ASSUME NEW q \in Agents PROVE Acts(q)' = Acts(q) /\ Spent(q)' = Spent(q)
  BY <1>2, <1>3, <1>4 DEF Acts, Spent
<1>9. PaidFor'
  BY <1>8 DEF PaidFor
<1> QED
  BY <1>1, <1>2, <1>3, <1>4, <1>7, <1>9

(* An act is one more of its principal's, and so is the decision spent on it. *)
LEMMA ActedKeeps ==
  ASSUME StoreTypes, PaidFor, NEW p \in Agents, NEW m, NEW token, NEW done,
         Acted(p, m, token, done)
  PROVE  /\ StoreTypes' /\ PaidFor'
         /\ Tokens' = Tokens
         /\ \A t \in Tokens : /\ decisions'[t].principal = decisions[t].principal
                              /\ decisions'[t].state = "active" => decisions[t].state = "active"
         /\ DOMAIN applied' = DOMAIN applied \cup {m.request}
         /\ \A r \in DOMAIN applied : applied'[r] = applied[r]
         /\ applied'[m.request].principal = p /\ applied'[m.request].receipt = done.receipt
<1>1. /\ token \in Tokens /\ decisions[token].principal = p
      /\ decisions[token].state = "active" /\ m.request \notin DOMAIN applied
  BY DEF Acted, ActiveOf
<1>2. Tokens' = Tokens
  BY DEF Acted, Tokens, StoreTypes
<1>3. /\ decisions' \in [Tokens -> Decisions]
      /\ \A t \in Tokens \ {token} : decisions'[t] = decisions[t]
      /\ decisions'[token].principal = p /\ decisions'[token].state = "consumed"
  BY <1>1 DEF Acted, StoreTypes, Decisions
<1>4. /\ DOMAIN applied' = DOMAIN applied \cup {m.request}
      /\ \A r \in DOMAIN applied : applied'[r] = applied[r]
      /\ applied'[m.request].principal = p /\ applied'[m.request].receipt = done.receipt
  BY <1>1 DEF Acted
<1>5. done.receipt \in Nat
  BY CountedFinite DEF Acted
<1>6. IsFiniteSet(DOMAIN applied')
  BY <1>4, FS_AddElement DEF StoreTypes
<1>7. StoreTypes'
  BY <1>2, <1>3, <1>4, <1>5, <1>6 DEF StoreTypes
<1>8. ASSUME NEW q \in Agents PROVE Cardinality(Acts(q)') = Cardinality(Spent(q)')
  <2>1. CASE q = p
    <3>1. Acts(q)' = Acts(q) \cup {m.request} /\ m.request \notin Acts(q)
      BY <1>1, <1>4, <2>1 DEF Acts
    <3>2. Spent(q)' = Spent(q) \cup {token} /\ token \notin Spent(q)
      BY <1>1, <1>2, <1>3, <2>1 DEF Spent
    <3>3. /\ IsFiniteSet(Acts(q)) /\ IsFiniteSet(Spent(q))
          /\ Cardinality(Acts(q)) = Cardinality(Spent(q))
      BY CountedFinite DEF PaidFor
    <3>4. Cardinality(Acts(q) \cup {m.request}) = Cardinality(Acts(q)) + 1
      BY <3>1, <3>3, FS_AddElement
    <3>5. Cardinality(Spent(q) \cup {token}) = Cardinality(Spent(q)) + 1
      BY <3>2, <3>3, FS_AddElement
    <3> QED
      BY <3>1, <3>2, <3>3, <3>4, <3>5
  <2>2. CASE q # p
    BY <1>4, <2>2, <1>1, <1>2, <1>3 DEF Acts, Spent, PaidFor
  <2> QED
    BY <2>1, <2>2
<1>9. PaidFor'
  BY <1>8 DEF PaidFor
<1> QED
  BY <1>1, <1>2, <1>3, <1>4, <1>7, <1>9


(* What is handled takes nothing back and leaves the stores in order. *)
LEMMA HandleKeeps ==
  ASSUME CallTypes, PaidFor, ActsRecorded, NEW p \in Agents, NEW m, NEW token, NEW mishap,
         NEW h, h = Handled(p, m, token, mishap), Changes(p, m, token, h.done),
         recorded' = recorded \cup h.recorded
  PROVE  StoreTypes' /\ PaidFor' /\ Advances /\ ActsRecorded'
<1>1. NothingNew(p, m, h.done) \/ Minted(p, h.done) \/ Acted(p, m, token, h.done)
  BY HandleDoes
<1>2. StoreTypes
  BY DEF CallTypes
<1>3. recorded \subseteq recorded' /\ \A entry \in recorded' : entry.tokens = {}
  BY HandledCases DEF ActsRecorded
<1>4. CASE NothingNew(p, m, h.done)
  BY <1>4, <1>2, <1>3 DEF NothingNew, StoreTypes, PaidFor, Acts, Spent, Tokens,
     Advances, ActsRecorded
<1>5. CASE Minted(p, h.done)
  BY <1>5, <1>2, MintedKeeps, <1>3 DEF Minted, Advances, ActsRecorded
<1>6. CASE Acted(p, m, token, h.done)
  <2>1. /\ StoreTypes' /\ PaidFor' /\ Tokens' = Tokens
        /\ \A t \in Tokens : decisions'[t].principal = decisions[t].principal
        /\ DOMAIN applied' = DOMAIN applied \cup {m.request}
        /\ \A r \in DOMAIN applied : applied'[r] = applied[r]
        /\ applied'[m.request].principal = p
    BY <1>2, <1>6, ActedKeeps
  <2>2. h.done.kind = "receipt" /\ m.operation = "act"
    BY <1>6 DEF Acted
  <2>3. \E entry \in recorded' :
          entry.operation = "act" /\ entry.request = m.request /\ entry.principal = p
    BY <2>2, HandledCases
  <2>4. \A r \in DOMAIN applied' : \E entry \in recorded' :
          /\ entry.operation = "act" /\ entry.request = r
          /\ entry.principal = applied'[r].principal
    BY <1>3, <2>1, <2>3 DEF ActsRecorded
  <2> QED
    BY <1>3, <2>1, <2>4 DEF Advances, ActsRecorded
<1> QED
  BY <1>1, <1>4, <1>5, <1>6

(* The handler's answer is the truth: its tokens are the caller's, its receipt is the
   one the request ledger has, and what it says was done is on record. *)
LEMMA HandleTrue ==
  ASSUME CallTypes, PaidFor, NEW p \in Agents, NEW m, NEW token, NEW mishap,
         NEW h, h = Handled(p, m, token, mishap), Changes(p, m, token, h.done),
         recorded' = recorded \cup h.recorded
  PROVE  /\ h.answer.tokens \subseteq Tokens'
         /\ \A t \in h.answer.tokens : decisions'[t].principal = p
         /\ h.answer.kind # "token" => h.answer.tokens = {}
         /\ h.answer.kind # "claimed"
         /\ h.answer.kind = "receipt" =>
              /\ m.request \in DOMAIN applied' /\ applied'[m.request].principal = p
              /\ applied'[m.request].receipt = h.answer.receipt
         /\ h.answer.kind \in {"token", "receipt"} => \E entry \in recorded' :
              /\ entry.operation = m.operation /\ entry.request = m.request
              /\ entry.principal = p /\ entry.status = 200
<1>1. CASE h.answer.kind = "error" /\ h.answer.tokens = {}
  BY <1>1
<1>2. CASE h.answer = h.done /\ h.done = Invoked(p, m, token)
  <2>1. StoreTypes
    BY DEF CallTypes
  <2>2. NothingNew(p, m, h.done) \/ Minted(p, h.done) \/ Acted(p, m, token, h.done)
    BY HandleDoes
  <2>3. /\ h.done.kind \in {"error", "refused", "read", "token", "receipt"}
        /\ h.done.kind \in {"token", "receipt"} => h.done.status = 200
        /\ h.done.kind # "token" => h.done.tokens = {}
    BY <1>2, InvokedCases
  <2>4. h.done.kind \in {"token", "receipt"} => \E entry \in recorded' :
          /\ entry.operation = m.operation /\ entry.request = m.request
          /\ entry.principal = p /\ entry.status = 200
    BY <1>2, <2>3, HandledCases
  <2>5. CASE NothingNew(p, m, h.done)
    BY <1>2, <2>3, <2>4, <2>5 DEF NothingNew, Replays
  <2>6. CASE Minted(p, h.done)
    BY <2>6, <2>1, MintedKeeps, <1>2, <2>4 DEF Minted
  <2>7. CASE Acted(p, m, token, h.done)
    BY <2>7, <2>1, ActedKeeps, <1>2, <2>4 DEF Acted
  <2> QED
    BY <2>2, <2>5, <2>6, <2>7
<1> QED
  BY <1>1, <1>2, HandledCases

(* An error owes its caller nothing. *)
LEMMA ErrorTrue ==
  ASSUME NEW c, c.caller \in Agents, NEW a, a.kind = "error", a.tokens = {}
  PROVE  CallTrue(Answered(c, a)) /\ CallTrue(Answered(c, a))'
<1>1. /\ Answered(c, a).phase = "answered" /\ Answered(c, a).caller = c.caller
      /\ Answered(c, a).answer = a
  BY DEF Answered
<1> QED
  BY <1>1 DEF CallTrue

(* The tool's call is the handler's, with a token the caller did not write. *)
LEMMA RequestBodySame ==
  ASSUME NEW m, {"operation", "request", "fields"} \subseteq DOMAIN m
  PROVE  /\ RequestBody(m).operation = m.operation /\ RequestBody(m).request = m.request
         /\ RequestBody(m) = m \/ RequestBody(m).operation # "claim"
BY DEF RequestBody


-------------------------------------------------------------------------------
\* Where the tokens are after a step.

(* A token on its way in an answer is the caller's. *)
LEMMA CarriedOwn ==
  ASSUME \A k \in Slots : CallOk(calls[k])
  PROVE  /\ Carries(Free) = {}
         /\ \A k \in Slots : \A t \in Carries(calls[k]) :
              /\ calls[k].caller \in Agents /\ t \in Tokens
              /\ decisions[t].principal = calls[k].caller
<1>1. Free.phase # "answered"
  BY DEF Free
<1> QED
  BY <1>1 DEF CallOk, CallTrue, Unhandled, Carries

(* Nothing is moved. *)
LEMMA PlaceStays ==
  ASSUME CallTypes, \A k \in Slots : CallOk(calls[k]), OwnTokens, OnePlace, NoneForgotten,
         \A k \in Slots : /\ Carries(calls'[k]) = Carries(calls[k])
                          /\ Carries(calls[k]) # {} => calls'[k].caller = calls[k].caller,
         UNCHANGED <<known, lost>>,
         \A p \in Agents : session'[p].authority = session[p].authority,
         Tokens' = Tokens,
         \A t \in Tokens : /\ decisions'[t].principal = decisions[t].principal
                           /\ decisions'[t].state = "active" => decisions[t].state = "active"
  PROVE  OwnTokens' /\ OnePlace' /\ NoneForgotten'
<1>1. \A p \in Agents : session[p].authority \in Tokens \cup {NoToken}
  BY DEF CallTypes
<1>2. \A p \in Agents : known[p].tokens \subseteq Tokens
  BY DEF CallTypes
<1>3. OwnTokens'
  BY <1>1, <1>2 DEF OwnTokens
<1>4. OnePlace'
  BY CarriedOwn DEF OnePlace
<1>5. ASSUME NEW t \in Tokens, decisions'[t].state = "active" PROVE Held(t)' <=> t \notin lost'
  BY <1>5 DEF CallTypes, StoreTypes, Decisions, Held, NoneForgotten
<1>6. NoneForgotten'
  BY <1>5 DEF NoneForgotten
<1> QED
  BY <1>3, <1>4, <1>6

(* A token that was minted is in the answer, remembered by a session of its principal's,
   or lost. *)
LEMMA PlaceMinted ==
  ASSUME CallTypes, PaidFor, \A k \in Slots : CallOk(calls[k]),
         OwnTokens, OnePlace, NoneForgotten,
         NEW p \in Agents, NEW done, Minted(p, done), NEW t, t = Cardinality(Tokens) + 1,
         NEW k \in Slots, NEW n, Carries(calls[k]) = {}, calls'[k] = n,
         \A j \in Slots \ {k} : calls'[j] = calls[j],
         UNCHANGED known,
         \A q \in Agents \ {p} : session'[q].authority = session[q].authority,
         \/ /\ Carries(n) = {t} /\ n.caller = p /\ lost' = lost
            /\ session'[p].authority = session[p].authority
         \/ Carries(n) = {} /\ lost' = lost /\ session'[p].authority = t
         \/ /\ Carries(n) = {} /\ lost' = lost \cup {t}
            /\ session'[p].authority = session[p].authority
  PROVE  OwnTokens' /\ OnePlace' /\ NoneForgotten'
<1>1. \A q \in Agents : session[q].authority \in Tokens \cup {NoToken}
  BY DEF CallTypes
<1>2. (\A q \in Agents : known[q].tokens \subseteq Tokens) /\ lost \subseteq Tokens
  BY DEF CallTypes
<1>3. /\ t \notin Tokens /\ Tokens' = Tokens \cup {t} /\ t # NoToken
      /\ decisions'[t].principal = p
      /\ \A u \in Tokens : decisions'[u] = decisions[u]
  <2>1. StoreTypes
    BY DEF CallTypes
  <2>2. /\ Cardinality(Tokens) + 1 \notin Tokens /\ Tokens' = Tokens \cup done.tokens
        /\ decisions'[Cardinality(Tokens) + 1] = [principal |-> p, state |-> "active"]
        /\ \A u \in Tokens : decisions'[u] = decisions[u]
    BY <2>1, MintedKeeps
  <2>3. done.tokens = {t}
    BY DEF Minted
  <2>4. t # NoToken
    BY <2>1 DEF StoreTypes, NoToken
  <2> QED
    BY <2>2, <2>3, <2>4
<1>4. \A u \in Tokens : decisions[u].principal \in Agents
  BY DEF CallTypes, StoreTypes, Decisions
<1>5. \A j \in Slots : \A u \in Carries(calls[j]) :
        u \in Tokens /\ calls[j].caller \in Agents /\ decisions[u].principal = calls[j].caller
  BY CarriedOwn
<1>6. \A u \in Tokens : decisions[u].principal = p => decisions[u].state # "active"
  BY DEF Minted, ActiveOf
<1>7. NoToken \notin Tokens
  BY DEF CallTypes, StoreTypes, NoToken
<1>8. OwnTokens'
  <2>1. ASSUME NEW q \in Agents
        PROVE  /\ session'[q].authority # NoToken =>
                    decisions'[session'[q].authority].principal = q
               /\ session'[q].authority \notin known[q].tokens
               /\ \A u \in known[q].tokens : decisions'[u].principal = q
    BY <1>2, <1>1, <1>3 DEF OwnTokens
  <2> QED
    BY <2>1 DEF OwnTokens
<1>9. OnePlace'
  <2>1. ASSUME NEW j \in Slots, NEW u \in Carries(calls'[j])
        PROVE  /\ u \notin known[calls'[j].caller].tokens
               /\ u # session'[calls'[j].caller].authority
               /\ \A i \in Slots : u \in Carries(calls'[i]) => i = j
    <3>1. CASE j = k
      BY <2>1, <3>1, <1>3, <1>5, <1>1, <1>2
    <3>2. CASE j # k
      BY <2>1, <3>2, <1>3, <1>5 DEF OnePlace
    <3> QED
      BY <3>1, <3>2
  <2> QED
    BY <2>1 DEF OnePlace
<1>10. ASSUME NEW u \in Tokens', decisions'[u].state = "active" PROVE Held(u)' <=> u \notin lost'
  <2>1. CASE u = t
    BY <1>1, <1>2, <1>3, <1>5, <2>1 DEF Held
  <2>2. CASE u # t
    BY <1>3, <1>6, <1>10, <2>2, <1>4 DEF Held, NoneForgotten
  <2> QED
    BY <2>1, <2>2
<1>11. NoneForgotten'
  BY <1>10 DEF NoneForgotten
<1> QED
  BY <1>8, <1>9, <1>11


(* What was on its way arrives, and is known instead; or it is lost. *)
LEMMA PlaceArrives ==
  ASSUME CallTypes, \A k \in Slots : CallOk(calls[k]), OwnTokens, OnePlace, NoneForgotten,
         NEW k \in Slots, Carries(calls'[k]) = {}, \A j \in Slots \ {k} : calls'[j] = calls[j],
         UNCHANGED <<decisions, session>>,
         NEW p \in Agents, calls[k].caller = p,
         \A q \in Agents \ {p} : known'[q].tokens = known[q].tokens,
         \/ known'[p].tokens = known[p].tokens \cup Carries(calls[k]) /\ lost' = lost
         \/ known'[p].tokens = known[p].tokens /\ lost' = lost \cup Carries(calls[k])
  PROVE  OwnTokens' /\ OnePlace' /\ NoneForgotten'
<1>1. \A q \in Agents : session[q].authority \in Tokens \cup {NoToken}
  BY DEF CallTypes
<1>2. \A u \in Tokens : decisions[u].principal \in Agents
  BY DEF CallTypes, StoreTypes, Decisions
<1>3. \A j \in Slots : \A u \in Carries(calls[j]) :
        u \in Tokens /\ calls[j].caller \in Agents /\ decisions[u].principal = calls[j].caller
  BY CarriedOwn
<1>4. /\ \A u \in Carries(calls[k]) :
           u \notin known[p].tokens /\ u # session[p].authority
      /\ \A j \in Slots \ {k} : Carries(calls[j]) \cap Carries(calls[k]) = {}
  BY DEF OnePlace
<1>5. \A q \in Agents : \A u \in known'[q].tokens :
        u \in known[q].tokens \/ (q = p /\ u \in Carries(calls[k]))
  OBVIOUS
<1>6. OwnTokens'
  <2>1. ASSUME NEW q \in Agents
        PROVE  /\ session[q].authority \notin known'[q].tokens
               /\ \A u \in known'[q].tokens : decisions[u].principal = q
    BY <1>3, <1>4, <1>5 DEF OwnTokens
  <2> QED
    BY <2>1 DEF OwnTokens
<1>7. OnePlace'
  <2>1. ASSUME NEW j \in Slots, NEW u \in Carries(calls'[j])
        PROVE  /\ u \notin known'[calls'[j].caller].tokens
               /\ u # session'[calls'[j].caller].authority
               /\ \A i \in Slots : u \in Carries(calls'[i]) => i = j
    BY <2>1, <1>4, <1>3, <1>5 DEF OnePlace
  <2> QED
    BY <2>1 DEF OnePlace
<1>8. ASSUME NEW u \in Tokens, decisions[u].state = "active" PROVE Held(u)' <=> u \notin lost'
  <2>1. CASE u \in Carries(calls[k])
    BY <1>3, <1>4, <2>1, <1>8 DEF Held, NoneForgotten
  <2>2. CASE u \notin Carries(calls[k])
    BY <2>2, <1>2, <1>8 DEF Held, NoneForgotten
  <2> QED
    BY <2>1, <2>2
<1>9. NoneForgotten'
  BY <1>8 DEF NoneForgotten, Tokens
<1> QED
  BY <1>6, <1>7, <1>9

(* What a session remembers is lost with it. *)
LEMMA PlaceForgotten ==
  ASSUME CallTypes, \A k \in Slots : CallOk(calls[k]), OwnTokens, OnePlace, NoneForgotten,
         NEW p \in Agents, session' = [session EXCEPT ![p] = NoSession],
         lost' = lost \cup ({session[p].authority} \ {NoToken}),
         \A k \in Slots : \/ calls'[k] = calls[k]
                          \/ calls[k].phase = "called" /\ calls'[k] = Free,
         UNCHANGED <<decisions, known>>
  PROVE  OwnTokens' /\ OnePlace' /\ NoneForgotten'
<1>1. \A q \in Agents : session[q].authority \in Tokens \cup {NoToken}
  BY DEF CallTypes
<1>2. \A u \in Tokens : decisions[u].principal \in Agents /\ u # NoToken
  BY DEF CallTypes, StoreTypes, Decisions, NoToken
<1>3. \A q \in Agents : known[q].tokens \subseteq Tokens
  BY DEF CallTypes
<1>4. \A j \in Slots : \A u \in Carries(calls[j]) :
        u \in Tokens /\ calls[j].caller \in Agents /\ decisions[u].principal = calls[j].caller
  BY CarriedOwn
<1>5. \A k \in Slots : Carries(calls'[k]) = Carries(calls[k])
                       /\ (Carries(calls[k]) # {} => calls'[k] = calls[k])
  BY CarriedOwn DEF Carries
<1>6. /\ session'[p].authority = NoToken
      /\ \A q \in Agents \ {p} : session'[q] = session[q]
  BY DEF CallTypes, NoSession
<1>7. OwnTokens'
  <2>1. ASSUME NEW q \in Agents
        PROVE  /\ session'[q].authority # NoToken =>
                    decisions[session'[q].authority].principal = q
               /\ session'[q].authority \notin known[q].tokens
    BY <1>2, <1>3, <1>6 DEF OwnTokens
  <2> QED
    BY <2>1 DEF OwnTokens
<1>8. OnePlace'
  <2>1. ASSUME NEW j \in Slots, NEW u \in Carries(calls'[j])
        PROVE  /\ u \notin known[calls'[j].caller].tokens
               /\ u # session'[calls'[j].caller].authority
               /\ \A i \in Slots : u \in Carries(calls'[i]) => i = j
    BY <1>5, <2>1, <1>2, <1>4, <1>6 DEF OnePlace
  <2> QED
    BY <2>1 DEF OnePlace
<1>9. ASSUME NEW u \in Tokens, decisions[u].state = "active" PROVE Held(u)' <=> u \notin lost'
  <2>1. CASE u = session[p].authority
    BY <1>2, <2>1, <1>4, <1>5, <1>6 DEF OwnTokens, OnePlace, Held
  <2>2. CASE u # session[p].authority
    BY <1>2, <1>6, <2>2, <1>5, <1>9 DEF Held, NoneForgotten
  <2> QED
    BY <2>1, <2>2
<1>10. NoneForgotten'
  BY <1>9 DEF NoneForgotten, Tokens
<1> QED
  BY <1>7, <1>8, <1>10


-------------------------------------------------------------------------------
\* Every step keeps the invariant.

(* Nothing has happened yet. *)
LEMMA InitCalls == CallInit => CallInv
<1> SUFFICES ASSUME CallInit PROVE CallInv
  OBVIOUS
<1>1. Tokens = {} /\ DOMAIN applied = {}
  BY DEF CallInit, Tokens
<1>2. StoreTypes
  BY <1>1, FS_EmptySet DEF CallInit, Tokens, StoreTypes
<1>3. CallTypes
  BY <1>2 DEF CallInit, NoSession, CallTypes
<1>4. PaidFor
  BY <1>1 DEF PaidFor, Acts, Spent
<1>5. \A k \in Slots : calls[k] = Free /\ Carries(calls[k]) = {} /\ calls[k].phase = "free"
  BY DEF CallInit, Free, Carries
<1>6. \A p \in Agents : /\ session[p].authority = NoToken
                        /\ known[p].tokens = {} /\ known[p].receipts = {}
  BY DEF CallInit, NoSession
<1>7. ReceiptsTrue /\ ActsRecorded
  BY <1>1, <1>6 DEF ReceiptsTrue, ActsRecorded, CallInit
<1>8. SessionsOpen /\ \A k \in Slots : CallOk(calls[k])
  BY <1>5, <1>6 DEF SessionsOpen, CallOk
<1>9. OwnTokens /\ OnePlace /\ NoneForgotten
  BY <1>1, <1>5, <1>6 DEF OwnTokens, OnePlace, NoneForgotten
<1> QED
  BY <1>3, <1>4, <1>7, <1>8, <1>9 DEF CallInv

(* A step that leaves the stores alone leaves what is owed alone. *)
LEMMA QuietKeeps ==
  ASSUME CallInv, UNCHANGED <<decisions, applied, recorded>>
  PROVE  /\ StoreTypes' /\ PaidFor' /\ ActsRecorded' /\ Advances /\ Tokens' = Tokens
         /\ \A c : CallTrue(c) => CallTrue(c)'
<1>1. StoreTypes' /\ PaidFor' /\ ActsRecorded' /\ Advances /\ Tokens' = Tokens
  BY DEF CallInv, CallTypes, StoreTypes, PaidFor, Acts, Spent, Tokens, ActsRecorded, Advances
<1> QED
  BY <1>1, TrueStays DEF CallInv

(* A call that carries nothing becomes another that carries nothing. *)
LEMMA OnlyCalls ==
  ASSUME CallInv, NEW k \in Slots, NEW n, Carries(calls[k]) = {}, Carries(n) = {},
         calls' = [calls EXCEPT ![k] = n], n = Free \/ Unhandled(n) \/ CallTrue(n)',
         n.phase = "called" => session[n.caller].open,
         UNCHANGED <<decisions, applied, session, known, lost, recorded>>
  PROVE  CallInv'
<1>1. /\ StoreTypes' /\ PaidFor' /\ ActsRecorded' /\ Advances /\ Tokens' = Tokens
      /\ \A c : CallTrue(c) => CallTrue(c)'
  BY QuietKeeps
<1>2. /\ CallTypes /\ ReceiptsTrue /\ SessionsOpen /\ OwnTokens /\ OnePlace /\ NoneForgotten
      /\ \A j \in Slots : CallOk(calls[j])
      /\ calls = [j \in Slots |-> calls[j]]
  BY DEF CallInv, CallTypes
<1>3. /\ \A j \in Slots : CallOk(calls[j])'
      /\ calls' = [j \in Slots |-> calls'[j]]
      /\ calls'[k] = n /\ \A j \in Slots \ {k} : calls'[j] = calls[j]
  BY <1>1, <1>2, CallsStep
<1>4. CallTypes'
  BY <1>1, <1>2, <1>3 DEF CallTypes
<1>5. ReceiptsTrue'
  BY <1>1, <1>2, ReceiptsStay
<1>6. SessionsOpen'
  BY <1>2, <1>3 DEF SessionsOpen
<1>7. OwnTokens' /\ OnePlace' /\ NoneForgotten'
  BY <1>1, <1>2, <1>3, PlaceStays
<1> QED
  BY <1>1, <1>3, <1>4, <1>5, <1>6, <1>7 DEF CallInv

(* A caller is answered only with what a request may be refused with. *)
LEMMA RefusalsAreErrors ==
  ASSUME NEW checks, NEW refusal \in Refusals(checks)
  PROVE  refusal.kind = "error" /\ refusal.tokens = {}
BY DEF Refusals, Error, NoAnswer

(* An answered call carries the tokens of its answer. *)
LEMMA AnsweredIs ==
  ASSUME NEW c, NEW a
  PROVE  /\ Answered(c, a).phase = "answered" /\ Answered(c, a).caller = c.caller
         /\ Answered(c, a).answer = a /\ Answered(c, a).via = c.via
         /\ Carries(Answered(c, a)) = a.tokens
         /\ a.kind # "error" => Answered(c, a).about = <<c.message.operation, c.message.request>>
BY DEF Answered, Carries

(* Calls come, are refused and go without the world being asked. *)
LEMMA CallsComeAndGo ==
  ASSUME CallInv, NEW k \in Slots,
         \/ \E p \in Agents : \E message \in Messages[p] : SendJson(k, p, message)
         \/ \E p \in ToolUsers : \E message \in Messages[p] : SendTool(k, p, message)
         \/ JsonRefused(k) \/ Abandoned(k) \/ ToolRefused(k)
  PROVE  CallInv'
<1>1. CallOk(calls[k])
  BY DEF CallInv
<1>2. ASSUME NEW p \in Agents, NEW m \in Messages[p]
      PROVE  m.request \in Requests /\ {"operation", "request", "fields"} \subseteq DOMAIN m
  BY MessagesAssumption DEF Requests
<1>3. Free.phase = "free" /\ Carries(Free) = {}
  BY DEF Free, Carries
<1>4. ASSUME NEW p \in Agents, NEW m \in Messages[p], SendJson(k, p, m) PROVE CallInv'
  <2>1. PICK token : calls' = [calls EXCEPT ![k] = [phase |-> "reading", via |-> "json",
               caller |-> p, message |-> m, token |-> token]]
    BY <1>4 DEF SendJson
  <2> DEFINE n == [phase |-> "reading", via |-> "json", caller |-> p, message |-> m,
                   token |-> token]
  <2>2. Unhandled(n)
    BY <1>2 DEF Unhandled
  <2>3. Carries(n) = {} /\ n.phase # "called"
    BY DEF Carries
  <2>4. calls' = [calls EXCEPT ![k] = n]
    BY <2>1
  <2> HIDE DEF n
  <2>5. Carries(calls[k]) = {}
    BY <1>3, <1>4 DEF SendJson
  <2> QED
    BY <1>4, <2>2, <2>3, <2>4, <2>5, OnlyCalls DEF SendJson
<1>5. ASSUME NEW p \in ToolUsers, NEW m \in Messages[p], SendTool(k, p, m) PROVE CallInv'
  <2>1. PICK arguments : calls' = [calls EXCEPT ![k] = [phase |-> "called", via |-> "mcp",
               caller |-> p, message |-> [m EXCEPT !.fields = arguments], token |-> NoToken]]
    BY <1>5 DEF SendTool
  <2> DEFINE n == [phase |-> "called", via |-> "mcp", caller |-> p,
                   message |-> [m EXCEPT !.fields = arguments], token |-> NoToken]
  <2>2. p \in Agents
    BY CallersAssumption
  <2>3. /\ {"operation", "request", "fields"} \subseteq DOMAIN [m EXCEPT !.fields = arguments]
        /\ [m EXCEPT !.fields = arguments].request \in Requests
    BY <1>2, <2>2
  <2>4. Unhandled(n)
    BY <2>2, <2>3 DEF Unhandled
  <2>5. Carries(n) = {} /\ n.caller = p
    BY DEF Carries
  <2>6. calls' = [calls EXCEPT ![k] = n]
    BY <2>1
  <2> HIDE DEF n
  <2>7. Carries(calls[k]) = {}
    BY <1>3, <1>5 DEF SendTool
  <2> QED
    BY <1>5, <2>4, <2>5, <2>6, <2>7, OnlyCalls DEF SendTool
<1>6. ASSUME JsonRefused(k) \/ ToolRefused(k) PROVE CallInv'
  <2> PICK c : c = calls[k]
    OBVIOUS
  <2>1. PICK a : /\ a.kind = "error" /\ a.tokens = {}
                 /\ calls' = [calls EXCEPT ![k] = Answered(c, a)]
    BY <1>6, RefusalsAreErrors DEF JsonRefused, ToolRefused
  <2>2. c.phase \in {"reading", "called"} /\ c.caller \in Agents /\ Carries(c) = {}
    BY <1>1, <1>3, <1>6 DEF CallOk, Unhandled, CallTrue, JsonRefused, ToolRefused, Carries
  <2> PICK n : n = Answered(c, a)
    OBVIOUS
  <2>3. CallTrue(n)'
    BY <2>1, <2>2, ErrorTrue
  <2>4. Carries(n) = {} /\ n.phase = "answered"
    BY <2>1, AnsweredIs
  <2> QED
    BY <1>6, <2>1, <2>2, <2>3, <2>4, OnlyCalls DEF JsonRefused, ToolRefused
<1>7. ASSUME Abandoned(k) PROVE CallInv'
  BY <1>7, <1>3, OnlyCalls DEF Abandoned, Carries
<1> QED
  BY <1>4, <1>5, <1>6, <1>7


(* A session that is opened has nothing to remember. *)
LEMMA SessionsOpened ==
  ASSUME CallInv, NEW p \in ToolUsers, OpenSession(p)
  PROVE  CallInv'
<1>1. /\ StoreTypes' /\ PaidFor' /\ ActsRecorded' /\ Advances /\ Tokens' = Tokens
      /\ \A c : CallTrue(c) => CallTrue(c)'
  BY QuietKeeps DEF OpenSession
<1>2. p \in Agents /\ ~session[p].open
  BY CallersAssumption DEF OpenSession
<1>3. /\ CallTypes /\ ReceiptsTrue /\ SessionsOpen /\ OwnTokens /\ OnePlace /\ NoneForgotten
      /\ \A j \in Slots : CallOk(calls[j])
  BY DEF CallInv
<1>4. /\ session'[p] = [open |-> TRUE, authority |-> NoToken]
      /\ \A q \in Agents \ {p} : session'[q] = session[q]
      /\ session' \in [Agents -> [open : BOOLEAN, authority : Tokens \cup {NoToken}]]
  BY <1>2, <1>3 DEF OpenSession, CallTypes
<1>5. session[p].authority = NoToken
  BY <1>2, <1>3 DEF SessionsOpen
<1>6. CallTypes'
  BY <1>1, <1>3, <1>4 DEF CallTypes, OpenSession
<1>7. ReceiptsTrue'
  BY <1>1, <1>3, ReceiptsStay DEF OpenSession
<1>8. SessionsOpen'
  BY <1>4, <1>3 DEF SessionsOpen, CallOk, Unhandled, CallTrue, Free,
     OpenSession
<1>9. \A j \in Slots : CallOk(calls[j])'
  BY <1>1, <1>3 DEF CallOk, OpenSession
<1>10. OwnTokens' /\ OnePlace' /\ NoneForgotten'
  BY <1>1, <1>3, <1>4, <1>5, PlaceStays DEF OpenSession
<1> QED
  BY <1>1, <1>6, <1>7, <1>8, <1>9, <1>10 DEF CallInv

(* What a session remembers goes with it, and the calls that wait in it. *)
LEMMA SessionsClosed ==
  ASSUME CallInv, NEW p \in ToolUsers, CloseSession(p)
  PROVE  CallInv'
<1>1. /\ StoreTypes' /\ PaidFor' /\ ActsRecorded' /\ Advances /\ Tokens' = Tokens
      /\ \A c : CallTrue(c) => CallTrue(c)'
  BY QuietKeeps DEF CloseSession
<1>2. p \in Agents
  BY CallersAssumption
<1>3. /\ CallTypes /\ ReceiptsTrue /\ SessionsOpen /\ OwnTokens /\ OnePlace /\ NoneForgotten
      /\ \A j \in Slots : CallOk(calls[j])
  BY DEF CallInv
<1>4. /\ session'[p] = NoSession
      /\ \A q \in Agents \ {p} : session'[q] = session[q]
      /\ session' \in [Agents -> [open : BOOLEAN, authority : Tokens \cup {NoToken}]]
  BY <1>2, <1>3 DEF CloseSession, CallTypes, NoSession
<1>5. \A k \in Slots : calls'[k] = IF calls[k].phase = "called" /\ calls[k].caller = p
                                   THEN Free ELSE calls[k]
  BY DEF CloseSession
<1>6. calls' = [k \in Slots |-> calls'[k]]
  BY <1>5 DEF CloseSession
<1>7. lost' \subseteq Tokens
  BY <1>2, <1>3 DEF CallTypes, CloseSession
<1>8. CallTypes'
  BY <1>1, <1>3, <1>4, <1>6, <1>7 DEF CallTypes, CloseSession
<1>9. ReceiptsTrue'
  BY <1>1, <1>3, ReceiptsStay DEF CloseSession
<1>10. SessionsOpen'
  <2>1. \A q \in Agents : session'[q].open \/ session'[q].authority = NoToken
    BY <1>3, <1>4 DEF SessionsOpen, NoSession
  <2>2. ASSUME NEW k \in Slots, calls'[k].phase = "called" PROVE session'[calls'[k].caller].open
    BY <1>5, <2>2, <1>3, <1>4 DEF Free, CallOk, Unhandled, CallTrue,
       SessionsOpen
  <2> QED
    BY <2>1, <2>2 DEF SessionsOpen
<1>11. \A j \in Slots : CallOk(calls[j])'
  BY <1>1, <1>3, <1>5 DEF CallOk
<1>12. OwnTokens' /\ OnePlace' /\ NoneForgotten'
  BY <1>5, <1>2, <1>3, PlaceForgotten DEF CloseSession
<1> QED
  BY <1>1, <1>8, <1>9, <1>10, <1>11, <1>12 DEF CallInv

(* A decision that runs out is nobody's to use, wherever its token is. *)
LEMMA DecisionsExpire ==
  ASSUME CallInv, NEW t \in Tokens, Expire(t)
  PROVE  CallInv'
<1>1. /\ CallTypes /\ PaidFor /\ ReceiptsTrue /\ ActsRecorded /\ SessionsOpen
      /\ OwnTokens /\ OnePlace /\ NoneForgotten /\ \A j \in Slots : CallOk(calls[j])
      /\ StoreTypes
  BY DEF CallInv, CallTypes
<1>2. /\ decisions[t].state = "active" /\ decisions' = [decisions EXCEPT ![t].state = "expired"]
      /\ UNCHANGED <<claimed, applied, gate, session, calls, known, lost, recorded, mishaps>>
  BY DEF Expire
<1>3. Tokens' = Tokens
  BY <1>1, <1>2 DEF Tokens, StoreTypes
<1>4. /\ decisions' \in [Tokens -> Decisions]
      /\ \A u \in Tokens \ {t} : decisions'[u] = decisions[u]
      /\ decisions'[t].principal = decisions[t].principal /\ decisions'[t].state = "expired"
  BY <1>1, <1>2 DEF StoreTypes, Decisions
<1>5. StoreTypes'
  BY <1>1, <1>2, <1>3, <1>4 DEF StoreTypes
<1>6. PaidFor'
  <2>1. ASSUME NEW q \in Agents PROVE Acts(q)' = Acts(q) /\ Spent(q)' = Spent(q)
    BY <1>2, <1>3, <1>4 DEF Acts, Spent
  <2> QED
    BY <1>1, <2>1 DEF PaidFor
<1>7. Advances
  BY <1>2, <1>3, <1>4 DEF Advances
<1>8. \A c : CallTrue(c) => CallTrue(c)'
  BY <1>1, <1>7, TrueStays
<1>9. CallTypes'
  BY <1>1, <1>2, <1>3, <1>5 DEF CallTypes
<1>10. ReceiptsTrue'
  BY <1>1, <1>2, <1>7, ReceiptsStay
<1>11. ActsRecorded' /\ SessionsOpen'
  BY <1>1, <1>2 DEF ActsRecorded, SessionsOpen
<1>12. \A j \in Slots : CallOk(calls[j])'
  BY <1>1, <1>2, <1>8 DEF CallOk
<1>13. OwnTokens' /\ OnePlace' /\ NoneForgotten'
  BY <1>1, <1>2, <1>3, <1>4, PlaceStays
<1> QED
  BY <1>6, <1>9, <1>10, <1>11, <1>12, <1>13 DEF CallInv

(* An answer that arrives tells its caller what is true; one that is lost takes its token
   with it. *)
LEMMA AnswersEnd ==
  ASSUME CallInv, NEW k \in Slots, Deliver(k) \/ LoseAnswer(k)
  PROVE  CallInv'
<1> PICK c : c = calls[k]
  OBVIOUS
<1> PICK p : p = c.caller
  OBVIOUS
<1>1. /\ CallTypes /\ PaidFor /\ ReceiptsTrue /\ ActsRecorded /\ SessionsOpen
      /\ OwnTokens /\ OnePlace /\ NoneForgotten /\ \A j \in Slots : CallOk(calls[j])
      /\ calls = [j \in Slots |-> calls[j]]
  BY DEF CallInv, CallTypes
<1>2. c.phase = "answered" /\ calls' = [calls EXCEPT ![k] = Free]
  BY DEF Deliver, LoseAnswer
<1>3. CallTrue(c) /\ p \in Agents /\ Carries(c) = c.answer.tokens
  BY <1>1, <1>2 DEF CallOk, Unhandled, CallTrue, Free, Carries
<1>4. UNCHANGED <<decisions, applied, session, recorded>>
  BY DEF Deliver, LoseAnswer
<1>5. /\ StoreTypes' /\ PaidFor' /\ ActsRecorded' /\ Advances /\ Tokens' = Tokens
      /\ \A d : CallTrue(d) => CallTrue(d)'
  BY <1>4, QuietKeeps
<1>6. /\ \A j \in Slots : CallOk(calls[j])'
      /\ calls' = [j \in Slots |-> calls'[j]]
      /\ calls'[k] = Free /\ \A j \in Slots \ {k} : calls'[j] = calls[j]
  BY <1>1, <1>2, <1>5, CallsStep
<1>7. Free.phase = "free" /\ Carries(Free) = {}
  BY DEF Free, Carries
<1>8. SessionsOpen'
  BY <1>1, <1>4, <1>6, <1>7 DEF SessionsOpen
<1>9. CASE LoseAnswer(k)
  BY <1>3, <1>9, <1>1, <1>4, <1>5, <1>6, ReceiptsStay, <1>7, PlaceArrives, <1>8
     DEF LoseAnswer, CallTypes, CallTrue, CallInv
<1>10. CASE Deliver(k)
  <2> PICK told : told = IF c.answer.kind = "receipt"
                         THEN {[request |-> c.about[2], receipt |-> c.answer.receipt]} ELSE {}
    OBVIOUS
  <2>1. /\ known' = [known EXCEPT ![p].tokens = @ \cup c.answer.tokens,
                                  ![p].receipts = @ \cup told]
        /\ lost' = lost
    BY <1>10 DEF Deliver
  <2>2. \A one \in told : /\ one \in [request : Requests, receipt : Nat]
                          /\ one.request \in DOMAIN applied
                          /\ applied[one.request].principal = p
                          /\ applied[one.request].receipt = one.receipt
    BY <1>1, <1>3 DEF CallTrue, CallTypes, StoreTypes
  <2>3. /\ known' \in [Agents -> [tokens : SUBSET Tokens,
                                  receipts : SUBSET [request : Requests, receipt : Nat]]]
        /\ known'[p].tokens = known[p].tokens \cup c.answer.tokens
        /\ known'[p].receipts = known[p].receipts \cup told
        /\ \A q \in Agents \ {p} : known'[q] = known[q]
    <3> DEFINE Knowing == [tokens : SUBSET Tokens,
                           receipts : SUBSET [request : Requests, receipt : Nat]]
    <3> PICK h : h = [known EXCEPT ![p].tokens = @ \cup c.answer.tokens]
      OBVIOUS
    <3>1. known[p] \in Knowing /\ known \in [Agents -> Knowing]
      BY <1>1, <1>3 DEF CallTypes
    <3>2. c.answer.tokens \subseteq Tokens /\ told \subseteq [request : Requests, receipt : Nat]
      BY <1>3, <2>2 DEF CallTrue
    <3> HIDE DEF Knowing
    <3>3. /\ [known[p] EXCEPT !.tokens = @ \cup c.answer.tokens] \in Knowing
          /\ [known[p] EXCEPT !.tokens = @ \cup c.answer.tokens].tokens
               = known[p].tokens \cup c.answer.tokens
          /\ [known[p] EXCEPT !.tokens = @ \cup c.answer.tokens].receipts = known[p].receipts
      BY <3>1, <3>2 DEF Knowing
    <3>4. /\ h[p] = [known[p] EXCEPT !.tokens = @ \cup c.answer.tokens] /\ h \in [Agents -> Knowing]
          /\ \A q \in Agents \ {p} : h[q] = known[q]
      BY <1>3, <3>1, <3>3
    <3>5. h[p] \in Knowing
      BY <3>3, <3>4
    <3>6. /\ [h[p] EXCEPT !.receipts = @ \cup told] \in Knowing
          /\ [h[p] EXCEPT !.receipts = @ \cup told].tokens = h[p].tokens
          /\ [h[p] EXCEPT !.receipts = @ \cup told].receipts = h[p].receipts \cup told
      BY <3>2, <3>5 DEF Knowing
    <3>7. known' = [h EXCEPT ![p].receipts = @ \cup told]
      BY <2>1, ZenonT(60)
    <3>8. /\ known'[p] = [h[p] EXCEPT !.receipts = @ \cup told] /\ known' \in [Agents -> Knowing]
          /\ \A q \in Agents \ {p} : known'[q] = h[q]
      BY <1>3, <3>4, <3>6, <3>7
    <3>9. /\ known'[p].tokens = known[p].tokens \cup c.answer.tokens
          /\ known'[p].receipts = known[p].receipts \cup told
      BY <3>3, <3>4, <3>6, <3>8, ZenonT(60)
    <3> QED
      BY <3>4, <3>8, <3>9 DEF Knowing
  <2>4. CallTypes'
    BY <1>1, <1>4, <1>5, <1>6, <2>1, <2>3 DEF CallTypes
  <2>5. ReceiptsTrue'
    BY <1>1, <1>4, <2>2, <2>3 DEF ReceiptsTrue
  <2>6. OwnTokens' /\ OnePlace' /\ NoneForgotten'
    BY <1>3, <2>3, <2>1, <1>1, <1>4, <1>6, <1>7, PlaceArrives
  <2> QED
    BY <1>5, <1>6, <1>8, <2>4, <2>5, <2>6 DEF CallInv
<1> QED
  BY <1>9, <1>10


\* A call that waited is answered; what the handler said goes to the caller, or what it
\* is to remember to a session of the caller's.
Replied(k, p, n) ==
  /\ calls[k].phase \in {"reading", "called"} /\ calls[k].caller = p
  /\ calls' = [calls EXCEPT ![k] = n] /\ n.phase = "answered" /\ n.caller = p

PassedOn(p, n, h, kept) ==
  /\ UNCHANGED known
  /\ \/ /\ session' = session /\ kept = Carries(n) /\ kept \in {h.answer.tokens, {}}
     \/ /\ Carries(n) = {} /\ kept = h.answer.tokens /\ session[p].open
        /\ session' = [session EXCEPT ![p].authority =
                         Remembered(session[p].authority, h.answer)]

(* A call that is handled: its answer carries its token to the caller, a session keeps it,
   or it is lost. *)
LEMMA HandledSteps ==
  ASSUME CallInv, NEW k \in Slots, NEW p \in Agents, NEW m, NEW token, NEW mishap,
         NEW h, h = Handled(p, m, token, mishap), NEW kept,
         Handle(p, m, token, mishap, h, kept), NEW n, Replied(k, p, n),
         PassedOn(p, n, h, kept), CallTrue(n)'
  PROVE  CallInv'
<1> PICK c : c = calls[k]
  OBVIOUS
<1>1. /\ c.phase \in {"reading", "called"} /\ c.caller = p
      /\ calls' = [calls EXCEPT ![k] = n] /\ n.phase = "answered" /\ n.caller = p
  BY DEF Replied
<1>2. /\ UNCHANGED known
      /\ \/ /\ session' = session /\ kept = Carries(n) /\ kept \in {h.answer.tokens, {}}
         \/ /\ Carries(n) = {} /\ kept = h.answer.tokens /\ session[p].open
            /\ session' = [session EXCEPT ![p].authority =
                             Remembered(session[p].authority, h.answer)]
  BY DEF PassedOn
<1>3. /\ CallTypes /\ PaidFor /\ ReceiptsTrue /\ ActsRecorded /\ SessionsOpen
      /\ OwnTokens /\ OnePlace /\ NoneForgotten /\ \A j \in Slots : CallOk(calls[j])
      /\ calls = [j \in Slots |-> calls[j]] /\ StoreTypes
  BY DEF CallInv, CallTypes
<1>4. /\ Changes(p, m, token, h.done) /\ recorded' = recorded \cup h.recorded
      /\ lost' = lost \cup (h.done.tokens \ kept)
  BY DEF Handle
<1>5. StoreTypes' /\ PaidFor' /\ Advances /\ ActsRecorded'
  BY <1>3, <1>4, HandleKeeps
<1>6. \A d : CallTrue(d) => CallTrue(d)'
  BY <1>3, <1>5, TrueStays
<1>7. /\ \A j \in Slots : CallOk(calls[j])'
      /\ calls' = [j \in Slots |-> calls'[j]]
      /\ calls'[k] = n /\ \A j \in Slots \ {k} : calls'[j] = calls[j]
  BY <1>1, <1>3, <1>6, CallsStep
<1>8. ReceiptsTrue'
  BY <1>2, <1>3, <1>5, ReceiptsStay
<1>9. /\ h.done = Invoked(p, m, token) \/ (h.done.kind = "none" /\ h.done.tokens = {})
      /\ \/ h.answer = h.done
         \/ h.answer.kind = "error" /\ h.answer.tokens = {}
  BY HandledCases
<1>10. NothingNew(p, m, h.done) \/ Minted(p, h.done) \/ Acted(p, m, token, h.done)
  BY <1>4, HandleDoes
<1>11. Carries(c) = {}
  BY <1>1 DEF Carries
<1>12. Tokens \subseteq Tokens'
  BY <1>5 DEF Advances
<1>13. CASE h.done.kind = "token"
  <2> PICK t : t = Cardinality(Tokens) + 1
    OBVIOUS
  <2>1. Minted(p, h.done)
    BY <1>10, <1>13 DEF NothingNew, Acted
  <2>2. h.done.tokens = {t} /\ t \in Tokens' /\ Tokens' = Tokens \cup {t}
    BY <2>1, <1>3, MintedKeeps DEF Minted
  <2>3. Remembered(session[p].authority, h.answer)
          = IF h.answer = h.done THEN t ELSE session[p].authority
    <3>1. CASE h.answer = h.done
      BY <1>13, <3>1, <2>2 DEF Remembered
    <3>2. CASE h.answer # h.done
      BY <1>9, <3>2 DEF Remembered
    <3> QED
      BY <3>1, <3>2
  <2>4. /\ session' \in [Agents -> [open : BOOLEAN, authority : Tokens' \cup {NoToken}]]
        /\ \A q \in Agents : session'[q].open = session[q].open
        /\ \A q \in Agents \ {p} : session'[q].authority = session[q].authority
        /\ \/ session' = session
           \/ session'[p].authority = Remembered(session[p].authority, h.answer)
    <3>1. session \in [Agents -> [open : BOOLEAN, authority : Tokens' \cup {NoToken}]]
      BY <1>3, <1>12 DEF CallTypes
    <3>2. Remembered(session[p].authority, h.answer) \in Tokens' \cup {NoToken}
      BY <2>2, <2>3, <3>1
    <3> QED
      BY <1>2, <3>1, <3>2
  <2>5. lost' \subseteq Tokens'
    BY <1>3, <1>4, <1>12, <2>2 DEF CallTypes
  <2>6. CallTypes'
    BY <1>2, <1>3, <1>12, <1>5, <1>7, <2>4, <2>5 DEF CallTypes
  <2>7. SessionsOpen'
    BY <1>2, <1>3, <2>4, <1>1, <1>7 DEF SessionsOpen, CallOk, Unhandled,
       CallTrue, Free
  <2>8. \/ /\ Carries(n) = {t} /\ n.caller = p /\ lost' = lost
           /\ session'[p].authority = session[p].authority
        \/ Carries(n) = {} /\ lost' = lost /\ session'[p].authority = t
        \/ /\ Carries(n) = {} /\ lost' = lost \cup {t}
           /\ session'[p].authority = session[p].authority
    <3>1. h.answer.tokens = {t} \/ h.answer.tokens = {}
      BY <1>9, <2>2
    <3>2. CASE session' = session /\ kept = Carries(n) /\ kept \in {h.answer.tokens, {}}
      BY <1>1, <1>4, <2>2, <3>1, <3>2
    <3>3. CASE /\ Carries(n) = {} /\ kept = h.answer.tokens
               /\ session' = [session EXCEPT ![p].authority =
                                Remembered(session[p].authority, h.answer)]
      BY <1>3, <3>3, <1>9, <2>2, <1>4, <2>3, <3>1 DEF CallTypes
    <3> QED
      BY <1>2, <3>2, <3>3
  <2>9. OwnTokens' /\ OnePlace' /\ NoneForgotten'
    BY <1>1, <1>2, <1>3, <1>7, <1>11, <2>1, <2>4, <2>8, PlaceMinted
  <2> QED
    BY <1>5, <1>7, <1>8, <2>6, <2>7, <2>9 DEF CallInv
<1>14. CASE h.done.kind # "token"
  <2>1. NothingNew(p, m, h.done) \/ Acted(p, m, token, h.done)
    BY <1>10, <1>14 DEF Minted
  <2>2. h.done.tokens = {} /\ h.answer.tokens = {} /\ h.answer.kind # "token"
    BY <1>9, <1>14, <2>1 DEF NothingNew, Acted
  <2>3. lost' = lost /\ Carries(n) = {}
    BY <1>2, <1>4, <2>2
  <2>4. Remembered(session[p].authority, h.answer) = session[p].authority
    BY <2>2 DEF Remembered
  <2>5. session' = session
    BY <1>2, <1>3, <2>4 DEF CallTypes
  <2>6. /\ Tokens' = Tokens
        /\ \A t \in Tokens : /\ decisions'[t].principal = decisions[t].principal
                             /\ decisions'[t].state = "active" => decisions[t].state = "active"
    <3>1. CASE NothingNew(p, m, h.done)
      BY <3>1 DEF NothingNew, Tokens
    <3>2. CASE Acted(p, m, token, h.done)
      BY <1>3, <3>2, ActedKeeps
    <3> QED
      BY <2>1, <3>1, <3>2
  <2>7. CallTypes'
    BY <1>2, <1>3, <1>5, <1>7, <2>3, <2>5, <2>6 DEF CallTypes
  <2>8. SessionsOpen'
    BY <1>1, <1>3, <1>7, <2>5 DEF SessionsOpen
  <2>9. OwnTokens' /\ OnePlace' /\ NoneForgotten'
    BY <1>2, <1>3, <1>7, <1>11, <2>3, <2>5, <2>6, PlaceStays
  <2> QED
    BY <1>5, <1>7, <1>8, <2>7, <2>8, <2>9 DEF CallInv
<1> QED
  BY <1>13, <1>14


(* A request over JSON is answered with what the handler says, or too late. *)
LEMMA JsonHandled ==
  ASSUME CallInv, NEW k \in Slots, NEW mishap, HandleJson(k, mishap)
  PROVE  CallInv'
<1> PICK c : c = calls[k]
  OBVIOUS
<1> PICK h : h = Handled(c.caller, c.message, c.token, mishap)
  OBVIOUS
<1>1. c.phase = "reading" /\ UNCHANGED <<session, known>>
  BY DEF HandleJson
<1>2. PICK a \in {h.answer, Error(408)} :
        /\ Handle(c.caller, c.message, c.token, mishap, h, a.tokens)
        /\ calls' = [calls EXCEPT ![k] = Answered(c, a)]
  BY DEF HandleJson
<1>3. CallTypes /\ PaidFor /\ CallOk(c)
  BY DEF CallInv
<1>4. c.caller \in Agents /\ c.message.request \in Requests /\ c.via = "json"
  BY <1>1, <1>3 DEF CallOk, Unhandled, CallTrue, Free
<1>5. Error(408).kind = "error" /\ Error(408).tokens = {}
  BY DEF Error, NoAnswer
<1> PICK n : n = Answered(c, a)
  OBVIOUS
<1>6. /\ n.phase = "answered" /\ n.caller = c.caller /\ n.answer = a /\ n.via = "json"
      /\ Carries(n) = a.tokens
      /\ a.kind # "error" => n.about = <<c.message.operation, c.message.request>>
  BY <1>4, AnsweredIs
<1>7. CallTrue(n)'
  <2>1. CASE a.kind = "error" /\ a.tokens = {}
    BY <1>4, <2>1, ErrorTrue
  <2>2. CASE a = h.answer /\ a.kind # "error"
    <3>1. /\ Changes(c.caller, c.message, c.token, h.done)
          /\ recorded' = recorded \cup h.recorded
      BY <1>2 DEF Handle
    <3>2. /\ a.tokens \subseteq Tokens'
          /\ \A t \in a.tokens : decisions'[t].principal = c.caller
          /\ a.kind # "claimed"
          /\ a.kind = "receipt" =>
               /\ c.message.request \in DOMAIN applied'
               /\ applied'[c.message.request].principal = c.caller
               /\ applied'[c.message.request].receipt = a.receipt
          /\ a.kind \in {"token", "receipt"} => \E entry \in recorded' :
               /\ entry.operation = c.message.operation /\ entry.request = c.message.request
               /\ entry.principal = c.caller /\ entry.status = 200
      BY <1>3, <1>4, <2>2, <3>1, HandleTrue
    <3>3. n.about[2] = c.message.request
      BY <1>6, <2>2
    <3>4. a.kind \in {"token", "claimed", "receipt"} => OnRecordAs(n)'
      <4>1. \A entry : entry.operation = c.message.operation /\ entry.request = c.message.request
                        => <<entry.operation, entry.request>> = n.about
        BY <1>6, <2>2
      <4>2. ASSUME a.kind \in {"token", "receipt"}
            PROVE  OnRecordAs(n)'
        <5>1. PICK entry \in recorded' :
                 /\ entry.operation = c.message.operation /\ entry.request = c.message.request
                 /\ entry.principal = c.caller /\ entry.status = 200
          BY <3>2, <4>2
        <5> QED
          BY <1>6, <4>1, <5>1 DEF OnRecordAs
      <4>3. a.kind # "claimed"
        BY ONLY <3>2
      <4> QED
        BY ONLY <4>2, <4>3
    <3> QED
      BY <1>4, <1>6, <3>2, <3>3, <3>4 DEF CallTrue
  <2>3. a.kind = "error" => a.tokens = {}
    BY HandledCases, InvokedCases, <1>2, <1>5
  <2> QED
    BY <1>2, <1>5, <2>1, <2>2, <2>3
<1>8. Handle(c.caller, c.message, c.token, mishap, h, a.tokens)
  BY <1>2
<1>9. PassedOn(c.caller, n, h, a.tokens)
  BY <1>1, <1>2, <1>5, <1>6 DEF PassedOn
<1>10. Replied(k, c.caller, n)
  BY <1>1, <1>2, <1>6 DEF Replied
<1> QED
  BY <1>4, <1>7, <1>8, <1>9, <1>10, HandledSteps

(* What an agent of a session is told has no token. *)
LEMMA ToolTextIs ==
  ASSUME NEW p, NEW m, NEW token, NEW a,
         a = Invoked(p, m, token) \/ (a.kind = "error" /\ a.tokens = {})
  PROVE  /\ ToolText(a).tokens = {}
         /\ a.kind = "token" => ToolText(a).kind = "claimed"
         /\ a.kind # "token" => ToolText(a) = a
<1>2. CASE a.kind # "token"
  BY <1>2, InvokedCases DEF ToolText
<1>3. CASE a.kind = "token"
  <2>1. a = Invoked(p, m, token)
    BY <1>3
  <2>2. m.operation = "claim" /\ ClaimGranted(p, m)
    BY <1>3, <2>1, InvokedCases
  <2>3. WellFormed(m)
    BY <1>3, <2>1 DEF Invoked, Error, NoAnswer
  <2>4. a = [NoAnswer EXCEPT !.status = 200, !.kind = "token",
                            !.tokens = {Cardinality(Tokens) + 1}]
    BY <2>1, <2>2, <2>3 DEF Invoked
  <2>5. {"kind", "tokens"} \subseteq DOMAIN a
    BY <2>4 DEF NoAnswer
  <2>6. ToolText(a) = [a EXCEPT !.kind = "claimed", !.tokens = {}]
    BY <1>3 DEF ToolText
  <2> QED
    BY <1>3, <2>5, <2>6
<1> QED
  BY <1>2, <1>3

\* A call over MCP, and what the handler is given of it.
OfTool(c, p, m) ==
  /\ p = c.caller /\ c.via = "mcp" /\ c.message.request \in Requests
  /\ {"operation", "request", "fields"} \subseteq DOMAIN c.message
  /\ m = RequestBody(c.message)

(* What the tool's answer says is true of the call it was made of. *)
LEMMA ToolAnswered ==
  ASSUME CallTypes, PaidFor, NEW c, NEW p \in Agents, NEW m, OfTool(c, p, m),
         NEW token, NEW mishap, NEW h, h = Handled(p, m, token, mishap),
         NEW kept, Handle(p, m, token, mishap, h, kept)
  PROVE  CallTrue(Answered(c, ToolText(h.answer)))'
<1> PICK n : n = Answered(c, ToolText(h.answer))
  OBVIOUS
<1>1. /\ p = c.caller /\ c.via = "mcp" /\ c.message.request \in Requests
      /\ {"operation", "request", "fields"} \subseteq DOMAIN c.message
      /\ m = RequestBody(c.message)
  BY DEF OfTool
<1> PICK b : b = h.answer
  OBVIOUS
<1> PICK a : a = ToolText(b)
  OBVIOUS
<1>2. b = Invoked(p, m, token) \/ (b.kind = "error" /\ b.tokens = {})
  BY HandledCases
<1>3. /\ a.tokens = {} /\ (b.kind = "token" => a.kind = "claimed")
      /\ b.kind # "token" => a = b
  BY <1>2, ToolTextIs
<1>4. n = Answered(c, a)
  OBVIOUS
<1>5. /\ n.phase = "answered" /\ n.caller = p /\ n.answer = a /\ n.via = "mcp"
      /\ Carries(n) = {}
      /\ a.kind # "error" => n.about = <<c.message.operation, c.message.request>>
  BY <1>1, <1>3, <1>4, AnsweredIs
<1>6. m.operation = c.message.operation /\ m.request = c.message.request
  BY <1>1, RequestBodySame
<1>7. /\ b.kind # "claimed"
      /\ b.kind = "receipt" =>
           /\ m.request \in DOMAIN applied' /\ applied'[m.request].principal = p
           /\ applied'[m.request].receipt = b.receipt
      /\ b.kind \in {"token", "receipt"} => \E entry \in recorded' :
           /\ entry.operation = m.operation /\ entry.request = m.request
           /\ entry.principal = p /\ entry.status = 200
  BY HandleTrue DEF Handle
<1>8. a.kind \in {"token", "claimed", "receipt"} => OnRecordAs(n)'
  <2> SUFFICES ASSUME a.kind \in {"token", "claimed", "receipt"} PROVE OnRecordAs(n)'
    OBVIOUS
  <2>1. b.kind \in {"token", "receipt"} /\ a.kind # "error"
    BY <1>3, <1>7
  <2>2. \A entry : entry.operation = m.operation /\ entry.request = m.request
                   => <<entry.operation, entry.request>> = n.about
    BY <1>5, <1>6, <2>1
  <2> QED
    BY <1>5, <1>7, <2>1, <2>2 DEF OnRecordAs
<1>9. a.kind = "receipt" =>
        /\ n.about[2] \in DOMAIN applied' \cap Requests
        /\ applied'[n.about[2]].principal = p /\ applied'[n.about[2]].receipt = a.receipt
  <2> SUFFICES ASSUME a.kind = "receipt"
               PROVE  /\ n.about[2] \in DOMAIN applied' \cap Requests
                      /\ applied'[n.about[2]].principal = p
                      /\ applied'[n.about[2]].receipt = a.receipt
    OBVIOUS
  <2>1. a = b
    BY <1>3
  <2>2. n.about[2] = m.request
    BY <1>5, <1>6
  <2> QED
    BY <1>1, <1>6, <1>7, <2>1, <2>2
<1> QED
  BY <1>3, <1>5, <1>8, <1>9 DEF CallTrue

(* A tool's token stays with its session. *)
LEMMA ToolHandled ==
  ASSUME CallInv, NEW k \in Slots, NEW mishap, RunTool(k, mishap)
  PROVE  CallInv'
<1> PICK c : c = calls[k]
  OBVIOUS
<1> PICK p : p = c.caller
  OBVIOUS
<1> PICK token : token = session[p].authority
  OBVIOUS
<1> PICK m : m = RequestBody(c.message)
  OBVIOUS
<1> PICK h : h = Handled(p, m, token, mishap)
  OBVIOUS
<1>1. CallTypes /\ PaidFor /\ CallOk(c) /\ SessionsOpen
  BY DEF CallInv
<1>2. c.phase = "called"
  BY DEF RunTool
<1>3. /\ p \in Agents /\ c.message.request \in Requests /\ c.via = "mcp"
      /\ {"operation", "request", "fields"} \subseteq DOMAIN c.message
      /\ Carries(c) = {}
  BY <1>1, <1>2 DEF CallOk, Unhandled, CallTrue, Free, Carries
<1>4. session[p].open
  BY <1>1, <1>2 DEF SessionsOpen
<1>5. \/ /\ Handle(p, m, token, mishap, h, h.answer.tokens)
         /\ session' = [session EXCEPT ![p].authority = Remembered(token, h.answer)]
         /\ calls' = [calls EXCEPT ![k] = Answered(c, ToolText(h.answer))]
         /\ UNCHANGED known
      \/ /\ calls' = [calls EXCEPT ![k] = Answered(c, Error(403))]
         /\ UNCHANGED <<decisions, applied, session, known, lost, recorded>>
  BY DEF RunTool
<1>6. CASE /\ calls' = [calls EXCEPT ![k] = Answered(c, Error(403))]
           /\ UNCHANGED <<decisions, applied, session, known, lost, recorded>>
  <2> PICK a : a = Error(403)
    OBVIOUS
  <2> PICK n : n = Answered(c, a)
    OBVIOUS
  <2>1. a.kind = "error" /\ a.tokens = {}
    BY DEF Error, NoAnswer
  <2>2. CallTrue(n)'
    BY <1>3, <2>1, ErrorTrue
  <2>3. Carries(n) = {} /\ n.phase = "answered"
    BY <2>1, AnsweredIs
  <2>4. calls' = [calls EXCEPT ![k] = n]
    BY <1>6, ZenonT(60)
  <2> QED
    BY <1>3, <1>6, <2>2, <2>3, <2>4, OnlyCalls, ZenonT(60)
<1>7. CASE /\ Handle(p, m, token, mishap, h, h.answer.tokens)
           /\ session' = [session EXCEPT ![p].authority = Remembered(token, h.answer)]
           /\ calls' = [calls EXCEPT ![k] = Answered(c, ToolText(h.answer))]
           /\ UNCHANGED known
  <2> PICK n : n = Answered(c, ToolText(h.answer))
    BY ZenonT(60)
  <2>1. Handle(p, m, token, mishap, h, h.answer.tokens)
    BY <1>7, ZenonT(60)
  <2>2. CallTrue(n)' /\ Carries(n) = {} /\ n.phase = "answered" /\ n.caller = p
    <3>1. OfTool(c, p, m)
      BY <1>3 DEF OfTool
    <3>2. CallTrue(n)'
      BY <1>1, <1>3, <2>1, <3>1, ToolAnswered
    <3>3. n.caller = p /\ n.via = "mcp"
      BY <1>3, ZenonT(60) DEF Answered
    <3> QED
      BY <3>2, <3>3 DEF CallTrue, Carries
  <2>3. Replied(k, p, n)
    BY <1>2, <1>7, <2>2, ZenonT(60) DEF Replied
  <2>4. PassedOn(p, n, h, h.answer.tokens)
    BY <1>4, <1>7, <2>2, ZenonT(60) DEF PassedOn
  <2> QED
    BY <1>3, <2>1, <2>2, <2>3, <2>4, HandledSteps
<1> QED
  BY <1>5, <1>6, <1>7

(* Whatever happens, the invariant holds after it. *)
LEMMA NextCalls == CallInv /\ [CallNext]_callVars => CallInv'
<1> SUFFICES ASSUME CallInv, [CallNext]_callVars PROVE CallInv'
  OBVIOUS
<1>1. CASE /\ UNCHANGED <<decisions, applied, session, calls, known, lost, recorded>>
  BY <1>1, QuietKeeps, PlaceStays DEF CallInv, CallTypes, ReceiptsTrue,
     SessionsOpen, CallOk
<1>2. CASE Activate \/ CloseWorld \/ UNCHANGED callVars
  BY <1>1, <1>2 DEF Activate, CloseWorld, callVars
<1>3. CASE \E t \in Tokens : Expire(t)
  BY <1>3, DecisionsExpire
<1>4. CASE \E p \in ToolUsers : OpenSession(p) \/ CloseSession(p)
  BY <1>4, SessionsOpened, SessionsClosed
<1>5. CASE \E k \in Slots :
             \/ \E p \in Agents : \E message \in Messages[p] : SendJson(k, p, message)
             \/ \E p \in ToolUsers : \E message \in Messages[p] : SendTool(k, p, message)
             \/ JsonRefused(k) \/ Abandoned(k) \/ ToolRefused(k)
  BY <1>5, CallsComeAndGo
<1>6. CASE \E k \in Slots : Deliver(k) \/ LoseAnswer(k)
  BY <1>6, AnswersEnd
<1>7. CASE \E k \in Slots : \E mishap \in Mishaps : HandleJson(k, mishap) \/ RunTool(k, mishap)
  BY <1>7, JsonHandled, ToolHandled
<1> QED
  BY <1>2, <1>3, <1>4, <1>5, <1>6, <1>7 DEF CallNext

(* What the tools ask for fits what the operations take, whichever are offered. *)
LEMMA ToolsAlwaysFit == ToolsFit
<1> SUFFICES ASSUME NEW operation \in Offered
             PROVE  WellFormed(RequestBody([operation |-> operation,
                                            fields |-> ToolNeeds(operation)]))
  BY DEF ToolsFit
<1> DEFINE m == [operation |-> operation, fields |-> ToolNeeds(operation)]
<1>1. CASE operation = "claim"
  BY <1>1 DEF RequestBody, WellFormed, Needs, Allows, ToolNeeds
<1>2. CASE operation # "claim"
  <2> DEFINE more == IF operation = "ledger" THEN {"decision_token", "version"}
                     ELSE {"decision_token"}
  <2>1. /\ RequestBody(m).operation = operation
        /\ RequestBody(m).fields = ToolNeeds(operation) \cup more
    BY <1>2 DEF RequestBody
  <2>2. operation \in {"status", "capabilities", "observe", "affordances", "act", "ledger"}
    BY <1>2 DEF Offered
  <2>3. Needs(operation) = ToolNeeds(operation) \cup more
    BY <2>2 DEF Needs, ToolNeeds
  <2> QED
    BY <2>1, <2>3 DEF WellFormed, Allows
<1> QED
  BY <1>1, <1>2

(* What CallsHonest says follows. *)
LEMMA CallInvHonest == CallInv => CallsHonest
<1> SUFFICES ASSUME CallInv PROVE CallsHonest
  OBVIOUS
<1>1. /\ CallTypes /\ PaidFor /\ ReceiptsTrue /\ ActsRecorded
      /\ OwnTokens /\ OnePlace /\ NoneForgotten
      /\ \A k \in Slots : CallOk(calls[k])
  BY DEF CallInv
<1>2. \A t \in Tokens : decisions[t] \in Decisions
  BY <1>1 DEF CallTypes, StoreTypes
<1>3. \A k \in Slots : calls[k].phase = "answered" => CallTrue(calls[k])
  BY <1>1 DEF CallOk, Unhandled, Free
<1>4. ActsOnce
  <2>1. ASSUME NEW p \in Agents
        PROVE  {t \in Tokens : decisions[t] = [principal |-> p, state |-> "consumed"]} = Spent(p)
    <3>1. ASSUME NEW t \in Tokens
          PROVE  (decisions[t] = [principal |-> p, state |-> "consumed"]) <=>
                   (decisions[t].principal = p /\ decisions[t].state = "consumed")
      BY <1>2 DEF Decisions
    <3> QED
      BY <3>1 DEF Spent
  <2> QED
    BY <1>1, <2>1 DEF ActsOnce, PaidFor, Acts, ReceiptsTrue
<1>5. OnRecord
  BY <1>1, <1>3 DEF OnRecord, ActsRecorded, CallTrue, OnRecordAs
<1>6. AuthorityHeld
  <2>1. ASSUME NEW t \in Tokens, decisions[t].state = "active"
        PROVE  (\/ t \in known[decisions[t].principal].tokens
                \/ session[decisions[t].principal].authority = t
                \/ \E k \in Slots : calls[k].phase = "answered" /\ t \in calls[k].answer.tokens)
               <=> t \notin lost
    BY <1>1, <2>1 DEF Carries, NoneForgotten, Held
  <2>2. \A p \in Agents :
          /\ session[p].authority # NoToken => decisions[session[p].authority].principal = p
          /\ \A t \in known[p].tokens : decisions[t].principal = p
    BY <1>1 DEF OwnTokens
  <2>3. \A entry \in recorded : entry.tokens = {}
    BY <1>1 DEF ActsRecorded
  <2>4. \A k \in Slots : calls[k].phase = "answered" =>
          /\ \A t \in calls[k].answer.tokens : decisions[t].principal = calls[k].caller
          /\ calls[k].via = "mcp" => calls[k].answer.tokens = {}
    BY <1>3 DEF CallTrue
  <2> QED
    BY <2>1, <2>2, <2>3, <2>4 DEF AuthorityHeld
<1> QED
  BY <1>4, <1>5, <1>6, ToolsAlwaysFit DEF CallsHonest

(* However answers are lost and calls repeated, over either protocol: an act is applied
   once and paid for with one decision, what was done is on record, a token is its
   principal's alone, and an active one is with whoever can use it or counts as lost. *)
THEOREM CallsHonestAlways == CallSpec => []CallsHonest
<1>1. CallInit => CallInv
  BY InitCalls
<1>2. CallInv /\ [CallNext]_callVars => CallInv'
  BY NextCalls
<1>3. CallInv => CallsHonest
  BY CallInvHonest
<1> QED
  BY <1>1, <1>2, <1>3, PTL DEF CallSpec

------------------------------------------------------------------------------
(* The live projection of a composed run.                                   *)

(* One snapshot of the world is not taken after another. *)
NoLater(s, t) == s.tick <= t.tick /\ (s.final => t = s)

(* How many snapshots there can have been up to this one. *)
Rank(s) == s.tick + 1 + (IF s.final THEN 1 ELSE 0)

Undoing == {"undo", "undoFiles", "undoDeclaration"}

(* Rows are the ticks from the first, whatever they were written for. *)
InTicks(rows) == rows \in Seq(Row) /\ \A i \in 1 .. Len(rows) : rows[i].tick = i - 1

WorldTyped == world \in [tick : 0 .. MaxTick, final : BOOLEAN]
ObserverTyped ==
  obs \in [ stage : {"polling", "publishing", "aborted", "terminal", "settled"},
            wanted : BOOLEAN, last : Shot ]
MemoryTyped ==
  mem \in [ count : Number, frontier : -1 .. MaxTick, rows : Seq(Row),
            ledger : Seq(Entry), declared : SUBSET Entry ]
JobTyped ==
  job \in [ step : {"none", "snapshot", "ledger", "frames", "declaration", "undo", "undoFiles",
                    "undoDeclaration"}, shot : Shot ]
FilesTyped ==
  disk \in [ snaps : SUBSET Entry, ledger : Seq(Entry), frames : Seq(Row),
             declaration : SUBSET Entry ]
LateTyped ==
  late \subseteq [ file : {"ledger", "frames"}, rows : Seq(Row), ledger : Seq(Entry) ]
RecordTyped ==
  record \in [ stage : {"open", "removing", "writing", "ready", "hashed", "sealed", "failed",
                        "aborted"},
               rows : Seq(Row), ledger : Seq(Entry), snaps : SUBSET Entry,
               replaced : SUBSET {"ledger", "frames"} ]
HeldTyped == held \subseteq Entry /\ Cardinality(held) <= 1
FaultsTyped == faults \in 0 .. MaxFaults

(* Where observer, publication and record are to each other. *)
StagesMeet ==
  /\ job.step # "none" <=> obs.stage \in {"publishing", "terminal"}
  /\ record.stage # "open" => obs.stage = "settled"
  /\ obs.wanted \/ obs.stage \in {"aborted", "terminal"} => world.final
  /\ obs.stage = "terminal" => job.shot.final
  /\ job.step \in Undoing => faults > 0
  /\ late # {} => faults > 0

(* Snapshots are published in the order they were taken. *)
TakenInOrder ==
  /\ NoLater(obs.last, world)
  /\ job.step # "none" =>
       /\ NoLater(obs.last, job.shot) /\ NoLater(job.shot, world)
       /\ job.shot # obs.last /\ job.shot.tick >= 0

(* What was committed: an entry for every snapshot, a row for every tick. *)
Accounted ==
  /\ Len(mem.ledger) = mem.count
  /\ \A i \in 1 .. mem.count :
       mem.ledger[i].number = i /\ 0 <= mem.ledger[i].shot.tick
  /\ mem.frontier = obs.last.tick /\ mem.count <= Rank(obs.last)
  /\ mem.declared = IF mem.count = 0 THEN {} ELSE {mem.ledger[mem.count]}
  /\ IF mem.count = 0 THEN obs.last = Nothing ELSE mem.ledger[mem.count].shot = obs.last
  /\ InTicks(mem.rows) /\ Len(mem.rows) = mem.frontier + 1
  /\ \A i \in 1 .. Len(mem.rows) :
       /\ mem.rows[i].source \in 1 .. mem.count
       /\ mem.rows[i].tick <= mem.ledger[mem.rows[i].source].shot.tick

(* Frames are in ticks, those that are still to be written back too. *)
FramesFit == InTicks(disk.frames) /\ \A w \in late : InTicks(w.rows)

(* Nothing is declared but what was committed last. *)
DeclarationFits ==
  /\ disk.declaration \subseteq mem.declared
  /\ record.stage # "open" => disk.declaration = {}

(* Committed snapshots stay until the record is made, and only a           *)
(* publication under way has one more.                                     *)
SnapshotsFit ==
  /\ record.stage = "open" => ToSet(mem.ledger) \subseteq disk.snaps
  /\ \A e \in disk.snaps : e \in ToSet(mem.ledger) \/ e = Candidate
  /\ job.step \in {"none", "snapshot", "undoFiles", "undoDeclaration"} =>
       disk.snaps \subseteq ToSet(mem.ledger)
  /\ job.step \in {"ledger", "frames", "declaration"} => Candidate \in disk.snaps

HeldFits == held \subseteq ToSet(mem.ledger)

(* The record is what was committed, or nothing. *)
RecordFits ==
  /\ record.stage = "open" => record.ledger = << >>
  /\ \/ record.ledger = << >>
     \/ /\ record.ledger = mem.ledger /\ record.rows = mem.rows
        /\ record.snaps = ToSet(mem.ledger)

(* It is all of it unless something failed. *)
Faultless ==
  faults = 0 =>
    /\ obs.stage = "settled" /\ record.stage # "aborted" => obs.last = world /\ world.final
    /\ record.stage = "writing" => disk.ledger = << >> /\ disk.frames = << >>
    /\ record.stage \in {"ready", "hashed", "sealed"} =>
         record.ledger = mem.ledger /\ mem.count > 0

ProjectionInv ==
  /\ WorldTyped /\ ObserverTyped /\ MemoryTyped /\ JobTyped /\ FilesTyped /\ LateTyped
  /\ RecordTyped /\ HeldTyped /\ FaultsTyped
  /\ StagesMeet /\ TakenInOrder /\ Accounted
  /\ FramesFit /\ DeclarationFits /\ SnapshotsFit /\ HeldFits
  /\ RecordFits /\ Faultless

(* What the types say of numbers. *)
LEMMA ProjectionNumbers ==
  ASSUME ProjectionInv
  PROVE  /\ MaxTick \in Nat /\ MaxFaults \in Nat
         /\ world.tick \in Nat /\ world.tick <= MaxTick /\ world.final \in BOOLEAN
         /\ world \in Shot /\ obs.last \in Shot /\ job.shot \in Shot
         /\ obs.last.tick \in Int /\ job.shot.tick \in Int
         /\ obs.last.tick >= -1 /\ job.shot.tick >= -1
         /\ obs.last.tick <= MaxTick /\ job.shot.tick <= MaxTick
         /\ obs.last.final \in BOOLEAN /\ job.shot.final \in BOOLEAN
         /\ mem.count \in Nat /\ mem.frontier \in Int /\ faults \in Nat
         /\ mem.ledger \in Seq(Entry) /\ mem.rows \in Seq(Row)
<1>1. MaxTick \in Nat /\ MaxFaults \in Nat
  BY LiveProjectionAssumption
<1>2. world.tick \in 0 .. MaxTick /\ world.final \in BOOLEAN /\ world \in Shot
  BY <1>1 DEF ProjectionInv, WorldTyped, Shot
<1>3. obs.last \in Shot /\ job.shot \in Shot
  BY DEF ProjectionInv, ObserverTyped, JobTyped
<1>4. /\ mem.count \in 0 .. MaxTick + 2 /\ mem.frontier \in -1 .. MaxTick
      /\ mem.ledger \in Seq(Entry) /\ mem.rows \in Seq(Row)
  BY DEF ProjectionInv, MemoryTyped, Number
<1>5. faults \in 0 .. MaxFaults
  BY DEF ProjectionInv, FaultsTyped
<1>6. /\ obs.last.tick \in -1 .. MaxTick /\ job.shot.tick \in -1 .. MaxTick
      /\ obs.last.final \in BOOLEAN /\ job.shot.final \in BOOLEAN
  BY <1>3 DEF Shot
<1> QED
  BY <1>1, <1>2, <1>3, <1>4, <1>5, <1>6

(* What is in the ledger has its number, its place. *)
LEMMA LedgerIs ==
  ASSUME ProjectionInv
  PROVE  /\ ToSet(mem.ledger) \subseteq Entry
         /\ \A e \in ToSet(mem.ledger) : e.number \in 1 .. mem.count /\ e = mem.ledger[e.number]
         /\ \A i \in 1 .. mem.count : mem.ledger[i] \in ToSet(mem.ledger)
<1>1. mem.ledger \in Seq(Entry) /\ Len(mem.ledger) = mem.count /\ mem.count \in Nat
  BY ProjectionNumbers DEF ProjectionInv, Accounted
<1>2. ToSet(mem.ledger) = {mem.ledger[i] : i \in 1 .. mem.count}
  BY <1>1 DEF ToSet
<1>3. \A i \in 1 .. mem.count : mem.ledger[i] \in Entry /\ mem.ledger[i].number = i
  BY <1>1 DEF ProjectionInv, Accounted
<1> QED
  BY <1>2, <1>3

(* The publication under way has a number of its own. *)
LEMMA CandidateIs ==
  ASSUME ProjectionInv, job.step # "none"
  PROVE  /\ Candidate \in Entry /\ Candidate.number = mem.count + 1 /\ Candidate.shot = job.shot
         /\ Current = mem.count + 1 /\ Current \in Number
         /\ Candidate \notin ToSet(mem.ledger)
         /\ mem.count + 1 <= Rank(job.shot)
<1>1. /\ NoLater(obs.last, job.shot) /\ job.shot # obs.last /\ mem.count <= Rank(obs.last)
  BY DEF ProjectionInv, TakenInOrder, Accounted
<1>2. Rank(obs.last) < Rank(job.shot) /\ Rank(job.shot) <= MaxTick + 2
      /\ Rank(obs.last) \in Int /\ Rank(job.shot) \in Int
  <2>1. PICK a, b : a = obs.last.tick /\ b = job.shot.tick
    OBVIOUS
  <2>2. a \in Int /\ b \in Int /\ b <= MaxTick /\ MaxTick \in Nat /\ a <= b
    BY <1>1, <2>1, ProjectionNumbers DEF NoLater
  <2>3. ~obs.last.final
    BY <1>1 DEF NoLater
  <2>4. Rank(obs.last) = a + 1
    BY <2>1, <2>2, <2>3 DEF Rank
  <2>5. Rank(job.shot) = (IF job.shot.final THEN b + 2 ELSE b + 1)
    BY <2>1, <2>2 DEF Rank
  <2>6. CASE a < b
    BY <2>2, <2>4, <2>5, <2>6
  <2>7. CASE a = b
    <3>1. obs.last.final # job.shot.final
      <4>1. obs.last \in Shot /\ job.shot \in Shot
        BY ProjectionNumbers
      <4>2. /\ obs.last = [tick |-> obs.last.tick, final |-> obs.last.final]
            /\ job.shot = [tick |-> job.shot.tick, final |-> job.shot.final]
        BY <4>1 DEF Shot
      <4> QED
        BY <1>1, <2>1, <2>7, <4>2
    <3>2. job.shot.final
      BY <2>3, <3>1, ProjectionNumbers
    <3> QED
      BY <2>2, <2>4, <2>5, <2>7, <3>2
  <2> QED
    BY <2>2, <2>6, <2>7
<1>3. Current = mem.count + 1 /\ Current \in 0 .. MaxTick + 2
  BY <1>1, <1>2, ProjectionNumbers DEF Current
<1>4. Candidate \in Entry /\ Candidate.number = mem.count + 1 /\ Candidate.shot = job.shot
  BY <1>3, ProjectionNumbers DEF Candidate, Entry, Number
<1>5. Candidate \notin ToSet(mem.ledger)
  BY <1>4, LedgerIs, ProjectionNumbers
<1> QED
  BY <1>1, <1>2, <1>3, <1>4, <1>5, ProjectionNumbers DEF Number

(* The rows a publication writes are those of one that is committed. *)
LEMMA CandidateRowsAre ==
  ASSUME ProjectionInv, job.step # "none"
  PROVE  /\ InTicks(CandidateRows) /\ Len(CandidateRows) = job.shot.tick + 1
         /\ \A i \in 1 .. Len(mem.rows) : CandidateRows[i] = mem.rows[i]
         /\ \A i \in 1 .. Len(CandidateRows) :
              i > Len(mem.rows) => CandidateRows[i] = [tick |-> i - 1, source |-> mem.count + 1]
         /\ Len(mem.rows) <= Len(CandidateRows)
<1>1. PICK f, t, c, n : f = mem.frontier /\ t = job.shot.tick /\ c = mem.count /\ n = Len(mem.rows)
  OBVIOUS
<1>2. f \in Int /\ t \in Int /\ c \in Nat /\ n \in Nat /\ n = f + 1 /\ f <= t /\ t <= MaxTick
      /\ MaxTick \in Nat
  BY ProjectionNumbers, <1>1 DEF ProjectionInv, Accounted, TakenInOrder,
     NoLater
<1>3. PICK k : k = t - f
  OBVIOUS
<1>4. k \in Nat /\ f + k = t
  BY <1>2, <1>3
<1>5. PICK fresh : fresh = [i \in 1 .. k |-> [tick |-> f + i, source |-> c + 1]]
  OBVIOUS
<1>6. fresh \in Seq(Row) /\ Len(fresh) = k
  <2>1. \A i \in 1 .. k : [tick |-> f + i, source |-> c + 1] \in Row
    <3> SUFFICES ASSUME NEW i \in 1 .. k PROVE  [tick |-> f + i, source |-> c + 1] \in Row
      OBVIOUS
    <3>1. f + i \in 0 .. MaxTick
      BY <1>2, <1>4
    <3>2. c + 1 \in Number
      BY <1>1, CandidateIs
    <3> QED
      BY <3>1, <3>2 DEF Row
  <2> QED
    BY <1>4, <1>5, <2>1
<1>7. PICK rows : rows = mem.rows
  OBVIOUS
<1>8. PICK new : new = rows \o fresh
  OBVIOUS
<1>9. CandidateRows = new
  BY CandidateIs, <1>1, <1>3, <1>5, <1>7, <1>8 DEF CandidateRows
<1>10. rows \in Seq(Row) /\ Len(rows) = n /\ \A i \in 1 .. n : rows[i].tick = i - 1
  BY <1>1, <1>7 DEF ProjectionInv, Accounted, InTicks
<1>11. new \in Seq(Row)
  BY <1>6, <1>8, <1>10
<1>12. /\ Len(new) = n + k
       /\ \A i \in 1 .. n : new[i] = rows[i]
       /\ \A i \in 1 .. n + k : i > n => new[i] = fresh[i - n]
  <2>1. Len(new) = n + k
    <3>0. rows \in Seq(Row) /\ fresh \in Seq(Row)
      BY <1>6, <1>10
    <3>1. Len(rows \o fresh) = Len(rows) + Len(fresh)
      BY <3>0
    <3> QED
      BY <1>6, <1>8, <1>10, <3>1
  <2>2. \A i \in 1 .. n : new[i] = rows[i]
    BY <1>2, <1>4, <1>6, <1>8, <1>10
  <2>3. \A i \in 1 .. n + k : i > n => new[i] = fresh[i - n]
    <3> SUFFICES ASSUME NEW i \in 1 .. n + k, i > n
                 PROVE  new[i] = fresh[i - n]
      OBVIOUS
    <3>1. i \in 1 .. Len(rows) + Len(fresh) /\ i > Len(rows)
      BY <1>6, <1>10
    <3> QED
      BY <1>6, <1>8, <1>10, <3>1
  <2> QED
    BY <2>1, <2>2, <2>3
<1>13. \A i \in 1 .. n + k : i > n => new[i] = [tick |-> i - 1, source |-> c + 1]
  <2> SUFFICES ASSUME NEW i \in 1 .. n + k, i > n
               PROVE  new[i] = [tick |-> i - 1, source |-> c + 1]
    OBVIOUS
  <2>1. i - n \in 1 .. k /\ f + (i - n) = i - 1
    BY <1>2, <1>4
  <2> QED
    BY <1>5, <1>12, <2>1
<1>14. \A i \in 1 .. n + k : new[i].tick = i - 1
  BY <1>2, <1>4, <1>10, <1>12, <1>13
<1>15. n + k = t + 1 /\ n <= n + k
  BY <1>2, <1>4
<1>16. InTicks(new)
  BY <1>11, <1>12, <1>14 DEF InTicks
<1> QED
  BY <1>1, <1>7, <1>9, <1>12, <1>13, <1>15, <1>16

(* The world goes on.                                                       *)
LEMMA TickProjects ==
  ASSUME ProjectionInv, Tick
  PROVE  ProjectionInv'
<1>1. /\ ~world.final /\ world.tick < MaxTick
      /\ world' = [world EXCEPT !.tick = world.tick + 1]
      /\ UNCHANGED << obs, mem, job, disk, late, record, held, faults >>
  BY DEF Tick
<1>2. WorldTyped' /\ world'.tick = world.tick + 1 /\ world'.final = world.final
  BY <1>1, ProjectionNumbers DEF ProjectionInv, WorldTyped
<1>3. /\ ObserverTyped' /\ MemoryTyped' /\ JobTyped' /\ FilesTyped' /\ LateTyped'
      /\ RecordTyped' /\ HeldTyped' /\ FaultsTyped'
  BY <1>1 DEF ProjectionInv, ObserverTyped, MemoryTyped, JobTyped, FilesTyped, LateTyped,
              RecordTyped, HeldTyped, FaultsTyped
<1>4. StagesMeet'
  BY <1>1, <1>2 DEF ProjectionInv, StagesMeet
<1>5. TakenInOrder'
  BY <1>1, <1>2, ProjectionNumbers DEF ProjectionInv, TakenInOrder, NoLater
<1>6. Accounted'
  BY <1>1 DEF ProjectionInv, Accounted
<1>7. FramesFit' /\ DeclarationFits' /\ HeldFits' /\ RecordFits'
  BY <1>1 DEF ProjectionInv, FramesFit, DeclarationFits, HeldFits, RecordFits
<1>8. SnapshotsFit'
  BY <1>1 DEF ProjectionInv, SnapshotsFit, Candidate, Current
<1>9. Faultless'
  BY <1>1, <1>2 DEF ProjectionInv, Faultless
<1> QED
  BY <1>2, <1>3, <1>4, <1>5, <1>6, <1>7, <1>8, <1>9 DEF ProjectionInv

(* It comes to its end. *)
LEMMA TerminalProjects ==
  ASSUME ProjectionInv, Terminal
  PROVE  ProjectionInv'
<1>1. /\ ~world.final /\ world' = [world EXCEPT !.final = TRUE]
      /\ UNCHANGED << obs, mem, job, disk, late, record, held, faults >>
  BY DEF Terminal
<1>2. WorldTyped' /\ world'.tick = world.tick /\ world'.final
  BY <1>1 DEF ProjectionInv, WorldTyped
<1>3. /\ ObserverTyped' /\ MemoryTyped' /\ JobTyped' /\ FilesTyped' /\ LateTyped'
      /\ RecordTyped' /\ HeldTyped' /\ FaultsTyped'
  BY <1>1 DEF ProjectionInv, ObserverTyped, MemoryTyped, JobTyped, FilesTyped, LateTyped,
              RecordTyped, HeldTyped, FaultsTyped
<1>4. StagesMeet'
  BY <1>1, <1>2 DEF ProjectionInv, StagesMeet
<1>5. TakenInOrder'
  BY <1>1, <1>2, ProjectionNumbers DEF ProjectionInv, TakenInOrder, NoLater
<1>6. Accounted'
  BY <1>1 DEF ProjectionInv, Accounted
<1>7. FramesFit' /\ DeclarationFits' /\ HeldFits' /\ RecordFits'
  BY <1>1 DEF ProjectionInv, FramesFit, DeclarationFits, HeldFits, RecordFits
<1>8. SnapshotsFit'
  BY <1>1 DEF ProjectionInv, SnapshotsFit, Candidate, Current
<1>9. Faultless'
  BY <1>1, <1>2 DEF ProjectionInv, Faultless
<1> QED
  BY <1>2, <1>3, <1>4, <1>5, <1>6, <1>7, <1>8, <1>9 DEF ProjectionInv

(* A capture that brings nothing leaves the observer to its next stage. *)
LEMMA NothingCaptured ==
  ASSUME ProjectionInv, NEW idle \in {"polling", "settled"},
         job.step = "none", record.stage = "open",
         UNCHANGED << world, mem, job, disk, late, record, held >>,
         obs' = [obs EXCEPT !.stage = idle],
         faults' \in 0 .. MaxFaults, faults' >= faults,
         idle = "settled" => world.final /\ (faults' > 0 \/ obs.last = world)
  PROVE  ProjectionInv'
<1>1. /\ UNCHANGED << world, mem, job, disk, late, record, held >>
      /\ obs'.stage = idle /\ obs'.last = obs.last /\ obs'.wanted = obs.wanted
  BY DEF ProjectionInv, ObserverTyped
<1>2. ObserverTyped' /\ FaultsTyped'
  BY DEF ProjectionInv, ObserverTyped, FaultsTyped
<1>3. /\ WorldTyped' /\ MemoryTyped' /\ JobTyped' /\ FilesTyped' /\ LateTyped'
      /\ RecordTyped' /\ HeldTyped'
  BY <1>1 DEF ProjectionInv, WorldTyped, MemoryTyped, JobTyped, FilesTyped, LateTyped,
              RecordTyped, HeldTyped
<1>4. StagesMeet'
  BY <1>1, ProjectionNumbers DEF ProjectionInv, StagesMeet, Undoing
<1>5. TakenInOrder'
  BY <1>1 DEF ProjectionInv, TakenInOrder
<1>6. Accounted'
  BY <1>1 DEF ProjectionInv, Accounted
<1>7. FramesFit' /\ DeclarationFits' /\ HeldFits' /\ RecordFits'
  BY <1>1 DEF ProjectionInv, FramesFit, DeclarationFits, HeldFits, RecordFits
<1>8. SnapshotsFit'
  BY <1>1 DEF ProjectionInv, SnapshotsFit, Candidate, Current
<1>9. Faultless'
  BY <1>1, ProjectionNumbers DEF ProjectionInv, Faultless
<1> QED
  BY <1>2, <1>3, <1>4, <1>5, <1>6, <1>7, <1>8, <1>9 DEF ProjectionInv

(* A capture that brings something begins its publication. *)
LEMMA SomethingCaptured ==
  ASSUME ProjectionInv, NEW publishing \in {"publishing", "terminal"},
         job.step = "none", record.stage = "open",
         UNCHANGED << world, mem, disk, late, record, held, faults >>,
         obs.last # world,
         obs' = [obs EXCEPT !.stage = publishing],
         job' = [step |-> "snapshot", shot |-> world],
         publishing = "terminal" => world.final
  PROVE  ProjectionInv'
<1>1. /\ UNCHANGED << world, mem, disk, late, record, held, faults >>
      /\ obs'.stage = publishing /\ obs'.last = obs.last /\ obs'.wanted = obs.wanted
      /\ job'.step = "snapshot" /\ job'.shot = world
  BY DEF ProjectionInv, ObserverTyped
<1>2. ObserverTyped' /\ JobTyped'
  BY ProjectionNumbers DEF ProjectionInv, ObserverTyped, JobTyped
<1>3. /\ WorldTyped' /\ MemoryTyped' /\ FilesTyped' /\ LateTyped'
      /\ RecordTyped' /\ HeldTyped' /\ FaultsTyped'
  BY <1>1 DEF ProjectionInv, WorldTyped, MemoryTyped, FilesTyped, LateTyped,
              RecordTyped, HeldTyped, FaultsTyped
<1>4. StagesMeet'
  BY <1>1 DEF ProjectionInv, StagesMeet, Undoing
<1>5. TakenInOrder'
  BY <1>1, ProjectionNumbers DEF ProjectionInv, TakenInOrder, NoLater
<1>6. Accounted'
  BY <1>1 DEF ProjectionInv, Accounted
<1>7. FramesFit' /\ DeclarationFits' /\ HeldFits' /\ RecordFits'
  BY <1>1 DEF ProjectionInv, FramesFit, DeclarationFits, HeldFits, RecordFits
<1>8. SnapshotsFit'
  BY <1>1 DEF ProjectionInv, SnapshotsFit
<1>9. Faultless'
  BY <1>1 DEF ProjectionInv, Faultless
<1> QED
  BY <1>2, <1>3, <1>4, <1>5, <1>6, <1>7, <1>8, <1>9 DEF ProjectionInv

(* What failing does to the count of failures. *)
LEMMA FailsCounts ==
  ASSUME ProjectionInv, Fails
  PROVE  faults' \in 0 .. MaxFaults /\ faults' > 0 /\ faults' >= faults
<1> QED
  BY ProjectionNumbers DEF Fails

(* The observer captures while it polls. *)
LEMMA CaptureProjects ==
  ASSUME ProjectionInv, Capture
  PROVE  ProjectionInv'
<1>1. /\ obs.stage = "polling" /\ record.stage = "open"
      /\ UNCHANGED << world, mem, disk, late, record, held >>
  BY DEF Capture, Captures
<1>2. job.step = "none"
  BY <1>1 DEF ProjectionInv, StagesMeet
<1>3. faults \in 0 .. MaxFaults /\ faults >= faults
  BY ProjectionNumbers DEF ProjectionInv, FaultsTyped
<1>4. CASE Fails /\ obs' = [obs EXCEPT !.stage = "polling"] /\ UNCHANGED job
  BY <1>1, <1>2, <1>4, FailsCounts, NothingCaptured
<1>5. CASE obs' = [obs EXCEPT !.stage = "polling"] /\ UNCHANGED << job, faults >>
  BY <1>1, <1>2, <1>3, <1>5, NothingCaptured
<1>6. CASE /\ obs.last # world /\ obs' = [obs EXCEPT !.stage = "publishing"]
           /\ job' = [step |-> "snapshot", shot |-> world] /\ UNCHANGED faults
  BY <1>1, <1>2, <1>6, SomethingCaptured
<1> QED
  BY <1>4, <1>5, <1>6 DEF Capture, Captures

(* The last capture follows the end of the world. *)
LEMMA TerminalCaptureProjects ==
  ASSUME ProjectionInv, TerminalCapture
  PROVE  ProjectionInv'
<1>1. /\ obs.stage = "aborted"
      /\ UNCHANGED << world, mem, disk, late, record, held >>
  BY DEF TerminalCapture, Captures
<1>2. job.step = "none" /\ record.stage = "open" /\ world.final
  BY <1>1 DEF ProjectionInv, StagesMeet
<1>3. faults \in 0 .. MaxFaults /\ faults >= faults
  BY ProjectionNumbers DEF ProjectionInv, FaultsTyped
<1>4. CASE Fails /\ obs' = [obs EXCEPT !.stage = "settled"] /\ UNCHANGED job
  BY <1>1, <1>2, <1>4, FailsCounts, NothingCaptured
<1>5. CASE /\ obs.last = world /\ obs' = [obs EXCEPT !.stage = "settled"]
           /\ UNCHANGED << job, faults >>
  BY <1>1, <1>2, <1>3, <1>5, NothingCaptured
<1>6. CASE /\ obs.last # world /\ obs' = [obs EXCEPT !.stage = "terminal"]
           /\ job' = [step |-> "snapshot", shot |-> world] /\ UNCHANGED faults
  BY <1>1, <1>2, <1>6, SomethingCaptured
<1> QED
  BY <1>4, <1>5, <1>6 DEF TerminalCapture, Captures

(* The loop is told to stop. *)
LEMMA PauseWorldProjects ==
  ASSUME ProjectionInv, PauseWorld
  PROVE  ProjectionInv'
<1>1. /\ world.final
      /\ obs' = [obs EXCEPT !.wanted = TRUE,
                            !.stage = IF obs.stage = "polling" THEN "aborted" ELSE obs.stage]
      /\ UNCHANGED << world, mem, job, disk, late, record, held, faults >>
  BY DEF PauseWorld
<1>2. /\ obs'.stage = (IF obs.stage = "polling" THEN "aborted" ELSE obs.stage)
      /\ obs'.last = obs.last /\ obs'.wanted = TRUE
  BY <1>1 DEF ProjectionInv, ObserverTyped
<1>3. ObserverTyped'
  BY <1>1 DEF ProjectionInv, ObserverTyped
<1>4. /\ WorldTyped' /\ MemoryTyped' /\ JobTyped' /\ FilesTyped' /\ LateTyped'
      /\ RecordTyped' /\ HeldTyped' /\ FaultsTyped'
  BY <1>1 DEF ProjectionInv, WorldTyped, MemoryTyped, JobTyped, FilesTyped, LateTyped,
              RecordTyped, HeldTyped, FaultsTyped
<1>5. StagesMeet'
  BY <1>1, <1>2 DEF ProjectionInv, StagesMeet
<1>6. TakenInOrder'
  BY <1>1, <1>2 DEF ProjectionInv, TakenInOrder
<1>7. Accounted'
  BY <1>1, <1>2 DEF ProjectionInv, Accounted
<1>8. FramesFit' /\ DeclarationFits' /\ HeldFits' /\ RecordFits'
  BY <1>1 DEF ProjectionInv, FramesFit, DeclarationFits, HeldFits, RecordFits
<1>9. SnapshotsFit'
  BY <1>1 DEF ProjectionInv, SnapshotsFit, Candidate, Current
<1>10. Faultless'
  BY <1>1, <1>2 DEF ProjectionInv, Faultless
<1> QED
  BY <1>3, <1>4, <1>5, <1>6, <1>7, <1>8, <1>9, <1>10 DEF ProjectionInv

(* What a publication, and its undoing, leave of the observer's stage. *)
LEMMA AfterPublicationIs ==
  ASSUME ProjectionInv, job.step # "none"
  PROVE  /\ AfterPublication \in {"polling", "aborted", "settled"}
         /\ AfterPublication = "settled" => obs.stage = "terminal"
         /\ AfterPublication = "aborted" => obs.wanted
         /\ record.stage = "open"
<1>1. obs.stage \in {"publishing", "terminal"}
  BY DEF ProjectionInv, StagesMeet
<1>2. record.stage = "open"
  BY <1>1 DEF ProjectionInv, StagesMeet
<1>3. CASE obs.stage = "publishing"
  BY <1>2, <1>3 DEF AfterPublication
<1>4. CASE obs.stage = "terminal"
  BY <1>2, <1>4 DEF AfterPublication
<1> QED
  BY <1>1, <1>3, <1>4

(* A publication puts its snapshot among the others, then its ledger, then *)
(* its frames.                                                              *)
LEMMA WriteProjects ==
  ASSUME ProjectionInv, Write
  PROVE  ProjectionInv'
<1>1. /\ job.step \in {"snapshot", "ledger", "frames"}
      /\ disk' = Written /\ job' = [job EXCEPT !.step = NextStep]
      /\ UNCHANGED << world, obs, mem, late, record, held, faults >>
  BY DEF Write
<1>2. job.step # "none" /\ record.stage = "open"
  BY <1>1, AfterPublicationIs
<1>3. /\ job.step = "snapshot" => NextStep = "ledger"
      /\ job.step = "ledger" => NextStep = "frames"
      /\ job.step = "frames" => NextStep = "declaration"
  BY DEF NextStep
<1>4. job'.step = NextStep /\ job'.shot = job.shot /\ JobTyped'
  BY <1>1, <1>3 DEF ProjectionInv, JobTyped
<1>5. /\ WorldTyped' /\ ObserverTyped' /\ MemoryTyped' /\ LateTyped'
      /\ RecordTyped' /\ HeldTyped' /\ FaultsTyped'
  BY <1>1 DEF ProjectionInv, WorldTyped, ObserverTyped, MemoryTyped, LateTyped,
              RecordTyped, HeldTyped, FaultsTyped
<1>6. /\ Candidate \in Entry /\ CandidateLedger \in Seq(Entry)
      /\ CandidateRows \in Seq(Row) /\ InTicks(CandidateRows)
  <2>1. Candidate \in Entry /\ mem.ledger \in Seq(Entry)
    BY <1>2, CandidateIs, ProjectionNumbers
  <2> QED
    BY <1>2, <2>1, CandidateRowsAre DEF CandidateLedger, InTicks
<1>7. /\ disk'.declaration = disk.declaration /\ FilesTyped'
      /\ disk'.snaps = IF job.step = "snapshot"
                         THEN {e \in disk.snaps : e.number # Candidate.number} \union {Candidate}
                         ELSE disk.snaps
      /\ disk'.frames = IF job.step = "frames" THEN CandidateRows ELSE disk.frames
  <2>1. CASE job.step = "snapshot"
    BY <1>1, <1>6, <2>1 DEF ProjectionInv, FilesTyped, Written
  <2>2. CASE job.step = "ledger"
    BY <1>1, <1>6, <2>2 DEF ProjectionInv, FilesTyped, Written
  <2>3. CASE job.step = "frames"
    BY <1>1, <1>6, <2>3 DEF ProjectionInv, FilesTyped, Written
  <2> QED
    BY <1>1, <2>1, <2>2, <2>3
<1>8. StagesMeet'
  BY <1>1, <1>2, <1>3, <1>4 DEF ProjectionInv, StagesMeet, Undoing
<1>9. TakenInOrder'
  BY <1>1, <1>2, <1>4 DEF ProjectionInv, TakenInOrder
<1>10. Accounted'
  BY <1>1 DEF ProjectionInv, Accounted
<1>11. HeldFits' /\ RecordFits' /\ DeclarationFits'
  BY <1>1, <1>7 DEF ProjectionInv, HeldFits, RecordFits, DeclarationFits
<1>12. FramesFit'
  BY <1>1, <1>6, <1>7 DEF ProjectionInv, FramesFit
<1>13. Candidate' = Candidate
  BY <1>1, <1>4 DEF Candidate, Current
<1>14. SnapshotsFit'
  <2>1. CASE job.step = "snapshot"
    <3>1. disk.snaps \subseteq ToSet(mem.ledger)
      BY <2>1 DEF ProjectionInv, SnapshotsFit
    <3>2. \A e \in disk.snaps : e.number # Candidate.number
      BY <1>2, <3>1, LedgerIs, CandidateIs, ProjectionNumbers
    <3>3. disk'.snaps = disk.snaps \union {Candidate}
      BY <1>7, <2>1, <3>2
    <3> QED
      BY <1>1, <1>3, <1>4, <1>13, <2>1, <3>1, <3>3 DEF ProjectionInv, SnapshotsFit
  <2>2. CASE job.step # "snapshot"
    BY <1>1, <1>3, <1>4, <1>7, <1>13, <2>2 DEF ProjectionInv, SnapshotsFit
  <2> QED
    BY <2>1, <2>2
<1>15. Faultless'
  BY <1>1, <1>2, <1>8, AfterPublicationIs DEF ProjectionInv, StagesMeet, Faultless
<1> QED
  BY <1>4, <1>5, <1>7, <1>8, <1>9, <1>10, <1>11, <1>12, <1>14, <1>15 DEF ProjectionInv

(* The ledger a publication commits has one entry more, its own. *)
LEMMA CandidateLedgerIs ==
  ASSUME ProjectionInv, job.step # "none"
  PROVE  /\ CandidateLedger \in Seq(Entry) /\ Len(CandidateLedger) = mem.count + 1
         /\ \A i \in 1 .. mem.count : CandidateLedger[i] = mem.ledger[i]
         /\ CandidateLedger[mem.count + 1] = Candidate
         /\ ToSet(CandidateLedger) = ToSet(mem.ledger) \union {Candidate}
<1>1. PICK l, n, c : l = mem.ledger /\ n = mem.count /\ c = Candidate
  OBVIOUS
<1>2. l \in Seq(Entry) /\ Len(l) = n /\ n \in Nat /\ c \in Entry
  BY <1>1, CandidateIs, ProjectionNumbers DEF ProjectionInv, Accounted
<1>3. PICK m : m = Append(l, c)
  OBVIOUS
<1>4. m \in Seq(Entry) /\ Len(m) = n + 1 /\ (\A i \in 1 .. n : m[i] = l[i]) /\ m[n + 1] = c
  BY <1>2, <1>3
<1>5. ToSet(m) = {m[i] : i \in 1 .. n + 1} /\ ToSet(l) = {l[i] : i \in 1 .. n}
  BY <1>2, <1>4 DEF ToSet
<1>6. 1 .. n + 1 = (1 .. n) \union {n + 1}
  BY <1>2
<1>7. ToSet(m) = ToSet(l) \union {c}
  BY <1>4, <1>5, <1>6
<1> QED
  BY <1>1, <1>3, <1>4, <1>7 DEF CandidateLedger

(* The declaration commits a publication. *)
LEMMA CommitProjects ==
  ASSUME ProjectionInv, Commit
  PROVE  ProjectionInv'
<1>1. /\ job.step = "declaration"
      /\ disk' = [disk EXCEPT !.declaration = {Candidate}]
      /\ mem' = [ count |-> Current, frontier |-> job.shot.tick,
                  rows |-> CandidateRows, ledger |-> CandidateLedger,
                  declared |-> {Candidate} ]
      /\ obs' = [obs EXCEPT !.last = job.shot, !.stage = AfterPublication]
      /\ job' = [job EXCEPT !.step = "none"]
      /\ UNCHANGED << world, late, record, held, faults >>
  BY DEF Commit, Written
<1>2. /\ AfterPublication \in {"polling", "aborted", "settled"}
      /\ AfterPublication = "settled" => obs.stage = "terminal"
      /\ AfterPublication = "aborted" => obs.wanted
      /\ record.stage = "open"
  BY <1>1, AfterPublicationIs
<1>3. /\ Candidate \in Entry /\ Candidate.number = mem.count + 1 /\ Candidate.shot = job.shot
      /\ Current = mem.count + 1 /\ Current \in Number /\ mem.count + 1 <= Rank(job.shot)
  BY <1>1, CandidateIs
<1>4. /\ CandidateLedger \in Seq(Entry) /\ Len(CandidateLedger) = mem.count + 1
      /\ \A i \in 1 .. mem.count : CandidateLedger[i] = mem.ledger[i]
      /\ CandidateLedger[mem.count + 1] = Candidate
      /\ ToSet(CandidateLedger) = ToSet(mem.ledger) \union {Candidate}
  BY <1>1, CandidateLedgerIs
<1>5. /\ InTicks(CandidateRows) /\ Len(CandidateRows) = job.shot.tick + 1
      /\ \A i \in 1 .. Len(mem.rows) : CandidateRows[i] = mem.rows[i]
      /\ \A i \in 1 .. Len(CandidateRows) :
           i > Len(mem.rows) => CandidateRows[i] = [tick |-> i - 1, source |-> mem.count + 1]
      /\ Len(mem.rows) <= Len(CandidateRows)
  BY <1>1, CandidateRowsAre
<1>6. /\ mem'.count = mem.count + 1 /\ mem'.frontier = job.shot.tick
      /\ mem'.rows = CandidateRows /\ mem'.ledger = CandidateLedger
      /\ mem'.declared = {Candidate}
  BY <1>1, <1>3
<1>7. obs'.last = job.shot /\ obs'.stage = AfterPublication /\ obs'.wanted = obs.wanted
  BY <1>1 DEF ProjectionInv, ObserverTyped
<1>8. job'.step = "none" /\ job'.shot = job.shot
  BY <1>1 DEF ProjectionInv, JobTyped
<1>9. disk'.declaration = {Candidate} /\ disk'.snaps = disk.snaps /\ disk'.frames = disk.frames
  BY <1>1 DEF ProjectionInv, FilesTyped
<1>10. WorldTyped' /\ LateTyped' /\ RecordTyped' /\ HeldTyped' /\ FaultsTyped'
  BY <1>1 DEF ProjectionInv, WorldTyped, LateTyped, RecordTyped, HeldTyped, FaultsTyped
<1>11. ObserverTyped'
  BY <1>1, <1>2, ProjectionNumbers DEF ProjectionInv, ObserverTyped
<1>12. MemoryTyped'
  BY ProjectionNumbers, <1>5, <1>1, <1>3, <1>4 DEF InTicks, MemoryTyped
<1>13. JobTyped' /\ FilesTyped'
  BY <1>1, <1>3 DEF ProjectionInv, JobTyped, FilesTyped
<1>14. StagesMeet'
  BY <1>1, <1>2, <1>7, <1>8 DEF ProjectionInv, StagesMeet, Undoing
<1>15. TakenInOrder'
  BY <1>1, <1>7, <1>8 DEF ProjectionInv, TakenInOrder
<1>16. Accounted'
  <2>1. PICK n, l, m, q, r, s : /\ n = mem.count /\ l = mem.ledger /\ m = CandidateLedger
                                /\ q = mem.rows /\ r = CandidateRows /\ s = job.shot
    OBVIOUS
  <2>2. n \in Nat /\ s.tick \in Int /\ s.tick >= 0 /\ s \in Shot
    BY <1>1, <2>1, ProjectionNumbers DEF ProjectionInv, TakenInOrder
  <2>3. /\ Len(m) = n + 1 /\ (\A i \in 1 .. n : m[i] = l[i])
        /\ m[n + 1].number = n + 1 /\ m[n + 1].shot = s
    BY <1>3, <1>4, <2>1
  <2>4. \A i \in 1 .. n : l[i].number = i /\ 0 <= l[i].shot.tick
    BY <2>1 DEF ProjectionInv, Accounted
  <2>5. \A i \in 1 .. n + 1 : m[i].number = i /\ 0 <= m[i].shot.tick
    <3> SUFFICES ASSUME NEW i \in 1 .. n + 1
                 PROVE  m[i].number = i /\ 0 <= m[i].shot.tick
      OBVIOUS
    <3>1. i \in 1 .. n \/ i = n + 1
      BY <2>2
    <3> QED
      BY <2>2, <2>3, <2>4, <3>1
  <2>6. /\ \A i \in 1 .. Len(q) : q[i].source \in 1 .. n /\ q[i].tick <= l[q[i].source].shot.tick
        /\ q \in Seq(Row)
    BY <2>1 DEF ProjectionInv, Accounted, InTicks
  <2>7. \A i \in 1 .. Len(r) : r[i].source \in 1 .. n + 1 /\ r[i].tick <= m[r[i].source].shot.tick
    <3> SUFFICES ASSUME NEW i \in 1 .. Len(r)
                 PROVE  r[i].source \in 1 .. n + 1 /\ r[i].tick <= m[r[i].source].shot.tick
      OBVIOUS
    <3>1. Len(r) = s.tick + 1 /\ Len(q) \in Nat
      BY <1>5, <2>1, <2>6
    <3>2. CASE i <= Len(q)
      <4>1. i \in 1 .. Len(q)
        BY <3>1, <3>2, <2>2
      <4>2. r[i] = q[i]
        BY <1>5, <2>1, <4>1
      <4>3. q[i].source \in 1 .. n /\ q[i].tick <= l[q[i].source].shot.tick
        BY <2>6, <4>1
      <4> QED
        BY <2>2, <2>3, <4>2, <4>3
    <3>3. CASE i > Len(q)
      <4>1. r[i] = [tick |-> i - 1, source |-> n + 1]
        BY <1>5, <2>1, <3>3
      <4> QED
        BY <2>2, <2>3, <3>1, <4>1
    <3> QED
      BY <3>1, <3>2, <3>3, <2>2
  <2>8. /\ mem'.count = n + 1 /\ mem'.ledger = m /\ mem'.rows = r /\ obs'.last = s
        /\ mem'.frontier = s.tick /\ mem'.declared = {m[n + 1]}
    BY <1>4, <1>6, <1>7, <2>1
  <2>9. n + 1 # 0 /\ n + 1 <= Rank(s) /\ InTicks(r) /\ Len(r) = s.tick + 1
    BY <1>3, <1>5, <2>1, <2>2
  <2> QED
    BY <2>3, <2>5, <2>7, <2>8, <2>9 DEF Accounted, InTicks
<1>17. HeldFits' /\ RecordFits'
  BY <1>1, <1>2, <1>4, <1>6 DEF ProjectionInv, HeldFits, RecordFits
<1>18. DeclarationFits' /\ FramesFit'
  BY <1>1, <1>2, <1>6, <1>9 DEF ProjectionInv, DeclarationFits, FramesFit
<1>19. SnapshotsFit'
  BY <1>1, <1>4, <1>6, <1>8, <1>9 DEF ProjectionInv, SnapshotsFit
<1>20. Faultless'
  BY <1>1, <1>2, <1>7 DEF ProjectionInv, StagesMeet, TakenInOrder, NoLater,
     Faultless
<1> QED
  BY <1>10, <1>11, <1>12, <1>13, <1>14, <1>15, <1>16, <1>17, <1>18, <1>19, <1>20
  DEF ProjectionInv

(* A write that fails begins the undoing. *)
LEMMA WriteFailsProjects ==
  ASSUME ProjectionInv, WriteFails
  PROVE  ProjectionInv'
<1>1. /\ job.step \in {"snapshot", "ledger", "frames", "declaration"}
      /\ job' = [job EXCEPT !.step = "undo"]
      /\ UNCHANGED << world, obs, mem, disk, late, record, held >>
      /\ faults' \in 0 .. MaxFaults /\ faults' > 0
  BY FailsCounts DEF WriteFails
<1>2. job'.step = "undo" /\ job'.shot = job.shot /\ JobTyped'
  BY <1>1 DEF ProjectionInv, JobTyped
<1>3. /\ WorldTyped' /\ ObserverTyped' /\ MemoryTyped' /\ FilesTyped' /\ LateTyped'
      /\ RecordTyped' /\ HeldTyped' /\ FaultsTyped'
  BY <1>1 DEF ProjectionInv, WorldTyped, ObserverTyped, MemoryTyped, FilesTyped, LateTyped,
              RecordTyped, HeldTyped, FaultsTyped
<1>4. StagesMeet' /\ TakenInOrder'
  BY <1>1, <1>2 DEF ProjectionInv, StagesMeet, TakenInOrder
<1>5. Accounted'
  BY <1>1 DEF ProjectionInv, Accounted
<1>6. FramesFit' /\ DeclarationFits' /\ HeldFits' /\ RecordFits'
  BY <1>1 DEF ProjectionInv, FramesFit, DeclarationFits, HeldFits, RecordFits
<1>7. Candidate' = Candidate
  BY <1>1, <1>2 DEF Candidate, Current
<1>8. SnapshotsFit'
  BY <1>1, <1>2, <1>7 DEF ProjectionInv, SnapshotsFit
<1>9. Faultless'
  BY <1>1 DEF Faultless
<1> QED
  BY <1>2, <1>3, <1>4, <1>5, <1>6, <1>8, <1>9 DEF ProjectionInv

(* The snapshot of the publication that failed is removed. *)
LEMMA UndoProjects ==
  ASSUME ProjectionInv, Undo
  PROVE  ProjectionInv'
<1>1. /\ job.step = "undo"
      /\ disk' = [disk EXCEPT !.snaps = {e \in disk.snaps : e.number # Current}]
      /\ job' = [job EXCEPT !.step = "undoFiles"]
      /\ UNCHANGED << world, obs, mem, late, record, held, faults >>
  BY DEF Undo
<1>2. job'.step = "undoFiles" /\ job'.shot = job.shot /\ JobTyped'
  BY <1>1 DEF ProjectionInv, JobTyped
<1>3. /\ disk'.snaps = {e \in disk.snaps : e.number # Current}
      /\ disk'.frames = disk.frames /\ disk'.declaration = disk.declaration
      /\ disk'.ledger = disk.ledger /\ FilesTyped'
  BY <1>1 DEF ProjectionInv, FilesTyped
<1>4. /\ WorldTyped' /\ ObserverTyped' /\ MemoryTyped' /\ LateTyped'
      /\ RecordTyped' /\ HeldTyped' /\ FaultsTyped'
  BY <1>1 DEF ProjectionInv, WorldTyped, ObserverTyped, MemoryTyped, LateTyped,
              RecordTyped, HeldTyped, FaultsTyped
<1>5. StagesMeet' /\ TakenInOrder'
  BY <1>1, <1>2 DEF ProjectionInv, StagesMeet, TakenInOrder, Undoing
<1>6. Accounted'
  BY <1>1 DEF ProjectionInv, Accounted
<1>7. FramesFit' /\ DeclarationFits' /\ HeldFits' /\ RecordFits'
  BY <1>1, <1>3 DEF ProjectionInv, FramesFit, DeclarationFits, HeldFits, RecordFits
<1>8. SnapshotsFit'
  <2>1. Candidate.number = Current /\ Current = mem.count + 1
    BY <1>1, CandidateIs
  <2>2. \A e \in ToSet(mem.ledger) : e.number # Current
    BY <2>1, LedgerIs, ProjectionNumbers
  <2>3. disk'.snaps \subseteq ToSet(mem.ledger)
    BY <1>3, <2>1 DEF ProjectionInv, SnapshotsFit
  <2> QED
    BY <1>1, <1>2, <1>3, <2>2, <2>3 DEF ProjectionInv, SnapshotsFit
<1>9. Faultless'
  BY <1>1, <1>3 DEF ProjectionInv, Faultless
<1> QED
  BY <1>2, <1>3, <1>4, <1>5, <1>6, <1>7, <1>8, <1>9 DEF ProjectionInv

(* A publication that ends without committing leaves memory as it was. *)
LEMMA PublicationGivenUp ==
  ASSUME ProjectionInv, job.step \in Undoing,
         job' = [job EXCEPT !.step = "none"],
         obs' = [obs EXCEPT !.stage = AfterPublication],
         UNCHANGED << world, mem, late, record, held >>,
         faults' \in 0 .. MaxFaults, faults' > 0,
         FilesTyped', FramesFit', disk'.declaration \subseteq mem.declared,
         disk'.snaps = disk.snaps, job.step # "undo"
  PROVE  ProjectionInv'
<1>1. job.step \in {"undoFiles", "undoDeclaration"} /\ job.step # "none"
  BY DEF Undoing
<1>2. /\ AfterPublication \in {"polling", "aborted", "settled"}
      /\ AfterPublication = "settled" => obs.stage = "terminal"
      /\ AfterPublication = "aborted" => obs.wanted
      /\ record.stage = "open"
  BY <1>1, AfterPublicationIs
<1>3. job'.step = "none" /\ job'.shot = job.shot /\ JobTyped'
  BY DEF ProjectionInv, JobTyped
<1>4. /\ obs'.last = obs.last /\ obs'.stage = AfterPublication /\ obs'.wanted = obs.wanted
      /\ ObserverTyped'
  BY <1>2 DEF ProjectionInv, ObserverTyped
<1>5. /\ WorldTyped' /\ MemoryTyped' /\ LateTyped'
      /\ RecordTyped' /\ HeldTyped' /\ FaultsTyped'
  BY DEF ProjectionInv, WorldTyped, MemoryTyped, LateTyped, RecordTyped, HeldTyped, FaultsTyped
<1>6. StagesMeet' /\ TakenInOrder'
  BY <1>2, <1>3, <1>4 DEF ProjectionInv, StagesMeet, TakenInOrder, Undoing
<1>7. Accounted'
  BY <1>4 DEF ProjectionInv, Accounted
<1>8. DeclarationFits' /\ HeldFits' /\ RecordFits'
  BY <1>2 DEF ProjectionInv, DeclarationFits, HeldFits, RecordFits
<1>9. SnapshotsFit'
  BY <1>1, <1>3 DEF ProjectionInv, SnapshotsFit
<1>10. Faultless'
  BY DEF Faultless
<1> QED
  BY <1>3, <1>4, <1>5, <1>6, <1>7, <1>8, <1>9, <1>10 DEF ProjectionInv

(* The first publication is undone whole. *)
LEMMA UndoFirstProjects ==
  ASSUME ProjectionInv, UndoFirst
  PROVE  ProjectionInv'
<1>1. /\ job.step = "undoFiles"
      /\ disk' = [NoFiles EXCEPT !.snaps = disk.snaps]
      /\ job' = [job EXCEPT !.step = "none"]
      /\ obs' = [obs EXCEPT !.stage = AfterPublication]
      /\ UNCHANGED << world, mem, late, record, held, faults >>
  BY DEF UndoFirst
<1>2. /\ disk'.snaps = disk.snaps /\ disk'.ledger = << >> /\ disk'.frames = << >>
      /\ disk'.declaration = {}
  BY <1>1 DEF NoFiles
<1>3. FilesTyped'
  <2>1. disk' = [snaps |-> disk.snaps, ledger |-> << >>, frames |-> << >>, declaration |-> {}]
    BY <1>1 DEF NoFiles
  <2>2. disk.snaps \in SUBSET Entry
    BY DEF ProjectionInv, FilesTyped
  <2> QED
    BY <2>1, <2>2 DEF FilesTyped
<1>4. FramesFit'
  <2>1. InTicks(<< >>)
    BY DEF InTicks
  <2> QED
    BY <1>1, <1>2, <2>1 DEF ProjectionInv, FramesFit
<1>5. faults' \in 0 .. MaxFaults /\ faults' > 0
  BY <1>1 DEF ProjectionInv, FaultsTyped, StagesMeet, Undoing
<1> QED
  BY <1>1, <1>2, <1>3, <1>4, <1>5, PublicationGivenUp DEF Undoing

(* Ledger and frames are written back, or will be later. *)
LEMMA UndoFilesProjects ==
  ASSUME ProjectionInv, UndoFiles
  PROVE  ProjectionInv'
<1>1. /\ job.step = "undoFiles"
      /\ job' = [job EXCEPT !.step = "undoDeclaration"]
      /\ UNCHANGED << world, obs, mem, record, held >>
  BY DEF UndoFiles
<1>2. PICK l, r, back :
        /\ disk' = [disk EXCEPT !.ledger = l, !.frames = r]
        /\ l \in {mem.ledger, disk.ledger} /\ r \in {mem.rows, disk.frames}
        /\ late' = late \union back
        /\ back \subseteq {[file |-> f, rows |-> mem.rows, ledger |-> mem.ledger] :
                              f \in {"ledger", "frames"}}
        /\ UNCHANGED faults \/ Fails
  <2>1. PICK o \in [{"ledger", "frames"} -> {"done", "failed", "late"}] :
          /\ IF \A f \in DOMAIN o : o[f] = "done" THEN UNCHANGED faults
             ELSE /\ \E f \in DOMAIN o : o[f] = "failed"
                  /\ Fails
          /\ disk' = [disk EXCEPT
                !.ledger = IF o["ledger"] = "done" THEN mem.ledger ELSE @,
                !.frames = IF o["frames"] = "done" THEN mem.rows ELSE @]
          /\ late' = late \union
                {[file |-> f, rows |-> mem.rows, ledger |-> mem.ledger] :
                    f \in {g \in DOMAIN o : o[g] = "late"}}
    BY DEF UndoFiles
  <2>2. {g \in DOMAIN o : o[g] = "late"} \subseteq {"ledger", "frames"}
    OBVIOUS
  <2>3. UNCHANGED faults \/ Fails
    BY <2>1
  <2>4. PICK back : back = {[file |-> f, rows |-> mem.rows, ledger |-> mem.ledger] :
                              f \in {g \in DOMAIN o : o[g] = "late"}}
    OBVIOUS
  <2>5. back \subseteq {[file |-> f, rows |-> mem.rows, ledger |-> mem.ledger] :
                              f \in {"ledger", "frames"}}
    BY <2>2, <2>4
  <2>6. late' = late \union back
    BY <2>1, <2>4
  <2>7. PICK l, r : /\ l = (IF o["ledger"] = "done" THEN mem.ledger ELSE disk.ledger)
                    /\ r = (IF o["frames"] = "done" THEN mem.rows ELSE disk.frames)
    OBVIOUS
  <2>8. disk' = [disk EXCEPT !.ledger = l, !.frames = r]
    BY <2>1, <2>7 DEF ProjectionInv, FilesTyped
  <2>9. l \in {mem.ledger, disk.ledger} /\ r \in {mem.rows, disk.frames}
    BY <2>7
  <2> QED
    BY <2>3, <2>5, <2>6, <2>8, <2>9
<1>3. faults' \in 0 .. MaxFaults /\ faults' > 0
  BY <1>1, <1>2, FailsCounts DEF ProjectionInv, FaultsTyped, StagesMeet,
     Undoing
<1>4. job'.step = "undoDeclaration" /\ job'.shot = job.shot /\ JobTyped'
  BY <1>1 DEF ProjectionInv, JobTyped
<1>5. /\ mem.ledger \in Seq(Entry) /\ mem.rows \in Seq(Row) /\ InTicks(mem.rows)
      /\ disk.ledger \in Seq(Entry) /\ disk.frames \in Seq(Row) /\ InTicks(disk.frames)
  BY ProjectionNumbers DEF ProjectionInv, FilesTyped, FramesFit, Accounted
<1>6. /\ disk'.snaps = disk.snaps /\ disk'.declaration = disk.declaration
      /\ disk'.frames = r /\ FilesTyped'
  BY <1>2, <1>5 DEF ProjectionInv, FilesTyped
<1>7. \A w \in back : /\ w \in [file : {"ledger", "frames"}, rows : Seq(Row), ledger : Seq(Entry)]
                      /\ w.rows = mem.rows
  BY <1>2, <1>5
<1>8. LateTyped'
  BY <1>2, <1>7 DEF ProjectionInv, LateTyped
<1>9. FramesFit'
  BY <1>2, <1>5, <1>6, <1>7 DEF ProjectionInv, FramesFit
<1>10. /\ WorldTyped' /\ ObserverTyped' /\ MemoryTyped'
       /\ RecordTyped' /\ HeldTyped' /\ FaultsTyped'
  BY <1>1, <1>3 DEF ProjectionInv, WorldTyped, ObserverTyped, MemoryTyped,
                    RecordTyped, HeldTyped, FaultsTyped
<1>11. StagesMeet' /\ TakenInOrder'
  BY <1>1, <1>3, <1>4 DEF ProjectionInv, StagesMeet, TakenInOrder, Undoing
<1>12. Accounted'
  BY <1>1 DEF ProjectionInv, Accounted
<1>13. DeclarationFits' /\ HeldFits' /\ RecordFits'
  BY <1>1, <1>6 DEF ProjectionInv, DeclarationFits, HeldFits, RecordFits
<1>14. SnapshotsFit'
  BY <1>1, <1>4, <1>6 DEF ProjectionInv, SnapshotsFit
<1>15. Faultless'
  BY <1>3 DEF Faultless
<1> QED
  BY <1>4, <1>6, <1>8, <1>9, <1>10, <1>11, <1>12, <1>13, <1>14, <1>15 DEF ProjectionInv

(* The declaration is written back last. *)
LEMMA UndoDeclarationProjects ==
  ASSUME ProjectionInv, UndoDeclaration
  PROVE  ProjectionInv'
<1>1. /\ job.step = "undoDeclaration"
      /\ job' = [job EXCEPT !.step = "none"]
      /\ obs' = [obs EXCEPT !.stage = AfterPublication]
      /\ UNCHANGED << world, mem, late, record, held >>
      /\ \/ disk' = [disk EXCEPT !.declaration = mem.declared] /\ UNCHANGED faults
         \/ Fails /\ UNCHANGED disk
  BY DEF UndoDeclaration
<1>2. faults' \in 0 .. MaxFaults /\ faults' > 0
  BY <1>1, FailsCounts DEF ProjectionInv, FaultsTyped, StagesMeet, Undoing
<1>3. mem.declared \in SUBSET Entry
  BY DEF ProjectionInv, MemoryTyped
<1>4. /\ FilesTyped' /\ disk'.snaps = disk.snaps /\ disk'.frames = disk.frames
      /\ disk'.declaration \subseteq mem.declared
  <2>1. CASE disk' = [disk EXCEPT !.declaration = mem.declared]
    BY <1>3, <2>1 DEF ProjectionInv, FilesTyped
  <2>2. CASE UNCHANGED disk
    BY <2>2 DEF ProjectionInv, FilesTyped, DeclarationFits
  <2> QED
    BY <1>1, <2>1, <2>2
<1>5. FramesFit'
  BY <1>1, <1>4 DEF ProjectionInv, FramesFit
<1> QED
  BY <1>1, <1>2, <1>4, <1>5, PublicationGivenUp DEF Undoing

(* A write nobody waited for still writes what was committed. *)
LEMMA LateWriteProjects ==
  ASSUME ProjectionInv, NEW w \in late, LateWrite(w)
  PROVE  ProjectionInv'
<1>1. /\ late' = late \ {w}
      /\ UNCHANGED << world, obs, mem, job, held, faults >>
      /\ \/ disk' = disk
         \/ disk' = [disk EXCEPT !.ledger = w.ledger]
         \/ disk' = [disk EXCEPT !.frames = w.rows]
  BY DEF LateWrite
<1>2. faults > 0 /\ w.ledger \in Seq(Entry) /\ w.rows \in Seq(Row) /\ InTicks(w.rows)
  BY DEF ProjectionInv, StagesMeet, LateTyped, FramesFit
<1>3. /\ FilesTyped' /\ disk'.snaps = disk.snaps /\ disk'.declaration = disk.declaration
      /\ disk'.frames \in {disk.frames, w.rows}
  <2>1. CASE disk' = disk
    BY <2>1 DEF ProjectionInv, FilesTyped
  <2>2. CASE disk' = [disk EXCEPT !.ledger = w.ledger]
    BY <1>2, <2>2 DEF ProjectionInv, FilesTyped
  <2>3. CASE disk' = [disk EXCEPT !.frames = w.rows]
    BY <1>2, <2>3 DEF ProjectionInv, FilesTyped
  <2> QED
    BY <1>1, <2>1, <2>2, <2>3
<1>4. /\ WorldTyped' /\ ObserverTyped' /\ MemoryTyped' /\ JobTyped' /\ LateTyped'
      /\ HeldTyped' /\ FaultsTyped'
  BY <1>1 DEF ProjectionInv, WorldTyped, ObserverTyped, MemoryTyped, JobTyped, LateTyped,
              HeldTyped, FaultsTyped
<1>11. /\ record'.stage = record.stage /\ record'.ledger = record.ledger
       /\ record'.rows = record.rows /\ record'.snaps = record.snaps /\ RecordTyped'
  BY DEF ProjectionInv, LateTyped, LateWrite, RecordTyped
<1>5. StagesMeet' /\ TakenInOrder'
  BY <1>1, <1>11 DEF ProjectionInv, StagesMeet, TakenInOrder
<1>6. Accounted'
  BY <1>1 DEF ProjectionInv, Accounted
<1>7. FramesFit'
  BY <1>1, <1>2, <1>3 DEF ProjectionInv, FramesFit
<1>8. DeclarationFits' /\ HeldFits' /\ RecordFits'
  BY <1>1, <1>3, <1>11 DEF ProjectionInv, DeclarationFits, HeldFits, RecordFits
<1>9. SnapshotsFit'
  BY <1>1, <1>3, <1>11 DEF ProjectionInv, SnapshotsFit, Candidate, Current
<1>10. Faultless'
  BY <1>1, <1>2, ProjectionNumbers DEF Faultless
<1> QED
  BY <1>3, <1>4, <1>5, <1>6, <1>7, <1>8, <1>9, <1>10, <1>11 DEF ProjectionInv

(* The declaration goes before what it names. *)
LEMMA FinalizeProjects ==
  ASSUME ProjectionInv, Finalize
  PROVE  ProjectionInv'
<1>1. /\ obs.stage = "settled" /\ record.stage = "open"
      /\ disk' = [disk EXCEPT !.declaration = {}]
      /\ record' = [record EXCEPT !.stage = "removing"]
      /\ UNCHANGED << world, obs, mem, job, late, held, faults >>
  BY DEF Finalize
<1>2. /\ record'.stage = "removing" /\ record'.ledger = record.ledger /\ RecordTyped'
      /\ record.ledger = << >>
  BY <1>1 DEF ProjectionInv, RecordTyped, RecordFits
<1>3. /\ disk'.snaps = disk.snaps /\ disk'.frames = disk.frames /\ disk'.declaration = {}
      /\ FilesTyped'
  BY <1>1 DEF ProjectionInv, FilesTyped
<1>4. /\ WorldTyped' /\ ObserverTyped' /\ MemoryTyped' /\ JobTyped' /\ LateTyped'
      /\ HeldTyped' /\ FaultsTyped'
  BY <1>1 DEF ProjectionInv, WorldTyped, ObserverTyped, MemoryTyped, JobTyped, LateTyped,
              HeldTyped, FaultsTyped
<1>5. StagesMeet' /\ TakenInOrder'
  BY <1>1, <1>2 DEF ProjectionInv, StagesMeet, TakenInOrder
<1>6. Accounted'
  BY <1>1 DEF ProjectionInv, Accounted
<1>7. FramesFit' /\ DeclarationFits' /\ HeldFits' /\ RecordFits'
  BY <1>1, <1>2, <1>3 DEF ProjectionInv, FramesFit, DeclarationFits, HeldFits, RecordFits
<1>8. SnapshotsFit'
  BY <1>1, <1>2, <1>3 DEF ProjectionInv, SnapshotsFit, Candidate, Current
<1>9. Faultless'
  BY <1>1, <1>2 DEF ProjectionInv, Faultless
<1> QED
  BY <1>2, <1>3, <1>4, <1>5, <1>6, <1>7, <1>8, <1>9 DEF ProjectionInv

(* Once the observer has settled without a failure, something was          *)
(* committed.                                                               *)
LEMMA SettledCommitted ==
  ASSUME ProjectionInv, faults = 0, obs.stage = "settled", record.stage # "aborted"
  PROVE  mem.count > 0 /\ obs.last = world
<1>1. obs.last = world
  BY DEF ProjectionInv, Faultless
<1>2. obs.last # Nothing
  BY <1>1, ProjectionNumbers DEF Nothing
<1> QED
  BY <1>1, <1>2, ProjectionNumbers DEF ProjectionInv, Accounted

(* The live files go. *)
LEMMA RemoveTransientFilesProjects ==
  ASSUME ProjectionInv, RemoveTransientFiles
  PROVE  ProjectionInv'
<1>1. /\ record.stage = "removing" /\ disk' = NoFiles
      /\ record' = [record EXCEPT !.stage = IF mem.count = 0 THEN "ready" ELSE "writing"]
      /\ UNCHANGED << world, obs, mem, job, late, held, faults >>
  BY DEF RemoveTransientFiles
<1>2. /\ record'.stage = (IF mem.count = 0 THEN "ready" ELSE "writing")
      /\ record'.ledger = record.ledger /\ record'.rows = record.rows
      /\ record'.snaps = record.snaps /\ RecordTyped'
  BY <1>1 DEF ProjectionInv, RecordTyped
<1>3. obs.stage = "settled" /\ job.step = "none"
  BY <1>1 DEF ProjectionInv, StagesMeet
<1>4. disk'.snaps = {} /\ disk'.ledger = << >> /\ disk'.frames = << >> /\ disk'.declaration = {}
  BY <1>1 DEF NoFiles
<1>5. FilesTyped'
  BY <1>1 DEF FilesTyped, NoFiles
<1>6. /\ WorldTyped' /\ ObserverTyped' /\ MemoryTyped' /\ JobTyped' /\ LateTyped'
      /\ HeldTyped' /\ FaultsTyped'
  BY <1>1 DEF ProjectionInv, WorldTyped, ObserverTyped, MemoryTyped, JobTyped, LateTyped,
              HeldTyped, FaultsTyped
<1>7. StagesMeet' /\ TakenInOrder'
  BY <1>1, <1>2, <1>3 DEF ProjectionInv, StagesMeet, TakenInOrder
<1>8. Accounted'
  BY <1>1 DEF ProjectionInv, Accounted
<1>9. FramesFit'
  BY <1>1, <1>4 DEF InTicks, ProjectionInv, FramesFit
<1>10. DeclarationFits' /\ HeldFits' /\ RecordFits'
  BY <1>1, <1>2, <1>4 DEF ProjectionInv, DeclarationFits, HeldFits, RecordFits
<1>11. SnapshotsFit'
  BY <1>1, <1>2, <1>3, <1>4 DEF SnapshotsFit
<1>12. Faultless'
  BY <1>1, <1>3, SettledCommitted, <1>2, <1>4 DEF ProjectionInv, Faultless
<1> QED
  BY <1>2, <1>5, <1>6, <1>7, <1>8, <1>9, <1>10, <1>11, <1>12 DEF ProjectionInv

(* What was committed is recorded, or nothing. *)
LEMMA WriteArtifactsProjects ==
  ASSUME ProjectionInv, WriteArtifacts
  PROVE  ProjectionInv'
<1>1. /\ record.stage = "writing"
      /\ UNCHANGED << world, obs, mem, job, late, held >>
  BY DEF WriteArtifacts
<1>2. obs.stage = "settled" /\ job.step = "none"
  BY <1>1 DEF ProjectionInv, StagesMeet
<1>3. /\ WorldTyped' /\ ObserverTyped' /\ MemoryTyped' /\ JobTyped' /\ LateTyped' /\ HeldTyped'
  BY <1>1 DEF ProjectionInv, WorldTyped, ObserverTyped, MemoryTyped, JobTyped, LateTyped,
              HeldTyped
<1>4. TakenInOrder' /\ Accounted' /\ HeldFits'
  BY <1>1 DEF ProjectionInv, TakenInOrder, Accounted, HeldFits
<1>5. /\ mem.ledger \in Seq(Entry) /\ mem.rows \in Seq(Row) /\ InTicks(mem.rows)
      /\ ToSet(mem.ledger) \subseteq Entry
  BY LedgerIs, ProjectionNumbers DEF ProjectionInv, Accounted
<1>6. CASE /\ record' = Recorded /\ UNCHANGED faults
           /\ disk' = [disk EXCEPT !.ledger = mem.ledger, !.frames = mem.rows,
                                   !.snaps = ToSet(mem.ledger)]
  <2>1. /\ record'.stage = "ready" /\ record'.ledger = mem.ledger /\ record'.rows = mem.rows
        /\ record'.snaps = ToSet(mem.ledger) /\ RecordTyped'
    BY <1>5, <1>6 DEF Recorded, RecordTyped
  <2>2. /\ disk'.snaps = ToSet(mem.ledger) /\ disk'.ledger = mem.ledger /\ disk'.frames = mem.rows
        /\ disk'.declaration = disk.declaration /\ FilesTyped'
    BY <1>5, <1>6 DEF ProjectionInv, FilesTyped
  <2>3. FaultsTyped'
    BY <1>6 DEF ProjectionInv, FaultsTyped
  <2>4. StagesMeet'
    BY <1>1, <1>2, <1>6, <2>1 DEF ProjectionInv, StagesMeet
  <2>5. DeclarationFits' /\ FramesFit' /\ RecordFits'
    BY <1>1, <1>5, <2>1, <2>2 DEF ProjectionInv, DeclarationFits, FramesFit, RecordFits
  <2>6. SnapshotsFit'
    BY <1>1, <1>2, <2>1, <2>2 DEF SnapshotsFit
  <2>7. Faultless'
    BY <1>1, <1>2, SettledCommitted, <1>6, <2>1 DEF ProjectionInv, Faultless
  <2> QED
    BY <1>3, <1>4, <2>1, <2>2, <2>3, <2>4, <2>5, <2>6, <2>7 DEF ProjectionInv
<1>7. CASE /\ record' = [record EXCEPT !.stage = "ready"] /\ UNCHANGED disk
           /\ \/ (disk.ledger # << >> \/ disk.frames # << >>) /\ UNCHANGED faults
              \/ Fails
  <2>1. /\ record'.stage = "ready" /\ record'.ledger = record.ledger
        /\ record'.rows = record.rows /\ record'.snaps = record.snaps /\ RecordTyped'
    BY <1>7 DEF ProjectionInv, RecordTyped
  <2>2. FaultsTyped' /\ faults' > 0
    <3>1. CASE Fails
      BY <3>1, FailsCounts DEF FaultsTyped
    <3>2. CASE (disk.ledger # << >> \/ disk.frames # << >>) /\ UNCHANGED faults
      BY <1>1, <3>2, ProjectionNumbers DEF ProjectionInv, FaultsTyped, Faultless
    <3> QED
      BY <1>7, <3>1, <3>2
  <2>3. FilesTyped'
    BY <1>7 DEF ProjectionInv, FilesTyped
  <2>4. StagesMeet'
    BY <1>1, <1>2, <2>1, <2>2 DEF ProjectionInv, StagesMeet, Undoing
  <2>5. DeclarationFits' /\ FramesFit' /\ RecordFits'
    BY <1>1, <1>7, <2>1 DEF ProjectionInv, DeclarationFits, FramesFit, RecordFits
  <2>6. SnapshotsFit'
    BY <1>1, <1>2, <1>7, <2>1 DEF ProjectionInv, SnapshotsFit
  <2>7. Faultless'
    BY <2>2 DEF Faultless
  <2> QED
    BY <1>3, <1>4, <2>1, <2>2, <2>3, <2>4, <2>5, <2>6, <2>7 DEF ProjectionInv
<1> QED
  BY <1>6, <1>7 DEF WriteArtifacts

(* A seal hashes and closes the record as it is. *)
LEMMA SealRunProjects ==
  ASSUME ProjectionInv, HashArtifacts \/ SealRun
  PROVE  ProjectionInv'
<1>1. /\ record.stage \in {"ready", "hashed"}
      /\ \E stage \in {"hashed", "sealed", "failed"} : record' = [record EXCEPT !.stage = stage]
      /\ UNCHANGED << world, obs, mem, job, disk, late, held, faults >>
  BY DEF HashArtifacts, SealRun
<1>2. /\ record'.stage \in {"hashed", "sealed", "failed"} /\ record'.ledger = record.ledger
      /\ record'.rows = record.rows /\ record'.snaps = record.snaps /\ RecordTyped'
  BY <1>1 DEF ProjectionInv, RecordTyped
<1>3. /\ WorldTyped' /\ ObserverTyped' /\ MemoryTyped' /\ JobTyped' /\ FilesTyped' /\ LateTyped'
      /\ HeldTyped' /\ FaultsTyped'
  BY <1>1 DEF ProjectionInv, WorldTyped, ObserverTyped, MemoryTyped, JobTyped, FilesTyped,
              LateTyped, HeldTyped, FaultsTyped
<1>4. StagesMeet' /\ TakenInOrder'
  BY <1>1, <1>2 DEF ProjectionInv, StagesMeet, TakenInOrder
<1>5. Accounted'
  BY <1>1 DEF ProjectionInv, Accounted
<1>6. FramesFit' /\ DeclarationFits' /\ HeldFits' /\ RecordFits'
  BY <1>1, <1>2 DEF ProjectionInv, FramesFit, DeclarationFits, HeldFits, RecordFits
<1>7. SnapshotsFit'
  BY <1>1, <1>2 DEF ProjectionInv, SnapshotsFit, Candidate, Current
<1>8. Faultless'
  BY <1>1, <1>2 DEF ProjectionInv, Faultless
<1> QED
  BY <1>2, <1>3, <1>4, <1>5, <1>6, <1>7, <1>8 DEF ProjectionInv

(* A discarded run leaves nothing. *)
LEMMA AbortRunProjects ==
  ASSUME ProjectionInv, AbortRun
  PROVE  ProjectionInv'
<1>1. /\ obs.stage \in {"polling", "settled"} /\ record.stage = "open"
      /\ record' = [record EXCEPT !.stage = "aborted"]
      /\ obs' = [obs EXCEPT !.stage = "settled"] /\ disk' = NoFiles
      /\ UNCHANGED << world, mem, job, late, held, faults >>
  BY DEF AbortRun
<1>2. /\ record'.stage = "aborted" /\ record'.ledger = record.ledger
      /\ record'.rows = record.rows /\ record'.snaps = record.snaps /\ RecordTyped'
      /\ record.ledger = << >>
  BY <1>1 DEF ProjectionInv, RecordTyped, RecordFits
<1>3. /\ obs'.last = obs.last /\ obs'.stage = "settled" /\ obs'.wanted = obs.wanted
      /\ ObserverTyped'
  BY <1>1 DEF ProjectionInv, ObserverTyped
<1>4. job.step = "none"
  BY <1>1 DEF ProjectionInv, StagesMeet
<1>5. disk'.snaps = {} /\ disk'.ledger = << >> /\ disk'.frames = << >> /\ disk'.declaration = {}
  BY <1>1 DEF NoFiles
<1>6. FilesTyped'
  BY <1>1 DEF FilesTyped, NoFiles
<1>7. /\ WorldTyped' /\ MemoryTyped' /\ JobTyped' /\ LateTyped' /\ HeldTyped' /\ FaultsTyped'
  BY <1>1 DEF ProjectionInv, WorldTyped, MemoryTyped, JobTyped, LateTyped, HeldTyped, FaultsTyped
<1>8. StagesMeet' /\ TakenInOrder'
  BY <1>1, <1>2, <1>3, <1>4 DEF ProjectionInv, StagesMeet, TakenInOrder
<1>9. Accounted'
  BY <1>1, <1>3 DEF ProjectionInv, Accounted
<1>10. FramesFit'
  BY <1>1, <1>5 DEF InTicks, ProjectionInv, FramesFit
<1>11. DeclarationFits' /\ HeldFits' /\ RecordFits'
  BY <1>1, <1>2, <1>5 DEF ProjectionInv, DeclarationFits, HeldFits, RecordFits
<1>12. SnapshotsFit'
  BY <1>1, <1>2, <1>4, <1>5 DEF SnapshotsFit
<1>13. Faultless'
  BY <1>2 DEF Faultless
<1> QED
  BY <1>2, <1>3, <1>6, <1>7, <1>8, <1>9, <1>10, <1>11, <1>12, <1>13 DEF ProjectionInv

(* A reader holds what was declared. *)
LEMMA ReadsProject ==
  ASSUME ProjectionInv, ReadDeclaration \/ ReadSnapshot
  PROVE  ProjectionInv'
<1>1. /\ held' = disk.declaration \/ held' = {}
      /\ UNCHANGED << world, obs, mem, job, disk, late, record, faults >>
  BY DEF ReadDeclaration, ReadSnapshot
<1>2. /\ mem.declared \subseteq ToSet(mem.ledger)
      /\ mem.declared = {} \/ \E e : mem.declared = {e}
  <2>1. mem.count # 0 => mem.ledger[mem.count] \in ToSet(mem.ledger)
    <3>1. mem.count # 0 => mem.count \in 1 .. mem.count
      BY ProjectionNumbers
    <3> QED
      BY <3>1, LedgerIs
  <2> QED
    BY <2>1 DEF ProjectionInv, Accounted
<1>3. /\ held' \subseteq ToSet(mem.ledger)
      /\ held' = {} \/ \E e : held' = {e}
  BY <1>1, <1>2 DEF ProjectionInv, DeclarationFits
<1>4. HeldTyped'
  <2>1. held' \subseteq Entry
    BY <1>3, LedgerIs
  <2>2. CASE held' = {}
    BY <2>1, <2>2, FS_EmptySet DEF HeldTyped
  <2>3. CASE \E e : held' = {e}
    <3>1. PICK e : held' = {e}
      BY <2>3
    <3>2. Cardinality({e}) = 1
      BY FS_Singleton
    <3> QED
      BY <2>1, <3>1, <3>2 DEF HeldTyped
  <2> QED
    BY <1>3, <2>2, <2>3
<1>5. /\ WorldTyped' /\ ObserverTyped' /\ MemoryTyped' /\ JobTyped' /\ FilesTyped' /\ LateTyped'
      /\ RecordTyped' /\ FaultsTyped'
  BY <1>1 DEF ProjectionInv, WorldTyped, ObserverTyped, MemoryTyped, JobTyped, FilesTyped,
              LateTyped, RecordTyped, FaultsTyped
<1>6. StagesMeet' /\ TakenInOrder'
  BY <1>1 DEF ProjectionInv, StagesMeet, TakenInOrder
<1>7. Accounted'
  BY <1>1 DEF ProjectionInv, Accounted
<1>8. FramesFit' /\ DeclarationFits' /\ HeldFits' /\ RecordFits'
  BY <1>1, <1>3 DEF ProjectionInv, FramesFit, DeclarationFits, HeldFits, RecordFits
<1>9. SnapshotsFit'
  BY <1>1 DEF ProjectionInv, SnapshotsFit, Candidate, Current
<1>10. Faultless'
  BY <1>1 DEF ProjectionInv, Faultless
<1> QED
  BY <1>4, <1>5, <1>6, <1>7, <1>8, <1>9, <1>10 DEF ProjectionInv

(* Nothing has happened to a new projection. *)
LEMMA ProjectionStarts ==
  ASSUME ProjectionInit
  PROVE  ProjectionInv
<1>1. MaxTick \in Nat /\ MaxFaults \in Nat
  BY LiveProjectionAssumption
<1>2. InTicks(<< >>)
  BY DEF InTicks
<1>3. WorldTyped /\ ObserverTyped /\ MemoryTyped /\ JobTyped
  BY <1>1 DEF ProjectionInit, WorldTyped, ObserverTyped, MemoryTyped, JobTyped, Shot, Nothing,
             Number
<1>4. FilesTyped /\ LateTyped /\ RecordTyped /\ FaultsTyped
  BY <1>1 DEF ProjectionInit, FilesTyped, LateTyped, RecordTyped, FaultsTyped, NoFiles
<1>5. HeldTyped /\ HeldFits
  BY FS_EmptySet DEF ProjectionInit, HeldTyped, HeldFits
<1>6. StagesMeet
  BY DEF ProjectionInit, StagesMeet, Undoing
<1>7. TakenInOrder
  BY DEF ProjectionInit, TakenInOrder, NoLater, Nothing
<1>8. Accounted
  BY <1>2 DEF ProjectionInit, Accounted, Rank, Nothing
<1>9. FramesFit /\ DeclarationFits
  BY <1>2 DEF ProjectionInit, FramesFit, DeclarationFits, NoFiles
<1>10. SnapshotsFit
  BY DEF ToSet, ProjectionInit, SnapshotsFit, NoFiles
<1>11. RecordFits /\ Faultless
  BY DEF ProjectionInit, RecordFits, Faultless
<1> QED
  BY <1>3, <1>4, <1>5, <1>6, <1>7, <1>8, <1>9, <1>10, <1>11 DEF ProjectionInv

(* Every step keeps to it. *)
LEMMA ProjectionSteps ==
  ASSUME ProjectionInv, [ProjectionNext]_projectionVars
  PROVE  ProjectionInv'
<1>1. CASE Tick \/ Terminal
  BY <1>1, TickProjects, TerminalProjects
<1>2. CASE Observe
  BY <1>2, CaptureProjects, PauseWorldProjects, TerminalCaptureProjects DEF Observe
<1>3. CASE Publish
  BY <1>3, WriteProjects, CommitProjects, WriteFailsProjects, UndoProjects, UndoFirstProjects,
     UndoFilesProjects, UndoDeclarationProjects DEF Publish
<1>4. CASE Complete
  BY <1>4, FinalizeProjects, RemoveTransientFilesProjects, WriteArtifactsProjects,
     SealRunProjects DEF Complete
<1>5. CASE AbortRun
  BY <1>5, AbortRunProjects
<1>6. CASE \E w \in late : LateWrite(w)
  BY <1>6, LateWriteProjects
<1>7. CASE ReadDeclaration \/ ReadSnapshot
  BY <1>7, ReadsProject
<1>8. CASE UNCHANGED projectionVars
  BY <1>8, ZenonT(60) DEF projectionVars, ProjectionInv, WorldTyped, ObserverTyped, MemoryTyped, JobTyped,
     FilesTyped, LateTyped, RecordTyped, HeldTyped, FaultsTyped, StagesMeet, TakenInOrder,
     Accounted, FramesFit, DeclarationFits, SnapshotsFit, Candidate, Current, HeldFits,
     RecordFits, Faultless
<1> QED
  BY <1>1, <1>2, <1>3, <1>4, <1>5, <1>6, <1>7, <1>8 DEF ProjectionNext

(* The projection keeps to its invariant in every run. *)
THEOREM ProjectionInvAlways == ProjectionSpec => []ProjectionInv
<1>1. ProjectionInit => ProjectionInv
  BY ProjectionStarts
<1>2. ProjectionInv /\ [ProjectionNext]_projectionVars => ProjectionInv'
  BY ProjectionSteps
<1> QED
  BY <1>1, <1>2, PTL DEF ProjectionSpec

(* One sequence is kept by another, which goes on from it. *)
ExtendedBy(s, t) == Len(s) <= Len(t) /\ \A i \in 1 .. Len(s) : s[i] = t[i]

(* What is still to be written back is what was committed once, and it     *)
(* takes two failures for a write to be left behind.                       *)
LateKept ==
  /\ late # {} => faults > 1
  /\ \A w \in late : ExtendedBy(w.ledger, mem.ledger) /\ ExtendedBy(w.rows, mem.rows)

(* The files of the record are what was committed once, and what was       *)
(* hashed but for those replaced since.                                    *)
StagedFits ==
  /\ record.stage \in {"open", "removing", "writing"} => record.ledger = << >> /\ record.rows = << >>
  /\ record.stage \notin {"hashed", "sealed"} => record.replaced = {}
  /\ record.stage \in {"writing", "ready", "hashed", "sealed"} =>
       /\ ExtendedBy(disk.ledger, mem.ledger) /\ ExtendedBy(disk.frames, mem.rows)
       /\ faults < 2 => disk.ledger = record.ledger /\ disk.frames = record.rows
  /\ record.stage \in {"hashed", "sealed"} /\ record.ledger # << >> =>
       /\ "ledger" \notin record.replaced => disk.ledger = record.ledger
       /\ "frames" \notin record.replaced => disk.frames = record.rows

SealInv == LateKept /\ StagedFits

(* Sequences are kept by themselves, and nothing by everything. *)
LEMMA KeptByItself ==
  ASSUME ProjectionInv
  PROVE  /\ ExtendedBy(mem.ledger, mem.ledger) /\ ExtendedBy(mem.rows, mem.rows)
         /\ ExtendedBy(<< >>, mem.ledger) /\ ExtendedBy(<< >>, mem.rows)
<1>1. Len(mem.ledger) \in Nat /\ Len(mem.rows) \in Nat
  BY ProjectionNumbers
<1>2. Len(<< >>) = 0
  OBVIOUS
<1> QED
  BY <1>1, <1>2 DEF ExtendedBy

(* While the record is open a step may commit, and leave writes behind. *)
LEMMA OpenSeals ==
  ASSUME ProjectionInv, SealInv, record.stage = "open", record' = record, faults' >= faults,
         LateKept'
  PROVE  SealInv'
<1> QED
  BY DEF SealInv, StagedFits

(* Observing and publishing keep to it. *)
LEMMA PublishSeals ==
  ASSUME ProjectionInv, SealInv, Observe \/ Publish
  PROVE  SealInv'
<1>1. record.stage = "open" /\ record' = record
  <2>1. CASE Observe
    BY <2>1 DEF Observe, Capture, PauseWorld, TerminalCapture, Captures, ProjectionInv, StagesMeet
  <2>2. CASE Publish
    BY <2>2, AfterPublicationIs DEF Publish, Write, Commit, WriteFails, Undo,
       UndoFirst, UndoFiles, UndoDeclaration
  <2> QED
    BY <2>1, <2>2
<1>2. faults' \in Nat /\ faults' >= faults
  <2>1. UNCHANGED faults \/ Fails
    BY DEF Observe, Capture, PauseWorld, TerminalCapture, Captures, Publish, Write, Commit,
           WriteFails, Undo, UndoFirst, UndoFiles, UndoDeclaration
  <2> QED
    BY <2>1, FailsCounts, ProjectionNumbers
<1>3. CASE UNCHANGED << mem, late >>
  BY <1>2, <1>3, ProjectionNumbers, <1>1, OpenSeals DEF SealInv, LateKept
<1>4. CASE Commit
  <2>1. /\ job.step # "none" /\ late' = late /\ faults' = faults
        /\ mem'.ledger = CandidateLedger /\ mem'.rows = CandidateRows
    BY <1>4 DEF Commit
  <2>2. /\ ExtendedBy(mem.ledger, mem'.ledger) /\ ExtendedBy(mem.rows, mem'.rows)
        /\ Len(mem.ledger) \in Nat /\ Len(mem.rows) \in Nat
        /\ Len(mem'.ledger) \in Nat /\ Len(mem'.rows) \in Nat
    <3>1. /\ Len(CandidateLedger) = mem.count + 1 /\ Len(mem.ledger) = mem.count
          /\ mem.count \in Nat
          /\ \A i \in 1 .. mem.count : CandidateLedger[i] = mem.ledger[i]
      BY <2>1, CandidateLedgerIs, ProjectionNumbers DEF ProjectionInv, Accounted
    <3>2. /\ Len(mem.rows) <= Len(CandidateRows) /\ CandidateRows \in Seq(Row)
          /\ \A i \in 1 .. Len(mem.rows) : CandidateRows[i] = mem.rows[i]
          /\ mem.rows \in Seq(Row)
      BY <2>1, CandidateRowsAre, ProjectionNumbers DEF InTicks
    <3> QED
      BY <2>1, <3>1, <3>2 DEF ExtendedBy
  <2>3. \A w \in late : w.ledger \in Seq(Entry) /\ w.rows \in Seq(Row)
    BY DEF ProjectionInv, LateTyped
  <2>4. \A w \in late : ExtendedBy(w.ledger, mem'.ledger) /\ ExtendedBy(w.rows, mem'.rows)
    <3> SUFFICES ASSUME NEW w \in late
                 PROVE  ExtendedBy(w.ledger, mem'.ledger) /\ ExtendedBy(w.rows, mem'.rows)
      OBVIOUS
    <3>1. ExtendedBy(w.ledger, mem.ledger) /\ ExtendedBy(w.rows, mem.rows)
      BY DEF SealInv, LateKept
    <3>2. Len(w.ledger) \in Nat /\ Len(w.rows) \in Nat
      BY <2>3
    <3>3. ExtendedBy(w.ledger, mem'.ledger)
      BY <2>2, <3>1, <3>2 DEF ExtendedBy
    <3>4. ExtendedBy(w.rows, mem'.rows)
      BY <2>2, <3>1, <3>2 DEF ExtendedBy
    <3> QED
      BY <3>3, <3>4
  <2>5. LateKept'
    BY <2>1, <2>4 DEF SealInv, LateKept
  <2> QED
    BY <1>1, <1>2, <2>5, OpenSeals
<1>5. CASE UndoFiles
  <2>1. /\ mem' = mem /\ job.step \in Undoing
        /\ \A w \in late' \ late : w.ledger = mem.ledger /\ w.rows = mem.rows
    BY <1>5 DEF UndoFiles, Undoing
  <2>2. late' = late \/ Fails
    <3>1. PICK o \in [{"ledger", "frames"} -> {"done", "failed", "late"}] :
            /\ IF \A f \in DOMAIN o : o[f] = "done" THEN UNCHANGED faults
               ELSE /\ \E f \in DOMAIN o : o[f] = "failed"
                    /\ Fails
            /\ late' = late \union
                  {[file |-> f, rows |-> mem.rows, ledger |-> mem.ledger] :
                      f \in {g \in DOMAIN o : o[g] = "late"}}
      BY <1>5 DEF UndoFiles
    <3>2. CASE \A f \in DOMAIN o : o[f] = "done"
      BY <3>2, <3>1
    <3> QED
      BY <3>1, <3>2
  <2>3. faults > 0
    BY <2>1 DEF ProjectionInv, StagesMeet
  <2>4. late' # {} => faults' > 1
    BY <1>2, <2>2, <2>3, ProjectionNumbers DEF Fails, SealInv, LateKept
  <2>5. LateKept'
    BY <2>1, <2>4, KeptByItself DEF SealInv, LateKept
  <2> QED
    BY <1>1, <1>2, <2>5, OpenSeals
<1> QED
  BY <1>3, <1>4, <1>5 DEF Observe, Capture, PauseWorld, TerminalCapture, Captures, Publish, Write,
     WriteFails, Undo, UndoFirst, UndoDeclaration

(* So do the steps to the sealed record. *)
LEMMA CompleteSeals ==
  ASSUME ProjectionInv, SealInv, Complete \/ AbortRun
  PROVE  SealInv'
<1>1. mem' = mem /\ late' = late /\ faults' \in Nat /\ faults' >= faults
  BY FailsCounts, ProjectionNumbers DEF Complete, Finalize,
     RemoveTransientFiles, WriteArtifacts, HashArtifacts, SealRun, AbortRun
<1>2. LateKept'
  BY <1>1, ProjectionNumbers DEF SealInv, LateKept
<1>3. /\ record \in [ stage : {"open", "removing", "writing", "ready", "hashed", "sealed", "failed",
                              "aborted"},
                     rows : Seq(Row), ledger : Seq(Entry), snaps : SUBSET Entry,
                     replaced : SUBSET {"ledger", "frames"} ]
      /\ disk \in [ snaps : SUBSET Entry, ledger : Seq(Entry), frames : Seq(Row),
                    declaration : SUBSET Entry ]
  BY DEF ProjectionInv, RecordTyped, FilesTyped
<1>4. CASE Finalize \/ AbortRun
  BY <1>4, <1>2, <1>3 DEF Finalize, AbortRun, SealInv, StagedFits
<1>5. CASE RemoveTransientFiles
  BY <1>5, <1>1, <1>2, <1>3, KeptByItself DEF RemoveTransientFiles, NoFiles,
     SealInv, StagedFits
<1>6. CASE WriteArtifacts
  <2>1. CASE /\ record' = Recorded
             /\ disk' = [disk EXCEPT !.ledger = mem.ledger, !.frames = mem.rows,
                                     !.snaps = ToSet(mem.ledger)]
    BY <1>3, <2>1, <1>1, <1>2, KeptByItself DEF Recorded, SealInv, StagedFits
  <2>2. CASE record' = [record EXCEPT !.stage = "ready"] /\ UNCHANGED disk
    <3>1. record.stage = "writing"
      BY <1>6 DEF WriteArtifacts
    <3> QED
      BY <1>1, <1>2, <1>3, <2>2, <3>1, ProjectionNumbers DEF SealInv, StagedFits
  <2> QED
    BY <1>6, <2>1, <2>2 DEF WriteArtifacts
<1>7. CASE HashArtifacts
  <2>1. /\ record.stage = "ready" /\ UNCHANGED << disk, faults >>
        /\ record' = [record EXCEPT !.stage = IF Unchanged THEN "hashed" ELSE "failed"]
    BY <1>7 DEF HashArtifacts
  <2>2. CASE Unchanged
    BY <1>1, <1>2, <1>3, <2>1, <2>2 DEF SealInv, StagedFits, Unchanged
  <2>3. CASE ~Unchanged
    BY <1>1, <1>2, <1>3, <2>1, <2>3 DEF SealInv, StagedFits
  <2> QED
    BY <2>2, <2>3
<1>8. CASE SealRun
  BY <1>8, <1>1, <1>2, <1>3 DEF SealRun, SealInv, StagedFits
<1> QED
  BY <1>4, <1>5, <1>6, <1>7, <1>8 DEF Complete

(* A write nobody waited for brings back what was committed once, and      *)
(* counts as a replacement once the files are hashed.                      *)
LEMMA LateWriteSeals ==
  ASSUME ProjectionInv, SealInv, NEW w \in late, LateWrite(w)
  PROVE  SealInv'
<1>1. late' = late \ {w} /\ UNCHANGED << mem, faults >>
  BY DEF LateWrite
<1>2. faults > 1 /\ ExtendedBy(w.ledger, mem.ledger) /\ ExtendedBy(w.rows, mem.rows) /\ LateKept'
  BY <1>1 DEF SealInv, LateKept
<1>3. w.file \in {"ledger", "frames"}
  BY DEF ProjectionInv, LateTyped
<1>4. /\ record'.stage = record.stage /\ record'.ledger = record.ledger
      /\ record'.rows = record.rows
      /\ record'.replaced = IF record.stage = "hashed" THEN record.replaced \union {w.file}
                                                      ELSE record.replaced
  BY DEF LateWrite, ProjectionInv, RecordTyped
<1>5. CASE record.stage \in {"sealed", "failed", "aborted"}
  BY <1>5, <1>1, <1>2, <1>4 DEF LateWrite, SealInv, StagedFits
<1>6. CASE record.stage \notin {"sealed", "failed", "aborted"}
  <2>1. /\ disk'.ledger = IF w.file = "ledger" THEN w.ledger ELSE disk.ledger
        /\ disk'.frames = IF w.file = "ledger" THEN disk.frames ELSE w.rows
    BY <1>6 DEF LateWrite, ProjectionInv, FilesTyped
  <2>2. faults < 2 => FALSE
    BY <1>2, ProjectionNumbers
  <2> QED
    BY <1>1, <1>2, <1>3, <1>4, <1>6, <2>1, <2>2 DEF SealInv, StagedFits
<1> QED
  BY <1>5, <1>6

(* The record's files keep to it in every run. *)
THEOREM SealInvAlways == ProjectionSpec => []SealInv
<1>1. ProjectionInit => SealInv
  BY DEF ProjectionInit, SealInv, LateKept, StagedFits
<1>2. ASSUME ProjectionInv, SealInv, [ProjectionNext]_projectionVars
      PROVE  SealInv'
  <2>1. CASE Tick \/ Terminal \/ ReadDeclaration \/ ReadSnapshot \/ UNCHANGED projectionVars
    BY <2>1, <1>2 DEF Tick, Terminal, ReadDeclaration, ReadSnapshot,
       projectionVars, SealInv, LateKept, StagedFits
  <2>2. CASE Observe \/ Publish
    BY <1>2, <2>2, PublishSeals
  <2>3. CASE Complete \/ AbortRun
    BY <1>2, <2>3, CompleteSeals
  <2>4. CASE \E w \in late : LateWrite(w)
    BY <1>2, <2>4, LateWriteSeals
  <2> QED
    BY <1>2, <2>1, <2>2, <2>3, <2>4 DEF ProjectionNext
<1> QED
  BY <1>1, <1>2, ProjectionInvAlways, PTL DEF ProjectionSpec

(* What is kept is a prefix. *)
LEMMA KeptIsPrefix ==
  ASSUME NEW S, NEW s \in Seq(S), NEW t \in Seq(S), ExtendedBy(s, t)
  PROVE  IsPrefix(s, t)
<1>1. SubSeq(t, 1, Len(s)) = s
  BY DEF ExtendedBy
<1> QED
  BY <1>1 DEF ExtendedBy, IsPrefix

(* A reader is shown what was committed. *)
LEMMA ReaderSafeFollows ==
  ASSUME ProjectionInv
  PROVE  ReaderSafe
<1>1. ProjectionTypeOK
  BY DEF ProjectionInv, ProjectionTypeOK, WorldTyped, ObserverTyped, MemoryTyped, JobTyped,
         FilesTyped, LateTyped, RecordTyped, HeldTyped, FaultsTyped
<1>2. DeclarationResolves
  <2>1. CASE record.stage = "open"
    <3>1. mem.count # 0 => mem.count \in 1 .. mem.count
      BY ProjectionNumbers
    <3>2. mem.count # 0 => mem.ledger[mem.count] \in ToSet(mem.ledger)
      BY <3>1, LedgerIs
    <3>3. mem.declared \subseteq ToSet(mem.ledger)
      BY <3>2 DEF ProjectionInv, Accounted
    <3> QED
      BY <2>1, <3>3 DEF ProjectionInv, DeclarationFits, SnapshotsFit, DeclarationResolves
  <2>2. CASE record.stage # "open"
    BY <2>2 DEF ProjectionInv, DeclarationFits, DeclarationResolves
  <2> QED
    BY <2>1, <2>2
<1>3. ReaderNeverMismatched
  <2> SUFFICES ASSUME NEW e \in held, NEW d \in disk.snaps, e.number = d.number
               PROVE  e = d
    BY DEF ReaderNeverMismatched
  <2>1. e \in ToSet(mem.ledger) /\ (d \in ToSet(mem.ledger) \/ d = Candidate)
    BY DEF ProjectionInv, HeldFits, SnapshotsFit
  <2>2. e.number \in 1 .. mem.count /\ e = mem.ledger[e.number]
    BY <2>1, LedgerIs
  <2>3. Candidate.number = mem.count + 1
    BY DEF Candidate, Current
  <2>4. d # Candidate
    BY <2>2, <2>3, ProjectionNumbers
  <2> QED
    BY <2>1, <2>2, <2>4, LedgerIs
<1> QED
  BY <1>1, <1>2, <1>3 DEF ReaderSafe

(* A record that is sealed is whole. *)
LEMMA SealedExactFollows ==
  ASSUME ProjectionInv, SealInv
  PROVE  SealedExact
<1> SUFFICES ASSUME record.stage = "sealed"
             PROVE  /\ record.ledger # << >> => RowsAccounted
                    /\ SealedAsHashed
                    /\ faults = 0 =>
                         record.ledger # << >> /\ Last(record.ledger).shot = world
  BY DEF SealedExact
<1>1. /\ mem.ledger \in Seq(Entry) /\ Len(mem.ledger) = mem.count /\ mem.count \in Nat
      /\ mem.rows \in Seq(Row) /\ Len(mem.rows) = obs.last.tick + 1
      /\ obs.last.tick \in Int
      /\ mem.count # 0 => mem.ledger[mem.count].shot = obs.last
      /\ \A i \in 1 .. Len(mem.rows) :
           /\ mem.rows[i].tick = i - 1 /\ mem.rows[i].source \in 1 .. mem.count
           /\ mem.rows[i].tick <= mem.ledger[mem.rows[i].source].shot.tick
  BY ProjectionNumbers DEF ProjectionInv, Accounted, InTicks
<1>2. obs.stage = "settled"
  BY DEF ProjectionInv, StagesMeet
<1>3. ASSUME record.ledger # << >>
      PROVE  RowsAccounted
  <2>1. record.ledger = mem.ledger /\ record.rows = mem.rows /\ record.snaps = ToSet(mem.ledger)
    BY <1>3 DEF ProjectionInv, RecordFits
  <2>2. mem.count # 0
    BY <1>1, <1>3, <2>1
  <2>3. Last(mem.ledger).shot = obs.last
    BY <1>1, <2>2 DEF Last
  <2>4. ASSUME NEW i \in 1 .. Len(mem.rows)
        PROVE  \E e \in record.snaps :
                 /\ e.number = mem.rows[i].source /\ e \in ToSet(mem.ledger)
                 /\ mem.rows[i].tick <= e.shot.tick
    <3>1. PICK n \in 1 .. mem.count : n = mem.rows[i].source
      BY <1>1, <2>4
    <3>2. mem.ledger[n] \in ToSet(mem.ledger)
      BY LedgerIs
    <3>3. mem.ledger[n].number = n
      BY DEF ProjectionInv, Accounted
    <3> QED
      BY <1>1, <2>1, <2>4, <3>1, <3>2, <3>3
  <2>5. Len(mem.rows) - 1 = Last(mem.ledger).shot.tick
    BY <1>1, <2>3
  <2> QED
    BY <1>1, <2>1, <2>4, <2>5 DEF RowsAccounted
<1>4. ASSUME faults = 0
      PROVE  record.ledger # << >> /\ Last(record.ledger).shot = world
  BY <1>4, <1>2, SettledCommitted, <1>1 DEF ProjectionInv, Faultless, Last
<1>5. SealedAsHashed
  <2>1. ASSUME record.ledger # << >>
        PROVE  IsPrefix(disk.ledger, record.ledger) /\ IsPrefix(disk.frames, record.rows)
    BY <2>1, <1>1, KeptIsPrefix DEF ProjectionInv, RecordFits, FilesTyped,
       SealInv, StagedFits
  <2> QED
    BY <2>1 DEF SealedAsHashed, SealInv, StagedFits
<1> QED
  BY <1>3, <1>4, <1>5

(* A reader of the staging directory finds the snapshot it was promised or *)
(* none, and a sealed record is whole and holds the files that were hashed *)
(* but for one that a write nobody waited for put back since, whichever    *)
(* writes fail and whatever is undone (liveViewerProjection.ts,            *)
(* runRecord.ts).                                                          *)
THEOREM ProjectionExactAlways == ProjectionSpec => []ProjectionExact
<1>1. ProjectionInv /\ SealInv => ProjectionExact
  BY ReaderSafeFollows, SealedExactFollows DEF ProjectionExact
<1> QED
  BY <1>1, ProjectionInvAlways, SealInvAlways, PTL

(* Two sequences of rows in ticks are one a prefix of the other. *)
LEMMA InTicksExtend ==
  ASSUME NEW r, NEW s, InTicks(r), InTicks(s), Len(r) <= Len(s)
  PROVE  IsPrefix([i \in DOMAIN r |-> r[i].tick], [i \in DOMAIN s |-> s[i].tick])
<1>1. /\ r \in Seq(Row) /\ s \in Seq(Row) /\ Len(r) \in Nat /\ Len(s) \in Nat
      /\ DOMAIN r = 1 .. Len(r) /\ DOMAIN s = 1 .. Len(s)
  BY DEF InTicks
<1>2. PICK t, u : /\ t = [i \in 1 .. Len(r) |-> r[i].tick]
                  /\ u = [i \in 1 .. Len(s) |-> s[i].tick]
  OBVIOUS
<1>3. t \in Seq(Int) /\ Len(t) = Len(r) /\ u \in Seq(Int) /\ Len(u) = Len(s)
  BY <1>1, <1>2 DEF InTicks
<1>4. \A i \in 1 .. Len(t) : t[i] = u[i]
  BY <1>1, <1>2, <1>3 DEF InTicks
<1>5. IsPrefix(t, u)
  BY <1>1, <1>3, <1>4 DEF IsPrefix
<1> QED
  BY <1>1, <1>2, <1>5

(* The frames only ever grow or shrink at their end. *)
THEOREM FramesOnlyExtendAlways == ProjectionSpec => FramesOnlyExtend
<1>1. ASSUME ProjectionInv, ProjectionInv'
      PROVE  LET t(rows) == [i \in DOMAIN rows |-> rows[i].tick] IN
             \/ IsPrefix(t(disk.frames), t(disk'.frames))
             \/ IsPrefix(t(disk'.frames), t(disk.frames))
  <2>1. InTicks(disk.frames) /\ InTicks(disk'.frames)
    BY <1>1 DEF ProjectionInv, FramesFit
  <2>2. Len(disk.frames) \in Nat /\ Len(disk'.frames) \in Nat
    BY <2>1 DEF InTicks
  <2>3. Len(disk.frames) <= Len(disk'.frames) \/ Len(disk'.frames) <= Len(disk.frames)
    BY <2>2
  <2> QED
    BY <2>1, <2>3, InTicksExtend
<1> QED
  BY <1>1, ProjectionInvAlways, PTL DEF ProjectionSpec, FramesOnlyExtend

------------------------------------------------------------------------------
(* The playhead of the map. *)

Statuses == {"live", "completed"}
Playheads == [tick : Nat, frame : Nat, playing : BOOLEAN, ended : BOOLEAN]
Clocks == [on : BOOLEAN, anchor : Nat, total : Nat]
Screens == [mode : {"none", "live", "replay"}, n : 0 .. Len(Ticks), status : Statuses,
            error : BOOLEAN, shown : BOOLEAN]
ControlSets ==
  [for : {"none", "live", "replay"}, manual : BOOLEAN, requested : BOOLEAN, drain : BOOLEAN,
   timer : BOOLEAN, speed : Nat \ {0}, pb : Playheads, clock : Clocks, still : BOOLEAN]

(* A playhead at a place a follower of a run may show. *)
Buffered(t, n) == t = FirstTick(n) \/ t + Delay <= FinalTick(n)

(* What moves a playhead. *)
Ways == {"live", "drain", "replay"}

(* Where a playhead may be on n samples. *)
PlayheadFits(pb, n, way) ==
  /\ pb \in Playheads
  /\ FirstTick(n) <= pb.tick /\ pb.tick <= FinalTick(n) /\ pb.frame = FrameAt(n, pb.tick)
  /\ pb.playing => ~pb.ended /\ n > 1
  /\ way = "live" => Buffered(pb.tick, n) /\ (pb.playing => FinalTick(n) >= FirstTick(n) + Delay)
  /\ way = "replay" => (pb.playing => pb.tick < FinalTick(n))

(* The idle timer runs only for a run that is followed; a clock that       *)
(* replays started on the samples.                                          *)
TimesFit(c, s) ==
  /\ c.timer => FollowingRun(c, s) /\ s.n > 1
  /\ c.clock.on /\ ~FollowingRun(c, s) => At(1) <= c.clock.anchor

(* Samples have their ticks, and a delay is some time. *)
LEMMA TimesAre ==
  /\ Len(Ticks) \in Nat /\ 1 <= Len(Ticks) /\ Delay \in Nat /\ CapUnits \in Nat
  /\ \A i \in 1 .. Len(Ticks) : At(i) \in Nat
  /\ \A i, j \in 1 .. Len(Ticks) : i < j => At(i) < At(j)
<1>1. /\ Ticks \in Seq(Nat) /\ Ticks # << >> /\ TickUnits \in Nat /\ TickUnits > 0
      /\ BufferUnits \in Nat /\ CapUnits \in Nat
      /\ \A i, j \in 1 .. Len(Ticks) : i < j => Ticks[i] < Ticks[j]
  BY PlaybackAssumption
<1>2. Len(Ticks) \in Nat /\ 1 <= Len(Ticks)
  BY <1>1
<1>3. \A i \in 1 .. Len(Ticks) : Ticks[i] \in Nat
  BY <1>1
<1>4. \A a, b \in Nat : a * b \in Nat
  OBVIOUS
<1>5. \A a, b, c \in Nat : a < b /\ c > 0 => a * c < b * c
  OBVIOUS
<1>6. Delay \in Nat
  BY <1>1, <1>4 DEF Most, Delay
<1>7. \A i \in 1 .. Len(Ticks) : At(i) \in Nat
  BY <1>1, <1>3, <1>4 DEF At
<1>8. \A i, j \in 1 .. Len(Ticks) : i < j => At(i) < At(j)
  BY <1>1, <1>3, <1>5 DEF At
<1> QED
  BY <1>1, <1>2, <1>6, <1>7, <1>8

(* The first sample is not after the last. *)
LEMMA EndsAre ==
  ASSUME NEW n \in 0 .. Len(Ticks)
  PROVE  /\ n \in Nat /\ FirstTick(n) \in Nat /\ FinalTick(n) \in Nat
         /\ FirstTick(n) <= FinalTick(n)
         /\ n > 1 => FirstTick(n) < FinalTick(n)
         /\ n > 0 => FirstTick(n) = At(1)
         /\ n = 0 => FirstTick(n) = 0 /\ FinalTick(n) = 0
<1>1. CASE n = 0
  BY <1>1 DEF FirstTick, FinalTick
<1>2. CASE n = 1
  BY TimesAre, <1>2 DEF FirstTick, FinalTick
<1>3. CASE n > 1
  BY <1>3, TimesAre DEF FirstTick, FinalTick
<1> QED
  BY <1>1, <1>2, <1>3

(* More samples end no earlier. *)
LEMMA EndsGrow ==
  ASSUME NEW n \in 0 .. Len(Ticks), NEW m \in 0 .. Len(Ticks), n <= m
  PROVE  FinalTick(n) <= FinalTick(m) /\ (n > 0 => FirstTick(m) = FirstTick(n))
<1>1. CASE n = 0
  BY <1>1, EndsAre
<1>2. CASE n > 0
  BY <1>2, TimesAre DEF FirstTick, FinalTick
<1> QED
  BY <1>1, <1>2, TimesAre

(* Frames are counted. *)
LEMMA FrameIs ==
  ASSUME NEW n \in 0 .. Len(Ticks), NEW t
  PROVE  FrameAt(n, t) \in Nat
<1>1. IsFiniteSet(2 .. n)
  BY FS_Interval, TimesAre
<1>2. {i \in 2 .. n : At(i) <= t} \subseteq 2 .. n
  OBVIOUS
<1> QED
  BY <1>1, <1>2, FS_Subset, FS_CardinalityType DEF FrameAt

(* The place a follower of a run tends to is one it may show, and the last *)
(* such place.                                                              *)
LEMMA LiveTargetIs ==
  ASSUME NEW n \in 0 .. Len(Ticks)
  PROVE  /\ LiveTarget(n) \in Nat
         /\ FirstTick(n) <= LiveTarget(n) /\ LiveTarget(n) <= FinalTick(n)
         /\ \A t \in Nat : FirstTick(n) <= t => (Buffered(t, n) <=> t <= LiveTarget(n))
<1>1. PICK a, b, d : a = FirstTick(n) /\ b = FinalTick(n) /\ d = Delay
  OBVIOUS
<1>2. a \in Nat /\ b \in Nat /\ d \in Nat /\ a <= b
  BY <1>1, EndsAre, TimesAre
<1>3. LiveTarget(n) = IF b < a + d THEN a ELSE b - d
  BY <1>1 DEF LiveTarget
<1>4. CASE b < a + d
  BY <1>1, <1>2, <1>3, <1>4 DEF Buffered
<1>5. CASE ~(b < a + d)
  BY <1>1, <1>2, <1>3, <1>5 DEF Buffered
<1> QED
  BY <1>4, <1>5

(* A playhead that was put somewhere on the samples. *)
LEMMA PutFits ==
  ASSUME NEW n \in 0 .. Len(Ticks), NEW t \in Nat, NEW playing \in BOOLEAN, NEW over \in BOOLEAN,
         NEW way \in Ways,
         FirstTick(n) <= t, t <= FinalTick(n),
         playing => ~over /\ n > 1,
         way = "live" => t <= LiveTarget(n) /\ (playing => FinalTick(n) >= FirstTick(n) + Delay),
         way = "replay" => (playing => t < FinalTick(n))
  PROVE  PlayheadFits(PlayheadAt(n, t, playing, over), n, way)
<1>1. FrameAt(n, t) \in Nat
  BY FrameIs
<1>2. PICK pb : pb = [tick |-> t, frame |-> FrameAt(n, t), playing |-> playing, ended |-> over]
  OBVIOUS
<1>3. /\ pb \in Playheads /\ pb.tick = t /\ pb.frame = FrameAt(n, t) /\ pb.playing = playing
      /\ pb.ended = over
  BY <1>1, <1>2 DEF Playheads
<1>4. way = "live" => Buffered(t, n)
  BY LiveTargetIs
<1> QED
  BY <1>2, <1>3, <1>4 DEF PlayheadAt, PlayheadFits

(* A playhead that is made for a recording is on its first sample. *)
LEMMA CreatedFits ==
  ASSUME NEW n \in 0 .. Len(Ticks), NEW playing \in BOOLEAN
  PROVE  PlayheadFits(Created(n, playing), n, "replay") /\ Created(n, playing).tick = FirstTick(n)
<1>1. /\ n \in Nat /\ FirstTick(n) \in Nat /\ FinalTick(n) \in Nat /\ FirstTick(n) <= FinalTick(n)
      /\ n > 1 => FirstTick(n) < FinalTick(n)
  BY EndsAre
<1>2. PICK t : t = FirstTick(n)
  OBVIOUS
<1>3. PICK p \in BOOLEAN : p <=> playing /\ n > 1
  OBVIOUS
<1>4. PICK o \in BOOLEAN : o <=> n < 2
  OBVIOUS
<1>5. t \in Nat /\ FirstTick(n) <= t /\ t <= FinalTick(n)
  BY <1>1, <1>2
<1>6. p => ~o /\ n > 1 /\ t < FinalTick(n)
  BY <1>1, <1>2, <1>3, <1>4
<1>7. PlayheadFits(PlayheadAt(n, t, p, o), n, "replay")
  BY <1>5, <1>6, PutFits DEF Ways
<1>8. p = (playing /\ n > 1) /\ o = (n < 2)
  BY <1>3, <1>4
<1>9. Created(n, playing) = PlayheadAt(n, t, p, o)
  BY <1>2, <1>8 DEF Created
<1>10. PlayheadAt(n, t, p, o).tick = t
  BY DEF PlayheadAt
<1> QED
  BY <1>2, <1>7, <1>9, <1>10

(* One that is made for a run keeps the buffer. *)
LEMMA CreatedLiveFits ==
  ASSUME NEW n \in 0 .. Len(Ticks), NEW still \in BOOLEAN
  PROVE  PlayheadFits(CreatedLive(n, still), n, "live")
<1>1. /\ LiveTarget(n) \in Nat /\ FirstTick(n) <= LiveTarget(n) /\ LiveTarget(n) <= FinalTick(n)
  BY LiveTargetIs
<1>2. LiveReady(n) \in BOOLEAN /\ (LiveReady(n) => n > 1 /\ FinalTick(n) >= FirstTick(n) + Delay)
  BY DEF LiveReady
<1>3. PICK p : p = (LiveReady(n) /\ ~still)
  OBVIOUS
<1>4. p \in BOOLEAN /\ (p => n > 1 /\ FinalTick(n) >= FirstTick(n) + Delay)
  BY <1>2, <1>3
<1>5. PICK t : t = LiveTarget(n)
  OBVIOUS
<1>6. t \in Nat /\ FirstTick(n) <= t /\ t <= LiveTarget(n) /\ t <= FinalTick(n)
  BY <1>1, <1>5
<1>7. PlayheadFits(PlayheadAt(n, t, p, FALSE), n, "live")
  BY <1>4, <1>6, PutFits DEF Ways
<1> QED
  BY <1>3, <1>5, <1>7 DEF CreatedLive

(* A playhead on other samples than it was made for. *)
LEMMA ReconciledLiveFits ==
  ASSUME NEW n \in 0 .. Len(Ticks), NEW still \in BOOLEAN, NEW pb, pb.tick \in Nat
  PROVE  PlayheadFits(ReconciledLive(pb, n, still), n, "live")
<1>1. /\ LiveTarget(n) \in Nat /\ FirstTick(n) <= LiveTarget(n) /\ LiveTarget(n) <= FinalTick(n)
      /\ FirstTick(n) \in Nat /\ FinalTick(n) \in Nat
  BY LiveTargetIs, EndsAre
<1>2. LiveReady(n) \in BOOLEAN /\ (LiveReady(n) => n > 1 /\ FinalTick(n) >= FirstTick(n) + Delay)
  BY DEF LiveReady
<1>3. CASE n = 0
  BY <1>3, CreatedLiveFits DEF ReconciledLive
<1>4. CASE n # 0
  <2>1. PICK stale : stale = (still \/ pb.tick < FirstTick(n) \/ LiveTarget(n) > pb.tick + 2 * Delay)
    OBVIOUS
  <2>2. PICK t : t = IF stale THEN LiveTarget(n) ELSE Least(pb.tick, LiveTarget(n))
    OBVIOUS
  <2>3. PICK p : p = (LiveReady(n) /\ ~still)
    OBVIOUS
  <2>4. p \in BOOLEAN /\ (p => n > 1 /\ FinalTick(n) >= FirstTick(n) + Delay)
    BY <1>2, <2>3
  <2>5. ReconciledLive(pb, n, still) = PlayheadAt(n, t, p, FALSE)
    BY <1>4, <2>1, <2>2, <2>3 DEF ReconciledLive
  <2>6. t \in Nat /\ FirstTick(n) <= t /\ t <= LiveTarget(n) /\ t <= FinalTick(n)
    <3>1. CASE stale
      BY <1>1, <2>2, <3>1
    <3>2. CASE ~stale
      <4>1. t = Least(pb.tick, LiveTarget(n)) /\ ~(pb.tick < FirstTick(n))
        BY <2>1, <2>2, <3>2
      <4>2. PICK a, b, c : a = pb.tick /\ b = LiveTarget(n) /\ c = FirstTick(n)
        OBVIOUS
      <4>3. a \in Nat /\ b \in Nat /\ c \in Nat /\ c <= a /\ c <= b /\ t = IF a <= b THEN a ELSE b
        BY <1>1, <4>1, <4>2 DEF Least
      <4> QED
        BY <1>1, <4>2, <4>3
    <3> QED
      BY <3>1, <3>2
  <2> QED
    BY <2>4, <2>5, <2>6, PutFits DEF Ways
<1> QED
  BY <1>3, <1>4

(* And one of a recording. *)
LEMMA ReconciledFits ==
  ASSUME NEW n \in 0 .. Len(Ticks), NEW requested \in BOOLEAN, NEW pb, pb.tick \in Nat
  PROVE  PlayheadFits(Reconciled(pb, n, requested), n, "replay")
<1>1. n \in Nat /\ FirstTick(n) \in Nat /\ FinalTick(n) \in Nat /\ FirstTick(n) <= FinalTick(n)
  BY EndsAre
<1>2. CASE n = 0
  BY <1>2, CreatedFits DEF Reconciled
<1>3. CASE n # 0
  <2>1. PICK t : t = Most(FirstTick(n), Least(FinalTick(n), pb.tick))
    OBVIOUS
  <2>2. t \in Nat /\ FirstTick(n) <= t /\ t <= FinalTick(n)
    BY <1>1, <2>1 DEF Most, Least
  <2>3. PICK over : over = (n < 2 \/ t >= FinalTick(n))
    OBVIOUS
  <2>4. over \in BOOLEAN /\ (over <=> n < 2 \/ t >= FinalTick(n))
    BY <2>3
  <2>5. PICK p : p = (requested /\ ~over)
    OBVIOUS
  <2>6. p \in BOOLEAN /\ (p => ~over)
    BY <2>4, <2>5
  <2>7. ~over => n > 1 /\ t < FinalTick(n)
    BY <1>1, <2>2, <2>4
  <2>8. Reconciled(pb, n, requested) = PlayheadAt(n, t, p, over)
    BY <1>3, <2>1, <2>3, <2>5 DEF Reconciled
  <2>9. PlayheadFits(PlayheadAt(n, t, p, over), n, "replay")
    BY <2>2, <2>4, <2>6, <2>7, PutFits DEF Ways
  <2> QED
    BY <2>8, <2>9
<1> QED
  BY <1>2, <1>3

(* Playing a recording goes on to its last sample, where it ends. *)
LEMMA AdvancedFits ==
  ASSUME NEW n \in 0 .. Len(Ticks), NEW elapsed \in Nat, NEW pb,
         pb.tick \in Nat, FirstTick(n) <= pb.tick, pb.playing, n > 1, elapsed # 0
  PROVE  PlayheadFits(Advanced(pb, n, elapsed), n, "replay")
<1>1. n \in Nat /\ FirstTick(n) \in Nat /\ FinalTick(n) \in Nat /\ FirstTick(n) <= FinalTick(n)
  BY EndsAre
<1>2. PICK t : t = Least(FinalTick(n), pb.tick + elapsed)
  OBVIOUS
<1>3. t \in Nat /\ FirstTick(n) <= t /\ t <= FinalTick(n)
  BY <1>1, <1>2 DEF Least
<1>4. PICK p \in BOOLEAN : p <=> t < FinalTick(n)
  OBVIOUS
<1>5. PICK o \in BOOLEAN : o <=> t >= FinalTick(n)
  OBVIOUS
<1>6. p => ~o /\ n > 1 /\ t < FinalTick(n)
  BY <1>1, <1>3, <1>4, <1>5
<1>7. PlayheadFits(PlayheadAt(n, t, p, o), n, "replay")
  BY <1>3, <1>6, PutFits DEF Ways
<1>8. p = (t < FinalTick(n)) /\ o = (t >= FinalTick(n))
  BY <1>4, <1>5
<1>9. ~(~pb.playing \/ n < 2 \/ elapsed = 0)
  BY <1>1
<1>10. Advanced(pb, n, elapsed) = PlayheadAt(n, t, p, o)
  BY <1>2, <1>8, <1>9 DEF Advanced
<1> QED
  BY <1>7, <1>10

(* A drained buffer asks for less than one that is kept. *)
LEMMA LiveIsDrain ==
  ASSUME NEW n, NEW pb, PlayheadFits(pb, n, "live")
  PROVE  PlayheadFits(pb, n, "drain")
<1> QED
  BY DEF PlayheadFits

(* Following a run goes on to where the buffer begins, or to the last      *)
(* sample once the buffer is drained, and never back.                      *)
LEMMA AdvancedLiveFits ==
  ASSUME NEW n \in 0 .. Len(Ticks), NEW elapsed \in Nat, NEW drain \in BOOLEAN, NEW pb,
         NEW way \in Ways, way = IF drain THEN "drain" ELSE "live",
         PlayheadFits(pb, n, way), pb.playing, n > 1
  PROVE  /\ PlayheadFits(AdvancedLive(pb, n, elapsed, drain), n, way)
         /\ ~drain => AdvancedLive(pb, n, elapsed, drain).tick >= pb.tick
<1>1. /\ FirstTick(n) \in Nat /\ FinalTick(n) \in Nat /\ FirstTick(n) <= FinalTick(n)
      /\ LiveTarget(n) \in Nat /\ FirstTick(n) <= LiveTarget(n) /\ LiveTarget(n) <= FinalTick(n)
      /\ Delay \in Nat /\ CapUnits \in Nat
  BY EndsAre, LiveTargetIs, TimesAre
<1>2. /\ pb.tick \in Nat /\ FirstTick(n) <= pb.tick /\ pb.tick <= FinalTick(n)
      /\ ~drain => pb.tick <= LiveTarget(n) /\ FinalTick(n) >= FirstTick(n) + Delay
  BY LiveTargetIs DEF PlayheadFits, Playheads
<1>3. PICK t : t = Least(IF drain THEN FinalTick(n) ELSE LiveTarget(n),
                         pb.tick + Least(elapsed, CapUnits))
  OBVIOUS
<1>4. /\ t \in Nat /\ FirstTick(n) <= t /\ t <= FinalTick(n)
      /\ ~drain => t <= LiveTarget(n) /\ t >= pb.tick
  <2>1. PICK e : e = Least(elapsed, CapUnits)
    OBVIOUS
  <2>2. e \in Nat
    BY <1>1, <2>1 DEF Least
  <2>3. CASE drain
    BY <1>1, <1>2, <1>3, <2>1, <2>2, <2>3 DEF Least
  <2>4. CASE ~drain
    <3>1. t = Least(LiveTarget(n), pb.tick + e)
      BY <1>3, <2>1, <2>4
    <3> QED
      BY <1>1, <1>2, <2>2, <2>4, <3>1 DEF Least
  <2> QED
    BY <2>3, <2>4
<1>5. PlayheadFits(PlayheadAt(n, t, TRUE, FALSE), n, way)
  BY <1>2, <1>4, PutFits
<1>6. PlayheadAt(n, t, TRUE, FALSE).tick = t
  BY DEF PlayheadAt
<1>7. \/ AdvancedLive(pb, n, elapsed, drain) = pb
      \/ AdvancedLive(pb, n, elapsed, drain) = PlayheadAt(n, t, TRUE, FALSE)
  BY <1>3 DEF AdvancedLive
<1>8. CASE AdvancedLive(pb, n, elapsed, drain) = pb
  BY <1>2, <1>8
<1>9. CASE AdvancedLive(pb, n, elapsed, drain) = PlayheadAt(n, t, TRUE, FALSE)
  BY <1>4, <1>5, <1>6, <1>9
<1> QED
  BY <1>7, <1>8, <1>9

(* What kind of playback a screen asks for, and what moves its playhead. *)
Kind(s) == IF Live(s) THEN "live" ELSE "replay"
Way(c, s) == IF ~FollowingRun(c, s) THEN "replay" ELSE IF c.drain THEN "drain" ELSE "live"

(* Controls and the screen they are on. *)
ControlsFit(c, s) ==
  /\ c \in ControlSets /\ s \in Screens
  /\ Mounted(s) => c.for = Kind(s) /\ PlayheadFits(c.pb, s.n, Way(c, s))
  /\ ~Mounted(s) => c = Fresh(c.still)
  /\ TimesFit(c, s)

(* The playhead follows the samples. *)
LEMMA OnSamplesFits ==
  ASSUME NEW d \in ControlSets, NEW t \in Screens
  PROVE  LET e == OnSamples(d, t) IN
         /\ e \in ControlSets /\ e.for = Kind(t)
         /\ e.timer = d.timer /\ e.clock = d.clock /\ e.speed = d.speed /\ e.still = d.still
         /\ PlayheadFits(e.pb, t.n, IF FollowingRun(e, t) THEN "live" ELSE "replay")
         /\ d.for = Kind(t) => /\ e.manual = d.manual /\ e.drain = d.drain
                               /\ FollowingRun(d, t) => e.pb = ReconciledLive(d.pb, t.n, d.still)
<1>1. /\ t.n \in 0 .. Len(Ticks) /\ d.pb.tick \in Nat /\ d.still \in BOOLEAN
      /\ d.requested \in BOOLEAN /\ d.manual \in BOOLEAN
  BY DEF ControlSets, Screens, Playheads
<1>2. Live(t) \in BOOLEAN /\ Kind(t) \in {"live", "replay"}
  BY DEF Live, Kind
<1>3. PICK r \in BOOLEAN : r = (d.requested /\ ~d.still)
  BY <1>1
<1>4. PICK q \in BOOLEAN : q = ~d.still
  BY <1>1
<1>5. /\ PlayheadFits(CreatedLive(t.n, d.still), t.n, "live")
      /\ PlayheadFits(Created(t.n, q), t.n, "replay")
      /\ PlayheadFits(ReconciledLive(d.pb, t.n, d.still), t.n, "live")
      /\ PlayheadFits(Reconciled(d.pb, t.n, r), t.n, "replay")
  BY <1>1, CreatedLiveFits, CreatedFits, ReconciledLiveFits, ReconciledFits
<1>6. PICK e : e = OnSamples(d, t)
  OBVIOUS
<1>7. CASE d.for # Kind(t)
  <2>1. PICK pb : pb = IF Live(t) THEN CreatedLive(t.n, d.still) ELSE Created(t.n, q)
    OBVIOUS
  <2>2. PICK a \in BOOLEAN : a = (~Live(t) /\ ~d.still)
    BY <1>1, <1>2
  <2>3. pb \in Playheads
    BY <1>5, <2>1 DEF PlayheadFits
  <2>4. e = [d EXCEPT !.for = Kind(t), !.manual = FALSE, !.drain = FALSE, !.requested = a, !.pb = pb]
    BY <1>4, <1>6, <1>7, <2>1, <2>2 DEF OnSamples, Kind
  <2>5. /\ e.for = Kind(t) /\ e.manual = FALSE /\ e.pb = pb /\ e.timer = d.timer
        /\ e.clock = d.clock /\ e.speed = d.speed /\ e.still = d.still
    BY <2>4 DEF ControlSets
  <2>6. e \in ControlSets
    BY <1>2, <2>3, <2>4 DEF ControlSets
  <2>7. FollowingRun(e, t) <=> Live(t)
    BY <2>5 DEF FollowingRun
  <2>8. PlayheadFits(pb, t.n, IF FollowingRun(e, t) THEN "live" ELSE "replay")
    BY <1>5, <2>1, <2>7
  <2> QED
    BY <1>6, <1>7, <2>5, <2>6, <2>8
<1>8. CASE d.for = Kind(t)
  <2>1. PICK pb : pb = IF FollowingRun(d, t) THEN ReconciledLive(d.pb, t.n, d.still)
                       ELSE Reconciled(d.pb, t.n, r)
    OBVIOUS
  <2>2. pb \in Playheads
    BY <1>5, <2>1 DEF PlayheadFits
  <2>3. e = [d EXCEPT !.pb = pb]
    BY <1>3, <1>6, <1>8, <2>1 DEF OnSamples, Kind
  <2>4. /\ e.for = d.for /\ e.manual = d.manual /\ e.pb = pb /\ e.timer = d.timer
        /\ e.clock = d.clock /\ e.speed = d.speed /\ e.still = d.still /\ e.drain = d.drain
    BY <2>3 DEF ControlSets
  <2>5. e \in ControlSets
    BY <2>2, <2>3 DEF ControlSets
  <2>6. FollowingRun(e, t) <=> FollowingRun(d, t)
    BY <2>4 DEF FollowingRun
  <2>7. PlayheadFits(pb, t.n, IF FollowingRun(e, t) THEN "live" ELSE "replay")
    BY <1>5, <2>1, <2>6
  <2> QED
    BY <1>6, <1>8, <2>1, <2>4, <2>5, <2>7
<1> QED
  BY <1>7, <1>8

(* The effects of an update leave controls that fit the screen. *)
LEMMA EffectsFit ==
  ASSUME NEW c \in ControlSets, NEW s \in Screens, NEW d \in ControlSets, NEW t \in Screens,
         TimesFit(c, s), d.timer = c.timer, d.clock = c.clock, Mounted(t)
  PROVE  /\ ControlsFit(Effects(c, s, d, t), t)
         /\ Effects(c, s, d, t).pb = OnSamples(d, t).pb
         /\ Effects(c, s, d, t).manual = OnSamples(d, t).manual
<1>1. PICK e : e = OnSamples(d, t)
  OBVIOUS
<1>2. /\ e \in ControlSets /\ e.for = Kind(t) /\ e.timer = d.timer /\ e.clock = d.clock
      /\ PlayheadFits(e.pb, t.n, IF FollowingRun(e, t) THEN "live" ELSE "replay")
  BY <1>1, OnSamplesFits
<1>3. PICK turned \in BOOLEAN : turned = (FollowingRun(c, s) # FollowingRun(e, t))
  OBVIOUS
<1>4. PICK anew \in BOOLEAN : anew = (turned \/ s.n # t.n \/ c.for = "none")
  OBVIOUS
<1>5. PICK f : f = OnIdle(e, t, anew)
  OBVIOUS
<1>6. PICK tick \in BOOLEAN : tick = (FollowingRun(e, t) /\ t.n > 1)
  OBVIOUS
<1>7. /\ f \in ControlSets /\ f.for = e.for /\ f.pb = e.pb /\ f.manual = e.manual
      /\ f.clock = e.clock
      /\ anew => f.drain = FALSE /\ f.timer = tick
      /\ ~anew => f.timer = e.timer
  <2>1. CASE anew
    <3>1. f = [e EXCEPT !.drain = FALSE, !.timer = tick]
      BY <1>5, <1>6, <2>1 DEF OnIdle
    <3> QED
      BY <1>2, <2>1, <3>1 DEF ControlSets
  <2>2. CASE ~anew
    BY <1>5, <2>2, <1>2 DEF OnIdle
  <2> QED
    BY <2>1, <2>2
<1>8. PICK g : g = Effects(c, s, d, t)
  OBVIOUS
<1>9. PICK same \in BOOLEAN : same = (/\ ~turned /\ f.drain = c.drain /\ f.speed = c.speed
                                      /\ f.pb.playing = c.pb.playing)
  OBVIOUS
<1>10. g = IF same THEN f ELSE [f EXCEPT !.clock = NoClock]
  BY <1>1, <1>3, <1>4, <1>5, <1>8, <1>9 DEF Effects
<1>11. NoClock \in Clocks
  BY DEF NoClock, Clocks
<1>12. /\ g \in ControlSets /\ g.for = e.for /\ g.pb = e.pb /\ g.manual = e.manual
       /\ g.drain = f.drain /\ g.timer = f.timer
       /\ g.clock = NoClock \/ (~turned /\ g.clock = c.clock)
  <2>1. CASE same
    BY <1>2, <1>7, <1>9, <1>10, <2>1
  <2>2. CASE ~same
    BY <1>7, <1>10, <1>11, <2>2 DEF ControlSets
  <2> QED
    BY <2>1, <2>2
<1>13. FollowingRun(g, t) <=> FollowingRun(e, t)
  BY <1>12 DEF FollowingRun
<1>14. PlayheadFits(g.pb, t.n, Way(g, t))
  <2>1. CASE ~FollowingRun(e, t)
    BY <1>2, <1>12, <1>13, <2>1 DEF Way
  <2>2. CASE FollowingRun(e, t)
    BY <1>2, <1>12, <1>13, <2>2, LiveIsDrain DEF Way
  <2> QED
    BY <2>1, <2>2
<1>15. TimesFit(g, t)
  <2>1. g.timer => FollowingRun(g, t) /\ t.n > 1
    <3>1. CASE anew
      BY <1>6, <1>7, <1>12, <1>13, <3>1
    <3>2. CASE ~anew
      BY <1>2, <1>3, <1>4, <1>7, <1>12, <1>13, <3>2 DEF TimesFit
    <3> QED
      BY <3>1, <3>2
  <2>2. g.clock.on /\ ~FollowingRun(g, t) => At(1) <= g.clock.anchor
    <3>1. CASE g.clock = NoClock
      BY <3>1 DEF NoClock
    <3>2. CASE ~turned /\ g.clock = c.clock
      BY <1>3, <1>13, <3>2 DEF TimesFit
    <3> QED
      BY <1>12, <3>1, <3>2
  <2> QED
    BY <2>1, <2>2 DEF TimesFit
<1> QED
  BY <1>1, <1>2, <1>8, <1>12, <1>14, <1>15 DEF ControlsFit

(* Nothing but the user moves a playhead back while it follows a run. *)
Forward(c, s, d, t) ==
  /\ FollowingRun(c, s) /\ FollowingRun(d, t) /\ Mounted(s) /\ Mounted(t)
  /\ ~c.drain /\ t.n >= s.n
  => d.pb.tick >= c.pb.tick

(* The map, the samples it shows, and those that are on their way to it. *)
Traces == [n : 0 .. Len(Ticks), status : Statuses, first : BOOLEAN]

PlaybackInv ==
  /\ viewed \in [mode : {"live", "replay"}, n : 0 .. Len(Ticks), status : Statuses]
  /\ answers \subseteq Traces
  /\ ControlsFit(controls, screen)

(* What the server says is a trace. *)
LEMMA AnswerIs ==
  ASSUME PlaybackInv, NEW first \in BOOLEAN
  PROVE  Answer(first) \in Traces
<1> QED
  BY DEF PlaybackInv, Answer, Traces

(* Controls that are not mounted have run no effect. *)
LEMMA FreshIs ==
  ASSUME NEW still \in BOOLEAN
  PROVE  /\ Fresh(still) \in ControlSets /\ Fresh(still).still = still
         /\ \A s : TimesFit(Fresh(still), s)
<1>1. Created(0, FALSE) \in Playheads
  <2>1. 0 \in 0 .. Len(Ticks)
    BY TimesAre
  <2> QED
    BY <2>1, CreatedFits DEF PlayheadFits
<1>2. NoClock \in Clocks /\ NoClock.on = FALSE
  BY DEF NoClock, Clocks
<1>3. PICK pb, clock : pb = Created(0, FALSE) /\ clock = NoClock
  OBVIOUS
<1>4. PICK c : c = Fresh(still)
  OBVIOUS
<1>5. c = [for |-> "none", manual |-> FALSE, requested |-> FALSE, drain |-> FALSE,
           timer |-> FALSE, speed |-> 1, pb |-> pb, clock |-> clock, still |-> still]
  BY <1>3, <1>4 DEF Fresh
<1>6. c \in ControlSets
  <2>1. pb \in Playheads
    BY <1>1, <1>3
  <2>2. clock \in Clocks
    BY <1>2, <1>3
  <2>3. 1 \in Nat \ {0}
    OBVIOUS
  <2> QED
    BY <1>5, <2>1, <2>2, <2>3 DEF ControlSets
<1>7. c.timer = FALSE /\ c.clock.on = FALSE /\ c.still = still
  BY <1>2, <1>3, <1>5
<1>8. \A s : TimesFit(c, s)
  BY <1>7 DEF TimesFit
<1> QED
  BY <1>4, <1>6, <1>7, <1>8

(* A run that is followed shows more samples further on. *)
LEMMA MoreIsForward ==
  ASSUME NEW n \in 0 .. Len(Ticks), NEW m \in 0 .. Len(Ticks), n <= m, NEW still \in BOOLEAN,
         NEW pb, PlayheadFits(pb, n, "live")
  PROVE  ReconciledLive(pb, m, still).tick >= pb.tick
<1>1. /\ FirstTick(n) \in Nat /\ FinalTick(n) \in Nat /\ FirstTick(m) \in Nat
      /\ FinalTick(m) \in Nat /\ FirstTick(n) <= FinalTick(n) /\ Delay \in Nat
      /\ FinalTick(n) <= FinalTick(m) /\ (n > 0 => FirstTick(m) = FirstTick(n))
      /\ n = 0 => FirstTick(n) = 0 /\ FinalTick(n) = 0
      /\ LiveTarget(m) \in Nat /\ FirstTick(m) <= LiveTarget(m) /\ n \in Nat /\ m \in Nat
  BY EndsAre, EndsGrow, LiveTargetIs, TimesAre
<1>2. pb.tick \in Nat /\ FirstTick(n) <= pb.tick /\ pb.tick <= FinalTick(n) /\ Buffered(pb.tick, n)
  BY DEF PlayheadFits, Playheads
<1>3. pb.tick <= LiveTarget(m)
  <2>1. CASE n = 0
    BY <1>1, <1>2, <2>1
  <2>2. CASE n > 0
    BY <1>1, <1>2, <2>2, LiveTargetIs DEF Buffered
  <2> QED
    BY <1>1, <2>1, <2>2
<1>4. \A q, p, o : PlayheadAt(m, q, p, o).tick = q
  BY DEF PlayheadAt
<1>5. CASE m = 0
  <2>1. pb.tick = 0 /\ FirstTick(m) \in Nat
    BY <1>1, <1>2, <1>5
  <2>2. ReconciledLive(pb, m, still) = CreatedLive(m, still)
    BY <1>5 DEF ReconciledLive
  <2>3. CreatedLive(m, still).tick = LiveTarget(m)
    BY <1>4 DEF CreatedLive
  <2> QED
    BY <1>1, <2>1, <2>2, <2>3
<1>6. CASE m # 0
  <2>1. PICK stale : stale = (still \/ pb.tick < FirstTick(m) \/ LiveTarget(m) > pb.tick + 2 * Delay)
    OBVIOUS
  <2>2. PICK q : q = IF stale THEN LiveTarget(m) ELSE Least(pb.tick, LiveTarget(m))
    OBVIOUS
  <2>3. ReconciledLive(pb, m, still).tick = q
    BY <1>4, <1>6, <2>1, <2>2 DEF ReconciledLive
  <2>4. q >= pb.tick
    BY <1>1, <1>2, <1>3, <2>2 DEF Least
  <2> QED
    BY <2>3, <2>4
<1> QED
  BY <1>5, <1>6

(* An update that leaves the user's choices as they are. *)
LEMMA UpdateFits ==
  ASSUME ControlsFit(controls, screen), NEW t \in Screens, Mounted(t)
  PROVE  /\ ControlsFit(Effects(controls, screen, controls, t), t)
         /\ Forward(controls, screen, Effects(controls, screen, controls, t), t)
<1>1. controls \in ControlSets /\ screen \in Screens /\ TimesFit(controls, screen)
  BY DEF ControlsFit
<1>2. PICK g, e : g = Effects(controls, screen, controls, t) /\ e = OnSamples(controls, t)
  OBVIOUS
<1>3. ControlsFit(g, t) /\ g.pb = e.pb /\ g.manual = e.manual
  BY <1>1, <1>2, EffectsFit
<1>4. Forward(controls, screen, g, t)
  <2> SUFFICES ASSUME FollowingRun(controls, screen), FollowingRun(g, t), Mounted(screen),
                      ~controls.drain, t.n >= screen.n
               PROVE  g.pb.tick >= controls.pb.tick
    BY DEF Forward
  <2>1. Way(controls, screen) = "live" /\ Live(t) /\ Live(screen) /\ ~controls.manual
    BY DEF Way, FollowingRun
  <2>2. PlayheadFits(controls.pb, screen.n, "live") /\ controls.for = Kind(t)
    BY <2>1 DEF ControlsFit, Kind
  <2>3. FollowingRun(controls, t)
    BY <2>1 DEF FollowingRun
  <2>4. e.pb = ReconciledLive(controls.pb, t.n, controls.still)
    BY <1>1, <1>2, <2>2, <2>3, OnSamplesFits
  <2>5. /\ screen.n \in 0 .. Len(Ticks) /\ t.n \in 0 .. Len(Ticks) /\ screen.n <= t.n
        /\ controls.still \in BOOLEAN
    BY <1>1 DEF Screens, ControlSets
  <2> QED
    BY <1>3, <2>2, <2>4, <2>5, MoreIsForward
<1> QED
  BY <1>2, <1>3, <1>4

(* What the user does. *)
LEMMA ActFits ==
  ASSUME ControlsFit(controls, screen), NEW d \in ControlSets, Act(d),
         d.timer = controls.timer, d.clock = controls.clock, d.for = controls.for,
         ~FollowingRun(controls, screen) \/ d.manual
  PROVE  /\ ControlsFit(controls', screen') /\ UNCHANGED <<viewed, answers>>
         /\ Forward(controls, screen, controls', screen')
<1>1. /\ Mounted(screen) /\ UNCHANGED <<viewed, answers, screen>>
      /\ controls' = Effects(controls, screen, d, screen)
  BY DEF Act
<1>2. controls \in ControlSets /\ screen \in Screens /\ TimesFit(controls, screen)
  BY DEF ControlsFit
<1>3. PICK g, e : g = Effects(controls, screen, d, screen) /\ e = OnSamples(d, screen)
  OBVIOUS
<1>4. ControlsFit(g, screen) /\ g.manual = e.manual
  BY <1>1, <1>2, <1>3, EffectsFit
<1>5. e.manual = d.manual
  BY <1>1, <1>2, <1>3, OnSamplesFits DEF ControlsFit
<1>6. Forward(controls, screen, g, screen)
  BY <1>4, <1>5 DEF Forward, FollowingRun
<1> QED
  BY <1>1, <1>3, <1>4, <1>6

(* Made anew, a playhead is one. *)
LEMMA PlayheadsAre ==
  ASSUME NEW n \in 0 .. Len(Ticks)
  PROVE  /\ \A playing \in BOOLEAN : Created(n, playing) \in Playheads
         /\ \A still \in BOOLEAN : CreatedLive(n, still) \in Playheads
         /\ \A pb \in Playheads, playing \in BOOLEAN : SetPlaying(pb, n, playing) \in Playheads
         /\ \A frame \in Nat : Scrubbed(n, frame) \in Playheads
<1>1. \A playing \in BOOLEAN : Created(n, playing) \in Playheads
  BY CreatedFits DEF PlayheadFits
<1>2. \A still \in BOOLEAN : CreatedLive(n, still) \in Playheads
  BY CreatedLiveFits DEF PlayheadFits
<1>3. ASSUME NEW pb \in Playheads, NEW playing \in BOOLEAN
      PROVE  SetPlaying(pb, n, playing) \in Playheads
  BY <1>1 DEF Playheads, SetPlaying
<1>4. ASSUME NEW frame \in Nat
      PROVE  Scrubbed(n, frame) \in Playheads
  <2>1. PICK to : to = Least(frame, IF n = 0 THEN 0 ELSE n - 1)
    OBVIOUS
  <2>2. to \in Nat /\ (n # 0 => to + 1 \in 1 .. Len(Ticks))
    BY <2>1, TimesAre DEF Least
  <2>3. PICK q : q = IF n = 0 THEN 0 ELSE At(to + 1)
    OBVIOUS
  <2>4. q \in Nat
    BY <2>2, <2>3, TimesAre
  <2>5. PICK o \in BOOLEAN : o = (n < 2 \/ to + 1 >= n)
    OBVIOUS
  <2>6. Scrubbed(n, frame) = [tick |-> q, frame |-> to, playing |-> FALSE, ended |-> o]
    BY <2>1, <2>3, <2>5 DEF Scrubbed
  <2> QED
    BY <2>2, <2>4, <2>6 DEF Playheads
<1> QED
  BY <1>1, <1>2, <1>3, <1>4

(* Every act of the user is one of those. *)
LEMMA UserFits ==
  ASSUME ControlsFit(controls, screen), Replay \/ GoLive \/ Toggle \/ Scrub \/ SetSpeed
  PROVE  /\ ControlsFit(controls', screen') /\ UNCHANGED <<viewed, answers>>
         /\ Forward(controls, screen, controls', screen')
<1>1. controls \in ControlSets /\ screen.n \in 0 .. Len(Ticks) /\ Live(screen) \in BOOLEAN
  BY DEF ControlsFit, Screens, Live
<1>2. /\ controls.still \in BOOLEAN /\ controls.pb \in Playheads /\ controls.requested \in BOOLEAN
      /\ controls.pb.playing \in BOOLEAN
  BY <1>1 DEF ControlSets, Playheads
<1>3. PICK live \in BOOLEAN, moving \in BOOLEAN : live = Live(screen) /\ moving = ~controls.still
  BY <1>1, <1>2
<1>4. CASE Replay
  <2>1. PICK pb \in Playheads : pb = Created(screen.n, moving)
    BY <1>1, PlayheadsAre
  <2>2. PICK d : d = [controls EXCEPT !.manual = live, !.requested = moving, !.drain = FALSE,
                                      !.pb = pb]
    OBVIOUS
  <2>3. Act(d)
    BY <1>3, <1>4, <2>1, <2>2 DEF Replay
  <2>4. /\ d \in ControlSets /\ d.timer = controls.timer /\ d.clock = controls.clock
        /\ d.for = controls.for /\ d.manual = live
    BY <1>1, <2>2 DEF ControlSets
  <2>5. ~FollowingRun(controls, screen) \/ d.manual
    BY <1>3, <2>4 DEF FollowingRun
  <2> QED
    BY <2>3, <2>4, <2>5, ActFits
<1>5. CASE GoLive
  <2>1. PICK pb \in Playheads : pb = CreatedLive(screen.n, controls.still)
    BY <1>1, <1>2, PlayheadsAre
  <2>2. PICK d : d = [controls EXCEPT !.manual = FALSE, !.requested = FALSE, !.drain = FALSE,
                                      !.pb = pb]
    OBVIOUS
  <2>3. Act(d) /\ controls.manual
    BY <1>5, <2>1, <2>2 DEF GoLive
  <2>4. /\ d \in ControlSets /\ d.timer = controls.timer /\ d.clock = controls.clock
        /\ d.for = controls.for
    BY <1>1, <2>2 DEF ControlSets
  <2>5. ~FollowingRun(controls, screen)
    BY <2>3 DEF FollowingRun
  <2> QED
    BY <2>3, <2>4, <2>5, ActFits
<1>6. CASE Toggle
  <2>1. PICK playing \in BOOLEAN :
          playing = ~(controls.pb.playing \/ (Live(screen) /\ controls.requested))
    OBVIOUS
  <2>2. PICK pb \in Playheads : pb = SetPlaying(controls.pb, screen.n, playing)
    BY <1>1, <1>2, PlayheadsAre
  <2>3. PICK d : d = [controls EXCEPT !.requested = playing, !.pb = pb]
    OBVIOUS
  <2>4. Act(d) /\ ~FollowingRun(controls, screen)
    BY <1>6, <2>1, <2>2, <2>3 DEF Toggle
  <2>5. /\ d \in ControlSets /\ d.timer = controls.timer /\ d.clock = controls.clock
        /\ d.for = controls.for
    BY <1>1, <2>3 DEF ControlSets
  <2> QED
    BY <2>4, <2>5, ActFits
<1>7. CASE Scrub
  <2>1. PICK frame \in 0 .. (Len(Ticks) - 1) :
          Act([controls EXCEPT !.manual = Live(screen), !.requested = FALSE,
                               !.pb = Scrubbed(screen.n, frame)])
    BY <1>7 DEF Scrub
  <2>2. PICK pb \in Playheads : pb = Scrubbed(screen.n, frame)
    BY <1>1, PlayheadsAre
  <2>3. PICK d : d = [controls EXCEPT !.manual = live, !.requested = FALSE, !.pb = pb]
    OBVIOUS
  <2>4. Act(d)
    BY <1>3, <2>1, <2>2, <2>3
  <2>5. /\ d \in ControlSets /\ d.timer = controls.timer /\ d.clock = controls.clock
        /\ d.for = controls.for /\ d.manual = live
    BY <1>1, <2>3 DEF ControlSets
  <2>6. ~FollowingRun(controls, screen) \/ d.manual
    BY <1>3, <2>5 DEF FollowingRun
  <2> QED
    BY <2>4, <2>5, <2>6, ActFits
<1>8. CASE SetSpeed
  <2>1. PICK speed \in Speeds : Act([controls EXCEPT !.speed = speed])
    BY <1>8 DEF SetSpeed
  <2>2. ~FollowingRun(controls, screen) /\ speed \in Nat \ {0}
    BY <1>8, PlaybackAssumption DEF SetSpeed
  <2>3. PICK d : d = [controls EXCEPT !.speed = speed]
    OBVIOUS
  <2>4. /\ d \in ControlSets /\ d.timer = controls.timer /\ d.clock = controls.clock
        /\ d.for = controls.for
    BY <1>1, <2>2, <2>3 DEF ControlSets
  <2> QED
    BY <2>1, <2>2, <2>3, <2>4, ActFits
<1> QED
  BY <1>4, <1>5, <1>6, <1>7, <1>8

(* The page hears of its mode. *)
LEMMA StateArrivesFits ==
  ASSUME PlaybackInv, StateArrives
  PROVE  PlaybackInv' /\ Forward(controls, screen, controls', screen')
<1>1. /\ screen' = [screen EXCEPT !.mode = viewed.mode] /\ UNCHANGED <<viewed, answers>>
      /\ controls' = IF Mounted(screen) THEN Effects(controls, screen, controls, screen')
                     ELSE controls
  BY DEF StateArrives
<1>2. ControlsFit(controls, screen) /\ screen \in Screens /\ viewed.mode \in {"live", "replay"}
  BY DEF PlaybackInv, ControlsFit
<1>3. PICK t : t = screen'
  OBVIOUS
<1>4. /\ t \in Screens /\ t.n = screen.n /\ t.shown = screen.shown /\ t.error = screen.error
  BY <1>1, <1>2, <1>3 DEF Screens
<1>5. Mounted(t) <=> Mounted(screen)
  BY <1>4 DEF Mounted
<1>6. CASE Mounted(screen)
  BY <1>1, <1>3, <1>6, <1>2, <1>4, <1>5, UpdateFits DEF PlaybackInv
<1>7. CASE ~Mounted(screen)
  BY <1>1, <1>2, <1>7, <1>4, <1>5, FreshIs, <1>3 DEF ControlsFit, ControlSets,
     PlaybackInv, Forward
<1> QED
  BY <1>6, <1>7

(* A trace arrives, whichever it is. *)
LEMMA WorldArrivesFits ==
  ASSUME PlaybackInv, WorldArrives
  PROVE  PlaybackInv' /\ Forward(controls, screen, controls', screen')
<1>1. PICK a \in answers :
        /\ screen' = [screen EXCEPT !.n = a.n, !.status = a.status, !.shown = TRUE,
                                    !.error = FALSE]
        /\ controls' = Effects(controls, screen, controls, screen')
        /\ answers' = (answers \ {a}) \cup
             (IF a.first /\ a.status = "live" THEN {Answer(FALSE)} ELSE {})
        /\ UNCHANGED <<viewed, budget>>
  BY DEF WorldArrives
<1>2. ControlsFit(controls, screen) /\ screen \in Screens /\ a \in Traces
  BY DEF PlaybackInv, ControlsFit
<1>3. PICK t : t = screen'
  OBVIOUS
<1>4. t \in Screens /\ Mounted(t)
  BY <1>1, <1>2, <1>3 DEF Screens, Traces, Mounted
<1>5. answers' \subseteq Traces
  BY AnswerIs, <1>1 DEF PlaybackInv
<1>6. controls' = Effects(controls, screen, controls, t)
  BY <1>1, <1>3
<1> QED
  BY <1>1, <1>2, <1>3, <1>4, <1>5, <1>6, UpdateFits DEF PlaybackInv

(* A fetch that fails takes the controls down. *)
LEMMA WorldLostFits ==
  ASSUME PlaybackInv, WorldLost
  PROVE  PlaybackInv' /\ Forward(controls, screen, controls', screen')
<1>1. /\ answers' \subseteq answers /\ UNCHANGED viewed
      /\ screen' = [screen EXCEPT !.error = TRUE] /\ controls' = Fresh(controls.still)
  BY DEF WorldLost
<1>2. screen \in Screens /\ controls.still \in BOOLEAN
  BY DEF PlaybackInv, ControlsFit, ControlSets
<1>3. screen' \in Screens /\ ~Mounted(screen')
  BY <1>1, <1>2 DEF Screens, Mounted
<1>4. ControlsFit(controls', screen')
  BY <1>1, <1>2, <1>3, FreshIs DEF ControlsFit
<1> QED
  BY <1>1, <1>3, <1>4 DEF PlaybackInv, Forward

(* The server records and tells. *)
LEMMA ServerFits ==
  ASSUME PlaybackInv, RecordSample \/ PollTrace \/ PushTick
  PROVE  PlaybackInv' /\ Forward(controls, screen, controls', screen')
<1>1. UNCHANGED <<screen, controls>>
  BY DEF RecordSample, PollTrace, PushTick
<1>2. controls.pb.tick \in Nat
  BY DEF PlaybackInv, ControlsFit, ControlSets, Playheads
<1>3. Forward(controls, screen, controls', screen')
  BY <1>1, <1>2 DEF Forward
<1>4. CASE RecordSample
  <2>1. PICK status \in {"live", "completed"} :
          viewed' = [viewed EXCEPT !.n = viewed.n + 1, !.status = status]
    BY <1>4 DEF RecordSample
  <2>2. viewed.n + 1 \in 0 .. Len(Ticks) /\ UNCHANGED answers
    BY <1>4, TimesAre DEF RecordSample, PlaybackInv
  <2> QED
    BY <1>1, <1>3, <2>1, <2>2 DEF PlaybackInv, Statuses
<1>5. CASE PollTrace
  BY <1>1, <1>3, <1>5 DEF PollTrace, PlaybackInv
<1>6. CASE PushTick
  BY AnswerIs, <1>1, <1>3, <1>6 DEF PushTick, RefreshWorld, PlaybackInv
<1> QED
  BY <1>4, <1>5, <1>6

(* The idle timer fires. *)
LEMMA DrainFiresFits ==
  ASSUME PlaybackInv, DrainFires
  PROVE  PlaybackInv' /\ Forward(controls, screen, controls', screen')
<1>1. PICK c, s : c = controls /\ s = screen
  OBVIOUS
<1>2. PICK pb : pb = [c.pb EXCEPT !.playing = TRUE, !.ended = FALSE]
  OBVIOUS
<1>3. PICK d : d = [c EXCEPT !.timer = FALSE, !.drain = TRUE, !.clock = NoClock, !.pb = pb]
  OBVIOUS
<1>4. c.timer /\ controls' = d /\ UNCHANGED <<viewed, answers, screen>>
  BY <1>1, <1>2, <1>3 DEF DrainFires
<1>5. ControlsFit(c, s) /\ c \in ControlSets /\ s \in Screens /\ c.pb \in Playheads
  BY <1>1 DEF PlaybackInv, ControlsFit, ControlSets
<1>6. FollowingRun(c, s) /\ s.n > 1
  BY <1>4, <1>5 DEF ControlsFit, TimesFit
<1>7. Mounted(s)
  <2>1. ~Mounted(s) => c.timer = FALSE
    BY <1>5 DEF ControlsFit, Fresh
  <2> QED
    BY <1>4, <2>1
<1>8. PlayheadFits(c.pb, s.n, "drain") /\ c.for = Kind(s)
  BY <1>5, <1>6, <1>7, LiveIsDrain DEF ControlsFit, Way
<1>9. /\ pb.tick = c.pb.tick /\ pb.frame = c.pb.frame /\ pb.playing = TRUE /\ pb.ended = FALSE
      /\ pb \in Playheads
  BY <1>2, <1>5 DEF Playheads
<1>10. PlayheadFits(pb, s.n, "drain")
  BY <1>6, <1>8, <1>9 DEF PlayheadFits
<1>11. NoClock \in Clocks /\ NoClock.on = FALSE
  BY DEF NoClock, Clocks
<1>12. /\ d \in ControlSets /\ d.timer = FALSE /\ d.drain = TRUE /\ d.clock = NoClock /\ d.pb = pb
       /\ d.for = c.for /\ d.manual = c.manual
  BY <1>3, <1>5, <1>9, <1>11 DEF ControlSets
<1>13. FollowingRun(d, s)
  BY <1>6, <1>12 DEF FollowingRun
<1>14. TimesFit(d, s)
  BY <1>12, <1>13 DEF TimesFit
<1>15. ControlsFit(d, s)
  BY <1>5, <1>7, <1>8, <1>10, <1>12, <1>13, <1>14 DEF ControlsFit, Way
<1>16. Forward(c, s, d, s)
  BY <1>5, <1>9, <1>12 DEF Playheads, Forward
<1> QED
  BY <1>1, <1>4, <1>15, <1>16 DEF PlaybackInv

(* A frame of a replay. *)
LEMMA SteppedFits ==
  ASSUME NEW c, NEW s, ControlsFit(c, s), Mounted(s), ~FollowingRun(c, s), c.pb.playing,
         s.n > 1, NEW elapsed \in Nat \ {0}
  PROVE  ControlsFit(Stepped(c, s.n, elapsed), s)
<1>1. /\ c \in ControlSets /\ s \in Screens /\ c.for = Kind(s) /\ TimesFit(c, s)
      /\ PlayheadFits(c.pb, s.n, "replay") /\ s.n \in 0 .. Len(Ticks)
  BY DEF ControlsFit, Way, Screens
<1>2. /\ c.clock.on \in BOOLEAN /\ c.clock.anchor \in Nat /\ c.clock.total \in Nat
      /\ c.pb.tick \in Nat /\ c.speed \in Nat /\ c.speed # 0 /\ c.pb \in Playheads /\ c.clock \in Clocks
  BY <1>1 DEF ControlSets, Clocks, Playheads
<1>3. PICK clock : clock = IF c.clock.on THEN [c.clock EXCEPT !.total = c.clock.total + elapsed]
                           ELSE [on |-> TRUE, anchor |-> c.pb.tick, total |-> 0]
  OBVIOUS
<1>4. FirstTick(s.n) = At(1) /\ FirstTick(s.n) \in Nat
  BY <1>1, EndsAre
<1>5. /\ clock \in Clocks /\ clock.on = TRUE /\ At(1) <= clock.anchor
      /\ IF c.clock.on THEN clock.total # 0 ELSE clock.total = 0 /\ clock.anchor = c.pb.tick
  <2>1. CASE c.clock.on
    BY <1>2, <1>1, <2>1, <1>3 DEF TimesFit, Clocks
  <2>2. CASE ~c.clock.on
    BY <1>1, <1>4, <1>2, <1>3, <2>2 DEF PlayheadFits, Clocks
  <2> QED
    BY <1>2, <2>1, <2>2
<1>6. clock.anchor \in Nat /\ clock.total \in Nat
  BY <1>5 DEF Clocks
<1>7. PICK from : from = [c.pb EXCEPT !.tick = clock.anchor, !.playing = TRUE, !.ended = FALSE]
  OBVIOUS
<1>8. /\ from \in Playheads /\ from.tick = clock.anchor /\ from.frame = c.pb.frame
      /\ from.playing = TRUE /\ from.ended = FALSE
  BY <1>2, <1>6, <1>7 DEF Playheads
<1>9. PICK time : time = clock.total * c.speed
  OBVIOUS
<1>10. time \in Nat /\ (time = 0 <=> clock.total = 0)
  BY <1>2, <1>6, <1>9
<1>11. PICK pb : pb = Advanced(from, s.n, time)
  OBVIOUS
<1>12. PlayheadFits(pb, s.n, "replay")
  <2>1. CASE c.clock.on
    BY <1>5, <1>10, <2>1, <1>1, <1>4, <1>6, <1>8, <1>11, AdvancedFits
  <2>2. CASE ~c.clock.on
    BY <1>5, <1>10, <2>2, <1>11, <1>1, <1>8 DEF Advanced, PlayheadFits
  <2> QED
    BY <1>2, <2>1, <2>2
<1>13. PICK k : k = IF pb.playing THEN clock ELSE NoClock
  OBVIOUS
<1>14. k \in Clocks /\ (k.on => At(1) <= k.anchor)
  BY <1>5, <1>13 DEF NoClock, Clocks
<1>15. PICK d : d = [c EXCEPT !.pb = pb, !.clock = k]
  OBVIOUS
<1>16. Stepped(c, s.n, elapsed) = d
  BY <1>3, <1>7, <1>9, <1>11, <1>13, <1>15 DEF Stepped
<1>17. /\ d \in ControlSets /\ d.pb = pb /\ d.clock = k /\ d.for = c.for /\ d.manual = c.manual
       /\ d.timer = c.timer
  BY <1>1, <1>12, <1>14, <1>15 DEF ControlSets, PlayheadFits
<1>18. ~FollowingRun(d, s)
  BY <1>17 DEF FollowingRun
<1>19. TimesFit(d, s)
  BY <1>1, <1>14, <1>17, <1>18 DEF TimesFit
<1> QED
  BY <1>1, <1>12, <1>16, <1>17, <1>18, <1>19 DEF ControlsFit, Way

(* The browser shows a frame. *)
LEMMA AnimationFrameFits ==
  ASSUME PlaybackInv, AnimationFrame
  PROVE  PlaybackInv' /\ Forward(controls, screen, controls', screen')
<1>1. PICK c, s : c = controls /\ s = screen
  OBVIOUS
<1>2. /\ Mounted(s) /\ c.pb.playing /\ s.n > 1 /\ UNCHANGED <<viewed, answers, screen>>
  BY <1>1 DEF AnimationFrame
<1>3. PICK elapsed \in FrameSteps :
        \/ ~FollowingRun(c, s) /\ controls' = Stepped(c, s.n, elapsed)
        \/ /\ FollowingRun(c, s) /\ ~c.clock.on
           /\ controls' = [c EXCEPT !.clock = [c.clock EXCEPT !.on = TRUE]]
        \/ /\ FollowingRun(c, s)
           /\ controls' = [c EXCEPT !.pb = AdvancedLive(c.pb, s.n, elapsed, c.drain)]
  BY <1>1 DEF AnimationFrame
<1>4. elapsed \in Nat \ {0}
  BY PlaybackAssumption
<1>5. /\ ControlsFit(c, s) /\ c \in ControlSets /\ s \in Screens /\ c.pb \in Playheads
      /\ c.clock \in Clocks /\ s.n \in 0 .. Len(Ticks) /\ c.for = Kind(s)
      /\ c.drain \in BOOLEAN /\ PlayheadFits(c.pb, s.n, Way(c, s)) /\ TimesFit(c, s)
  BY <1>1, <1>2 DEF PlaybackInv, ControlsFit, ControlSets, Screens
<1>6. CASE ~FollowingRun(c, s) /\ controls' = Stepped(c, s.n, elapsed)
  BY <1>2, <1>4, <1>5, <1>6, SteppedFits, <1>1 DEF PlaybackInv, Forward
<1>7. CASE /\ FollowingRun(c, s)
           /\ controls' = [c EXCEPT !.clock = [c.clock EXCEPT !.on = TRUE]]
  <2>1. PICK k : k = [c.clock EXCEPT !.on = TRUE]
    OBVIOUS
  <2>2. k \in Clocks
    BY <1>5, <2>1 DEF Clocks
  <2>3. PICK d : d = [c EXCEPT !.clock = k]
    OBVIOUS
  <2>4. controls' = d
    BY <1>7, <2>1, <2>3
  <2>5. /\ d \in ControlSets /\ d.pb = c.pb /\ d.for = c.for /\ d.manual = c.manual
        /\ d.timer = c.timer /\ d.drain = c.drain
    BY <1>5, <2>2, <2>3 DEF ControlSets
  <2>6. FollowingRun(d, s)
    BY <1>7, <2>5 DEF FollowingRun
  <2>7. TimesFit(d, s) /\ Way(d, s) = Way(c, s)
    BY <1>5, <1>7, <2>5, <2>6 DEF TimesFit, Way
  <2>8. ControlsFit(d, s)
    BY <1>2, <1>5, <2>5, <2>7 DEF ControlsFit
  <2>9. Forward(c, s, d, s)
    BY <1>5, <2>5 DEF Forward, Playheads
  <2> QED
    BY <1>1, <1>2, <2>4, <2>8, <2>9 DEF PlaybackInv
<1>8. CASE /\ FollowingRun(c, s)
           /\ controls' = [c EXCEPT !.pb = AdvancedLive(c.pb, s.n, elapsed, c.drain)]
  <2>1. PICK pb : pb = AdvancedLive(c.pb, s.n, elapsed, c.drain)
    OBVIOUS
  <2>2. Way(c, s) = (IF c.drain THEN "drain" ELSE "live") /\ Way(c, s) \in Ways
    BY <1>8 DEF Way, Ways
  <2>3. PlayheadFits(pb, s.n, Way(c, s)) /\ (~c.drain => pb.tick >= c.pb.tick)
    BY <1>2, <1>4, <1>5, <2>1, <2>2, AdvancedLiveFits
  <2>4. PICK d : d = [c EXCEPT !.pb = pb]
    OBVIOUS
  <2>5. controls' = d
    BY <1>8, <2>1, <2>4
  <2>6. /\ d \in ControlSets /\ d.pb = pb /\ d.for = c.for /\ d.manual = c.manual
        /\ d.timer = c.timer /\ d.drain = c.drain
    BY <1>5, <2>3, <2>4 DEF ControlSets, PlayheadFits
  <2>7. FollowingRun(d, s)
    BY <1>8, <2>6 DEF FollowingRun
  <2>8. TimesFit(d, s) /\ Way(d, s) = Way(c, s)
    BY <1>5, <1>8, <2>6, <2>7 DEF TimesFit, Way
  <2>9. ControlsFit(d, s)
    BY <1>2, <1>5, <2>3, <2>6, <2>8 DEF ControlsFit
  <2>10. Forward(c, s, d, s)
    BY <2>3, <2>6 DEF Forward
  <2> QED
    BY <1>1, <1>2, <2>5, <2>9, <2>10 DEF PlaybackInv
<1> QED
  BY <1>3, <1>6, <1>7, <1>8

(* A page begins without a map. *)
LEMMA PlaybackStarts ==
  ASSUME PlaybackInit
  PROVE  PlaybackInv
<1>1. viewed \in [mode : {"live", "replay"}, n : 0 .. Len(Ticks), status : Statuses]
  BY TimesAre DEF PlaybackInit, Statuses
<1>2. Answer(TRUE) \in Traces
  BY <1>1 DEF Answer, Traces
<1>3. screen \in Screens /\ ~Mounted(screen)
  BY TimesAre DEF PlaybackInit, Screens, Statuses, Mounted
<1>4. PICK still \in BOOLEAN : controls = Fresh(still)
  BY DEF PlaybackInit
<1>5. ControlsFit(controls, screen)
  BY <1>3, <1>4, FreshIs DEF ControlsFit
<1> QED
  BY <1>1, <1>2, <1>5 DEF PlaybackInv, PlaybackInit

(* Every step keeps to it. *)
LEMMA PlaybackSteps ==
  ASSUME PlaybackInv, [PlaybackNext]_playbackVars
  PROVE  PlaybackInv' /\ Forward(controls, screen, controls', screen')
<1>1. CASE RecordSample \/ PollTrace \/ PushTick
  BY <1>1, ServerFits
<1>2. CASE StateArrives \/ WorldArrives \/ WorldLost
  BY <1>2, StateArrivesFits, WorldArrivesFits, WorldLostFits
<1>3. CASE Replay \/ GoLive \/ Toggle \/ Scrub \/ SetSpeed
  BY <1>3, UserFits DEF PlaybackInv
<1>4. CASE DrainFires \/ AnimationFrame
  BY <1>4, DrainFiresFits, AnimationFrameFits
<1>5. CASE UNCHANGED playbackVars
  BY <1>5 DEF PlaybackInv, ControlsFit, ControlSets, Playheads, playbackVars,
     Forward
<1> QED
  BY <1>1, <1>2, <1>3, <1>4, <1>5 DEF PlaybackNext

(* Map and samples fit in every run. *)
THEOREM PlaybackInvAlways == PlaybackSpec => []PlaybackInv
<1>1. PlaybackInit => PlaybackInv
  BY PlaybackStarts
<1>2. PlaybackInv /\ [PlaybackNext]_playbackVars => PlaybackInv'
  BY PlaybackSteps
<1> QED
  BY <1>1, <1>2, PTL DEF PlaybackSpec

(* The playhead is on the samples the page has, at the frame it says, and  *)
(* keeps the buffer while it follows a run, for every recording and        *)
(* whatever order the answers come in (spatialPlayback.ts).                *)
THEOREM PlayheadExactAlways == PlaybackSpec => []PlayheadExact
<1>1. ASSUME PlaybackInv
      PROVE  PlayheadExact
  <2> SUFFICES ASSUME Mounted(screen)
               PROVE  LET pb == controls.pb
                          n  == screen.n
                      IN  /\ FirstTick(n) <= pb.tick /\ pb.tick <= FinalTick(n)
                          /\ pb.frame = FrameAt(n, pb.tick)
                          /\ pb.playing => ~pb.ended /\ n > 1
                          /\ controls.timer => FollowingRun(controls, screen)
                          /\ FollowingRun(controls, screen) /\ ~controls.drain
                               => /\ pb.tick = FirstTick(n) \/ pb.tick + Delay <= FinalTick(n)
                                  /\ pb.playing => FinalTick(n) >= FirstTick(n) + Delay
                          /\ ~FollowingRun(controls, screen) => (pb.playing => pb.tick < FinalTick(n))
    BY DEF PlayheadExact
  <2>1. PlayheadFits(controls.pb, screen.n, Way(controls, screen)) /\ TimesFit(controls, screen)
    BY <1>1 DEF PlaybackInv, ControlsFit
  <2>2. /\ FollowingRun(controls, screen) /\ ~controls.drain => Way(controls, screen) = "live"
        /\ ~FollowingRun(controls, screen) => Way(controls, screen) = "replay"
    BY DEF Way
  <2> QED
    BY <2>1, <2>2 DEF PlayheadFits, TimesFit, Buffered
<1> QED
  BY <1>1, PlaybackInvAlways, PTL

(* A map that follows a run does not run backwards. *)
THEOREM PlayheadForwardAlways == PlaybackSpec => PlayheadForward
<1>1. PlaybackInv /\ [PlaybackNext]_playbackVars
      => [/\ FollowingRun(controls, screen) /\ FollowingRun(controls', screen')
          /\ Mounted(screen) /\ Mounted(screen')
          /\ ~controls.drain /\ screen'.n >= screen.n
          => controls'.pb.tick >= controls.pb.tick]_playbackVars
  BY PlaybackSteps DEF Forward
<1> QED
  BY <1>1, PlaybackInvAlways, PTL DEF PlaybackSpec, PlayheadForward
=============================================================================
