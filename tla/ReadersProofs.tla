---------------------------- MODULE ReadersProofs ----------------------------
(***************************************************************************)
(* Proofs about what those who read a world are told: the results its      *)
(* agents read, page by page (ResultLedger), what is said over Moltnet     *)
(* (WorldDelivery, and MachineClient which sends it), and the page that    *)
(* shows a recorded run (ReplayShell).                                     *)
(*                                                                         *)
(* ResultLedger, for every set of principals, every retention and every    *)
(* number of restores: a reader's promise (Gapless) is not inductive, as   *)
(* what the next page adds depends on what is retained (RetainedExact),    *)
(* and what a restore leaves of it on the checkpoint being a past of the   *)
(* present timeline (Past) and on its lanes being exact as well.           *)
(*                                                                         *)
(* MachineClient, for every set of correlations and limit of the requests  *)
(* under way: the lines that were written and those that still wait are    *)
(* one list (Due), in which every line is there once and a cancel stands   *)
(* behind its request; that holds even in the middle of a step (Sound).    *)
(*                                                                         *)
(* WorldDelivery, for every sequence of events and limit of a page: a      *)
(* message does not lie in Moltnet before the earlier ones do, and the     *)
(* results are of all messages before the next event.                      *)
(*                                                                         *)
(* ReplayShell, for every record, link, speed and frame time and every     *)
(* number of failures, touches and reloads: a page that is reloaded shows  *)
(* the same again because the address holds what can be shown of the       *)
(* sealed timeline (Showable) and is not behind the store (ViewHeld), and  *)
(* the map and the cursor have one clock because the pacer's anchor and    *)
(* its elapsed time tell both (ClockHeld).                                 *)
(***************************************************************************)
EXTENDS ResultLedger, WorldDelivery, ReplayShell, FiniteSetTheorems,
        SequenceTheorems, WellFoundedInduction, TLAPS

(* The checkpoint is exact, and what it knows is how things are still.     *)
Past ==
    \A s \in saved :
        /\ Exact(s.ledger, s.history)
        /\ \A p \in Principal :
              /\ Len(s.history[p]) <= Len(history[p])
              /\ \A n \in 1 .. Len(s.history[p]) :
                    history[p][n] = s.history[p][n]

OneCheckpoint == \A s, t \in saved : s = t

Began == \A p \in Principal : reader[p].from <= reader[p].after

Inv ==
    LedgerTypeOK /\ RetainedExact /\ Gapless /\ Past /\ OneCheckpoint /\ Began

(* Every batch the environment offers is one. *)
LEMMA BatchesTyped == Batches \subseteq Batch
<1> DEFINE Step == [principal : Principal, action : 1 .. MaxAction]
<1> SUFFICES ASSUME NEW n \in 1 .. MaxBatch, NEW b \in [1 .. n -> Step]
             PROVE  b \in Batch
    BY Zenon DEF Batches
<1>1. n \in Nat
    BY SMT DEF ResultLedgerAssumption
<1>2. b \in Seq(Step)
  <2> HIDE DEF Step
  <2>1. [1 .. n -> Step] \in {[1 .. m -> Step] : m \in Nat}
      BY <1>1
  <2>2. Seq(Step) = UNION {[1 .. m -> Step] : m \in Nat}
      BY SeqDef
  <2> QED BY <2>1, <2>2
<1>3. Step \subseteq [principal : Principal, action : Nat]
    BY SMT
<1> HIDE DEF Step
<1> QED BY <1>2, <1>3, SeqMonotonic DEF Batch

(* Lane s retains the results of h from page e + 1 on. *)
LaneExact(s, e, h) ==
    /\ Len(h) = e + Len(s)
    /\ Len(s) <= MaxEntries
    /\ \A i \in 1 .. Len(s) : s[i] = [page |-> e + i, result |-> h[e + i]]

(* A lane that gets one more result stays exact: what is dropped is the    *)
(* oldest result, and its page is remembered.                              *)
LEMMA LaneKept ==
    ASSUME NEW s \in Seq(Entry), NEW e \in Nat, NEW h \in Seq(Result),
           NEW r \in Result, LaneExact(s, e, h)
    PROVE  LET all == Append(s, [page |-> Len(h) + 1, result |-> r])
           IN  /\ Kept(all) \in Seq(Entry) /\ Gone(all, e) \in Nat
               /\ LaneExact(Kept(all), Gone(all, e), Append(h, r))
<1> USE DEF ResultLedgerAssumption
<1> DEFINE new == [page |-> Len(h) + 1, result |-> r]
           all == Append(s, new)
           after == Append(h, r)
<1>0. MaxEntries \in Nat /\ MaxEntries > 0
    BY ResultLedgerAssumption, SMT
<1>1. Len(s) \in Nat /\ Len(h) \in Nat
    BY LenProperties
<1>2. new \in Entry
    BY <1>1, SMT DEF Entry
<1>3. /\ all \in Seq(Entry) /\ Len(all) = Len(s) + 1
      /\ \A i \in 1 .. Len(s) : all[i] = s[i]
      /\ all[Len(s) + 1] = new
    BY <1>2, AppendProperties
<1>4. /\ after \in Seq(Result) /\ Len(after) = Len(h) + 1
      /\ \A i \in 1 .. Len(h) : after[i] = h[i]
      /\ after[Len(h) + 1] = r
    BY AppendProperties
<1> HIDE DEF all, after
<1>5. \A i \in 1 .. Len(all) :
         all[i] = [page |-> e + i, result |-> after[e + i]]
  <2> TAKE i \in 1 .. Len(all)
  <2>1. CASE i \in 1 .. Len(s)
    <3>1. e + i \in 1 .. Len(h)
        BY <1>1, <2>1, SMT DEF LaneExact
    <3>2. all[i] = s[i] /\ after[e + i] = h[e + i]
        BY <1>3, <1>4, <2>1, <3>1
    <3> QED BY <2>1, <3>2 DEF LaneExact
  <2>2. CASE i = Len(s) + 1
    BY <1>1, <2>2, <1>3, <1>4 DEF LaneExact
  <2> QED BY <1>1, <1>3, <2>1, <2>2, SMT
<1>6. CASE Len(all) > MaxEntries
  <2>1. Len(all) = MaxEntries + 1
      BY <1>0, <1>1, <1>3, <1>6, SMT DEF LaneExact
  <2>2. Kept(all) = SubSeq(all, 2, Len(all)) /\ Gone(all, e) = all[1].page
      BY <1>0, <1>6, <2>1, SMT DEF Kept, Gone
  <2>3. Gone(all, e) = e + 1
      BY <1>0, <1>5, <2>1, <2>2, SMT
  <2>4. /\ Kept(all) \in Seq(Entry) /\ Len(Kept(all)) = MaxEntries
        /\ \A i \in 1 .. MaxEntries : Kept(all)[i] = all[i + 1]
    BY <1>0, <2>1, <1>3, SubSeqProperties, <2>2
  <2>5. \A i \in 1 .. MaxEntries :
           Kept(all)[i] = [page |-> e + 1 + i, result |-> after[e + 1 + i]]
    <3> TAKE i \in 1 .. MaxEntries
    <3>1. i + 1 \in 1 .. Len(all) /\ e + (i + 1) = e + 1 + i
        BY <1>0, <2>1, SMT
    <3> QED BY <1>5, <2>4, <3>1
  <2>6. Len(after) = e + 1 + MaxEntries
    <3>1. Len(s) = MaxEntries
        BY <1>0, <1>1, <1>3, <2>1, SMT
    <3>2. Len(h) = e + MaxEntries
        BY <3>1 DEF LaneExact
    <3>3. Len(after) = Len(h) + 1
        BY <1>4
    <3> QED BY <1>0, <3>2, <3>3, SMT
  <2>7. e + 1 \in Nat /\ MaxEntries <= MaxEntries
      BY <1>0, SMT
  <2>8. LaneExact(Kept(all), Gone(all, e), after)
      BY <2>3, <2>4, <2>5, <2>6, <2>7 DEF LaneExact
  <2> QED BY <2>3, <2>4, <2>7, <2>8 DEF all, after
<1>7. CASE ~(Len(all) > MaxEntries)
  <2>1. Kept(all) = all /\ Gone(all, e) = e
      BY <1>7 DEF Kept, Gone
  <2>2. LaneExact(all, e, after)
      BY <1>0, <1>1, <1>3, <1>4, <1>5, <1>7, SMT DEF LaneExact
  <2> QED BY <1>3, <2>1, <2>2 DEF all, after
<1> QED BY <1>6, <1>7

(* RetainedExact in terms of lanes. *)
LEMMA ExactIsLanes ==
    ASSUME NEW l \in Ledger, NEW h \in History
    PROVE  Exact(l, h) <=>
              \A p \in Principal :
                 /\ Len(h[p]) = l.pages[p]
                 /\ LaneExact(l.entries[p], l.evicted[p], h[p])
<1>1. \A p \in Principal :
         /\ l.entries[p] \in Seq(Entry) /\ h[p] \in Seq(Result)
         /\ l.pages[p] \in Nat /\ l.evicted[p] \in Nat
    BY DEF Ledger, History
<1>2. \A p \in Principal : DOMAIN l.entries[p] = 1 .. Len(l.entries[p])
    BY <1>1, LenProperties
<1> QED BY <1>1, <1>2, ZenonT(60) DEF Exact, LaneExact

(* Adding a result keeps the whole ledger exact. *)
LEMMA AddExact ==
    ASSUME ledger \in Ledger, history \in History, Exact(ledger, history),
           NEW p \in Principal, NEW r \in Result
    PROVE  LET h == [history EXCEPT ![p] = Append(@, r)]
           IN  Add(p, r) \in Ledger /\ h \in History /\ Exact(Add(p, r), h)
<1> DEFINE h == [history EXCEPT ![p] = Append(@, r)]
           l == Add(p, r)
           s == ledger.entries[p]
           e == ledger.evicted[p]
           all == Append(s, [page |-> Len(history[p]) + 1, result |-> r])
<1>1. /\ s \in Seq(Entry) /\ e \in Nat /\ history[p] \in Seq(Result)
      /\ ledger.admitted \in Nat /\ ledger.nextResult \in Nat
      /\ ledger.pages[p] \in Nat
    BY DEF Ledger, History
<1>2. Len(history[p]) = ledger.pages[p] /\ LaneExact(s, e, history[p])
    BY ExactIsLanes
<1>3. /\ Kept(all) \in Seq(Entry) /\ Gone(all, e) \in Nat
      /\ LaneExact(Kept(all), Gone(all, e), Append(history[p], r))
    BY <1>1, <1>2, LaneKept
<1>4. l = [ledger EXCEPT !.entries[p] = Kept(all), !.evicted[p] = Gone(all, e),
                         !.pages[p] = ledger.pages[p] + 1,
                         !.admitted = ledger.admitted + 1,
                         !.previous = r.action]
    BY <1>2 DEF Add
<1> HIDE DEF l
<1>5. /\ l.entries = [ledger.entries EXCEPT ![p] = Kept(all)]
      /\ l.evicted = [ledger.evicted EXCEPT ![p] = Gone(all, e)]
      /\ l.pages = [ledger.pages EXCEPT ![p] = ledger.pages[p] + 1]
  <2> HIDE DEF all, s, e
  <2> QED BY <1>4 DEF Ledger
<1>6. r.action \in Nat
    BY DEF Result
<1>7. l \in Ledger
  <2> HIDE DEF all, s, e
  <2>1. l = [ entries |-> l.entries, pages |-> l.pages,
              evicted |-> l.evicted, admitted |-> ledger.admitted + 1,
              previous |-> r.action, nextResult |-> ledger.nextResult ]
      BY <1>4 DEF Ledger
  <2>2. l.entries \in [Principal -> Seq(Entry)]
      BY <1>3, <1>5 DEF Ledger
  <2>3. l.pages \in [Principal -> Nat]
      BY <1>1, <1>5 DEF Ledger
  <2>4. l.evicted \in [Principal -> Nat]
      BY <1>3, <1>5 DEF Ledger
  <2>5. ledger.admitted + 1 \in Nat
      BY <1>1
  <2>6. ledger.nextResult \in Nat
      BY <1>1
  <2> QED BY ONLY <1>6, <2>1, <2>2, <2>3, <2>4, <2>5, <2>6 DEF Ledger
<1>8. Append(history[p], r) \in Seq(Result)
      /\ Len(Append(history[p], r)) = Len(history[p]) + 1
    BY <1>1, AppendProperties
<1>9. h \in History
    BY <1>8 DEF History
<1>10. ASSUME NEW q \in Principal
       PROVE  Len(h[q]) = l.pages[q] /\ LaneExact(l.entries[q], l.evicted[q], h[q])
  <2>1. CASE q = p
    <3>1. /\ h[q] = Append(history[p], r) /\ l.entries[q] = Kept(all)
          /\ l.evicted[q] = Gone(all, e) /\ l.pages[q] = ledger.pages[p] + 1
      <4> HIDE DEF all, s, e
      <4> QED BY <1>5, <2>1 DEF Ledger, History
    <3> HIDE DEF all, s, e, h
    <3> QED BY <1>2, <1>3, <1>8, <3>1
  <2>2. CASE q # p
    <3>1. /\ h[q] = history[q] /\ l.entries[q] = ledger.entries[q]
          /\ l.evicted[q] = ledger.evicted[q] /\ l.pages[q] = ledger.pages[q]
      <4> HIDE DEF all, s, e
      <4> QED BY <1>5, <2>2 DEF Ledger, History
    <3>2. Len(history[q]) = ledger.pages[q]
          /\ LaneExact(ledger.entries[q], ledger.evicted[q], history[q])
        BY ExactIsLanes
    <3> HIDE DEF all, s, e, h
    <3> QED BY <3>1, <3>2
  <2> QED BY <2>1, <2>2
<1> HIDE DEF h
<1>11. Exact(l, h)
    BY <1>7, <1>9, <1>10, ExactIsLanes
<1> QED BY <1>7, <1>9, <1>11 DEF h, l

-----------------------------------------------------------------------------
(* Initially nothing has been published. *)
LEMMA InitInv == LedgerInit => Inv
<1> SUFFICES ASSUME LedgerInit PROVE Inv
    OBVIOUS
<1> USE DEF LedgerInit
<1>1. << >> \in Seq(Entry) /\ << >> \in Seq(Result) /\ << >> \in Batch
    BY EmptySeq DEF Batch
<1>2. ledger \in Ledger /\ history \in History
    BY <1>1 DEF Ledger, History
<1>3. LedgerTypeOK
    BY <1>1, <1>2 DEF LedgerTypeOK, NoBatch, NoCursor
<1>4. RetainedExact
  <2>1. \A p \in Principal : Len(history[p]) = ledger.pages[p]
      BY EmptySeq
  <2>2. \A p \in Principal :
           LaneExact(ledger.entries[p], ledger.evicted[p], history[p])
    <3>1. MaxEntries \in Nat /\ Len(<< >>) = 0
        BY EmptySeq, ResultLedgerAssumption, SMT DEF ResultLedgerAssumption
    <3>2. LaneExact(<< >>, 0, << >>)
        BY <3>1, SMT DEF LaneExact
    <3> QED BY <3>2
  <2> QED BY <1>2, <2>1, <2>2, ExactIsLanes DEF RetainedExact
<1>5. Gapless /\ Past /\ OneCheckpoint /\ Began
    BY DEF Gapless, Past, OneCheckpoint, Began, NoCursor
<1> QED BY <1>3, <1>4, <1>5 DEF Inv

(* The page after the cursor is the first unread entry's. *)
LEMMA FirstUnread ==
    ASSUME LedgerTypeOK, RetainedExact, NEW p \in Principal,
           NEW i \in DOMAIN ledger.entries[p],
           Unread(p, i), Served(p)
    PROVE  /\ i \in Nat /\ ledger.evicted[p] \in Nat
           /\ reader[p].after + 1 = ledger.evicted[p] + i
<1>1. /\ ledger.entries[p] \in Seq(Entry) /\ ledger.evicted[p] \in Nat
      /\ ledger.pages[p] \in Nat /\ reader[p].after \in Nat
    BY DEF LedgerTypeOK, Ledger
<1>2. /\ DOMAIN ledger.entries[p] = 1 .. Len(ledger.entries[p])
      /\ Len(ledger.entries[p]) \in Nat
    BY <1>1, LenProperties
<1>3. \A n \in DOMAIN ledger.entries[p] :
         ledger.entries[p][n].page = ledger.evicted[p] + n
  <2> TAKE n \in DOMAIN ledger.entries[p]
  <2>1. ledger.entries[p][n] =
           [ page |-> ledger.evicted[p] + n,
             result |-> history[p][ledger.evicted[p] + n] ]
      BY DEF RetainedExact, Exact
  <2> QED BY <2>1
<1>4. i \in Nat /\ i >= 1
    BY <1>2, SMT
<1>5. reader[p].after < ledger.evicted[p] + i
    BY <1>1, <1>2, <1>3, SMT DEF Unread
<1>6. reader[p].after >= ledger.evicted[p]
    BY DEF Served
<1>7. CASE i = 1
    BY <1>1, <1>5, <1>6, <1>7, SMT
<1>8. CASE i > 1
  <2>1. i - 1 \in DOMAIN ledger.entries[p] /\ i - 1 < i
      BY <1>2, <1>8, SMT
  <2>2. ledger.entries[p][i - 1].page <= reader[p].after
      BY <2>1 DEF Unread
  <2>3. ledger.evicted[p] + (i - 1) <= reader[p].after
      BY <1>3, <2>1, <2>2
  <2>4. \A a, e \in Nat : a < e + i /\ e + (i - 1) <= a => a + 1 = e + i
      BY <1>4, SMT
  <2> QED BY <1>1, <1>5, <1>4, <2>3, <2>4
<1> QED BY <1>1, <1>7, <1>8, <1>4, SMT

(* A page is the results it says it is. *)
LEMMA PageExact ==
    ASSUME LedgerTypeOK, RetainedExact, NEW p \in Principal,
           NEW i \in DOMAIN ledger.entries[p],
           NEW k \in DOMAIN ledger.entries[p]
    PROVE  /\ Page(p, i, k) \in SUBSET Entry
           /\ ledger.entries[p][k].page = ledger.evicted[p] + k
           /\ ledger.evicted[p] + k <= Len(history[p])
           /\ Page(p, i, k) =
                 {[page |-> n, result |-> history[p][n]] :
                     n \in ledger.evicted[p] + i .. ledger.evicted[p] + k}
<1> DEFINE s == ledger.entries[p]
           e == ledger.evicted[p]
           h == history[p]
<1>1. s \in Seq(Entry) /\ e \in Nat /\ ledger.pages[p] \in Nat
    BY DEF LedgerTypeOK, Ledger
<1>2. DOMAIN s = 1 .. Len(s) /\ Len(s) \in Nat
    BY <1>1, LenProperties
<1>3. /\ \A n \in 1 .. Len(s) : s[n] = [page |-> e + n, result |-> h[e + n]]
      /\ Len(h) = e + Len(s)
    BY <1>2 DEF RetainedExact, Exact
<1>4. \A n \in 1 .. Len(s) : s[n] \in Entry
    BY <1>1, ElementOfSeq
<1>5. i \in 1 .. Len(s) /\ k \in 1 .. Len(s)
    BY <1>2
<1> HIDE DEF s, e, h
<1>6. \A n \in i .. k : n \in 1 .. Len(s)
    BY <1>2, <1>5, SMT
<1>7. Page(p, i, k) = {s[n] : n \in i .. k}
    BY DEF Page, s
<1>8. Page(p, i, k) \in SUBSET Entry
    BY <1>4, <1>6, <1>7
<1>9. s[k].page = e + k /\ e + k <= Len(h)
    BY <1>1, <1>2, <1>3, <1>5, SMT
<1>10. {s[n] : n \in i .. k} =
          {[page |-> n, result |-> h[n]] : n \in e + i .. e + k}
  <2>1. ASSUME NEW n \in i .. k
        PROVE  s[n] \in {[page |-> m, result |-> h[m]] : m \in e + i .. e + k}
    BY <1>3, <1>6, <1>1, <1>2, <1>5
  <2>2. ASSUME NEW m \in e + i .. e + k
        PROVE  [page |-> m, result |-> h[m]] \in {s[n] : n \in i .. k}
    <3>1. m - e \in i .. k /\ e + (m - e) = m
        BY <1>1, <1>2, <1>5, SMT
    <3>2. s[m - e] = [page |-> m, result |-> h[m]]
        BY <1>3, <1>6, <3>1
    <3> QED BY <3>1, <3>2
  <2> QED BY <2>1, <2>2
<1> QED BY <1>7, <1>8, <1>9, <1>10 DEF s, e, h

-----------------------------------------------------------------------------
(* Reserving, aborting and finishing a batch leave the lanes, the readers  *)
(* and the checkpoint alone.                                               *)
LEMMA BatchKeeps ==
    ASSUME Inv, inFlight' \in [ stage : {"none", "reserved", "publishing"},
                            batch : Batch, done : Nat, start : Nat ],
           ledger' \in Ledger,
           ledger'.entries = ledger.entries, ledger'.pages = ledger.pages,
           ledger'.evicted = ledger.evicted,
           UNCHANGED << reader, history, saved, restores >>
    PROVE  Inv'
<1>1. LedgerTypeOK'
    BY DEF Inv, LedgerTypeOK
<1>2. RetainedExact'
    BY DEF Inv, RetainedExact, Exact
<1>3. Gapless' /\ Past' /\ OneCheckpoint' /\ Began'
    BY DEF Inv, Gapless, Past, OneCheckpoint, Began
<1> QED BY <1>1, <1>2, <1>3 DEF Inv

(* A batch is reserved. *)
LEMMA ReserveBatchInv ==
    ASSUME Inv, NEW batch \in Batches, ReserveBatch(batch)
    PROVE  Inv'
<1>1. batch \in Batch
    BY BatchesTyped
<1>2. ledger \in Ledger /\ ledger.nextResult \in Nat
    BY DEF Inv, LedgerTypeOK, Ledger
<1>3. /\ inFlight' \in [ stage : {"none", "reserved", "publishing"},
                      batch : Batch, done : Nat, start : Nat ]
      /\ UNCHANGED << ledger, reader, history, saved, restores >>
    BY <1>1, <1>2 DEF ReserveBatch
<1> QED BY <1>2, <1>3, BatchKeeps

(* It is aborted. *)
LEMMA AbortInv == ASSUME Inv, Abort PROVE Inv'
<1>1. << >> \in Batch
    BY EmptySeq DEF Batch
<1>2. /\ inFlight' \in [ stage : {"none", "reserved", "publishing"},
                      batch : Batch, done : Nat, start : Nat ]
      /\ UNCHANGED << ledger, reader, history, saved, restores >>
    BY <1>1 DEF Abort, NoBatch
<1>3. ledger \in Ledger
    BY DEF Inv, LedgerTypeOK
<1> QED BY <1>2, <1>3, BatchKeeps

(* It begins to be published. *)
LEMMA PublishInv == ASSUME Inv, Publish PROVE Inv'
<1>1. /\ inFlight' \in [ stage : {"none", "reserved", "publishing"},
                      batch : Batch, done : Nat, start : Nat ]
      /\ UNCHANGED << ledger, reader, history, saved, restores >>
    BY DEF Publish, Inv, LedgerTypeOK
<1>2. ledger \in Ledger
    BY DEF Inv, LedgerTypeOK
<1> QED BY <1>1, <1>2, BatchKeeps

(* All of it was published. *)
LEMMA FinishPublishInv == ASSUME Inv, FinishPublish PROVE Inv'
<1>1. << >> \in Batch
    BY EmptySeq DEF Batch
<1>2. /\ inFlight' \in [ stage : {"none", "reserved", "publishing"},
                      batch : Batch, done : Nat, start : Nat ]
      /\ UNCHANGED << reader, history, saved, restores >>
    BY <1>1 DEF FinishPublish, NoBatch
<1>3. ledger \in Ledger /\ inFlight.start \in Nat /\ inFlight.batch \in Batch
    BY DEF Inv, LedgerTypeOK
<1>4. inFlight.start + Len(inFlight.batch) \in Nat
  BY <1>3, LenProperties DEF Batch
<1>5. ledger' = [ledger EXCEPT !.nextResult = inFlight.start + Len(inFlight.batch)]
    BY DEF FinishPublish
<1>6. /\ ledger' \in Ledger /\ ledger'.entries = ledger.entries
      /\ ledger'.pages = ledger.pages /\ ledger'.evicted = ledger.evicted
    BY <1>3, <1>4, <1>5 DEF Ledger
<1> QED BY <1>2, <1>6, BatchKeeps

(* A result published: the lanes stay exact, and the timeline only grows.  *)
LEMMA PublishOneInv == ASSUME Inv, PublishOne PROVE Inv'
<1> DEFINE who == Published.principal
<1>1. /\ inFlight \in [ stage : {"none", "reserved", "publishing"},
                     batch : Batch, done : Nat, start : Nat ]
      /\ ledger \in Ledger /\ history \in History
    BY DEF Inv, LedgerTypeOK
<1>2. inFlight.batch \in Batch /\ inFlight.done \in Nat /\ inFlight.start \in Nat
    BY <1>1
<1>3. Published \in [principal : Principal, action : Nat]
  <2>1. Len(inFlight.batch) \in Nat
      BY <1>2, LenProperties DEF Batch
  <2>2. inFlight.done + 1 \in 1 .. Len(inFlight.batch)
      BY <1>2, <2>1, SMT DEF PublishOne
  <2> QED BY <1>2, <2>2, ElementOfSeq DEF Batch, Published
<1>4. who \in Principal /\ NewResult \in Result
    BY <1>2, <1>3 DEF NewResult, Result
<1> HIDE DEF who
<1>5. /\ ledger' = Add(who, NewResult)
      /\ history' = [history EXCEPT ![who] = Append(@, NewResult)]
      /\ inFlight' = [inFlight EXCEPT !.done = inFlight.done + 1]
      /\ UNCHANGED << reader, saved, restores >>
    BY DEF PublishOne, who
<1>6. ledger' \in Ledger /\ history' \in History /\ RetainedExact'
    BY <1>1, <1>4, <1>5, AddExact DEF Inv, RetainedExact
<1>7. inFlight' \in [ stage : {"none", "reserved", "publishing"},
                  batch : Batch, done : Nat, start : Nat ]
    BY <1>1, <1>2, <1>5
<1>8. LedgerTypeOK'
    BY <1>5, <1>6, <1>7 DEF Inv, LedgerTypeOK
<1>9. ASSUME NEW p \in Principal
      PROVE  /\ Len(history[p]) \in Nat /\ Len(history'[p]) \in Nat
             /\ Len(history[p]) <= Len(history'[p])
             /\ \A n \in 1 .. Len(history[p]) : history'[p][n] = history[p][n]
  <2>1. history[p] \in Seq(Result) /\ Len(history[p]) \in Nat
      BY <1>1, LenProperties DEF History
  <2>2. CASE p = who
    BY <1>1, <1>5, <2>2, <1>4, <2>1, AppendProperties DEF History
  <2>3. CASE p # who
    BY <1>1, <1>5, <2>3, <2>1 DEF History
  <2> QED BY <2>2, <2>3
<1>10. Gapless'
  <2> SUFFICES ASSUME NEW p \in Principal, reader[p].held, ~reader[p].ahead
               PROVE  /\ reader[p].after <= Len(history'[p])
                      /\ reader[p].got =
                            {[page |-> n, result |-> history'[p][n]] :
                               n \in reader[p].from + 1 .. reader[p].after}
      BY <1>5 DEF Gapless
  <2>1. reader[p].after \in Nat /\ reader[p].from \in Nat
      BY DEF Inv, LedgerTypeOK
  <2>2. /\ reader[p].after <= Len(history[p])
        /\ reader[p].got = {[page |-> n, result |-> history[p][n]] :
                              n \in reader[p].from + 1 .. reader[p].after}
      BY DEF Inv, Gapless
  <2>3. \A n \in reader[p].from + 1 .. reader[p].after :
           n \in 1 .. Len(history[p])
      BY <1>9, <2>1, <2>2, SMT
  <2>4. \A n \in reader[p].from + 1 .. reader[p].after :
           history'[p][n] = history[p][n]
      BY <1>9, <2>3
  <2>5. reader[p].after <= Len(history'[p])
      BY <1>9, <2>1, <2>2, SMT
  <2> QED BY <2>2, <2>4, <2>5
<1>11. Past'
  <2> SUFFICES ASSUME NEW s \in saved
               PROVE  /\ Exact(s.ledger, s.history)
                      /\ \A p \in Principal :
                            /\ Len(s.history[p]) <= Len(history'[p])
                            /\ \A n \in 1 .. Len(s.history[p]) :
                                  history'[p][n] = s.history[p][n]
      BY <1>5, Zenon DEF Past
  <2>0. Exact(s.ledger, s.history)
      BY DEF Inv, Past
  <2> SUFFICES ASSUME NEW p \in Principal
               PROVE  /\ Len(s.history[p]) <= Len(history'[p])
                      /\ \A n \in 1 .. Len(s.history[p]) :
                            history'[p][n] = s.history[p][n]
      BY <2>0
  <2>1. /\ Len(s.history[p]) <= Len(history[p])
        /\ \A n \in 1 .. Len(s.history[p]) : history[p][n] = s.history[p][n]
      BY DEF Inv, Past
  <2>2. Len(s.history[p]) \in Nat
    BY LenProperties DEF Inv, LedgerTypeOK, History
  <2>3. Len(s.history[p]) <= Len(history'[p])
      BY <1>9, <2>1, <2>2, SMT
  <2>4. \A n \in 1 .. Len(s.history[p]) : n \in 1 .. Len(history[p])
      BY <1>9, <2>1, <2>2, SMT
  <2> QED BY <1>9, <2>1, <2>3, <2>4
<1>12. OneCheckpoint' /\ Began'
    BY <1>5 DEF Inv, OneCheckpoint, Began
<1> QED BY <1>6, <1>8, <1>10, <1>11, <1>12 DEF Inv

-----------------------------------------------------------------------------
(* The first page begins with the oldest result that is retained.          *)
LEMMA ReadAfreshInv ==
    ASSUME Inv, NEW p \in Principal, NEW k \in DOMAIN ledger.entries[p],
           ReadAfresh(p, k)
    PROVE  Inv'
<1> DEFINE e == ledger.evicted[p]
           new == [ held |-> TRUE, ahead |-> FALSE, after |-> e + k,
                    from |-> e, got |-> Page(p, 1, k) ]
<1>1. /\ reader \in [Principal -> [ held : BOOLEAN, after : Nat, from : Nat,
                                   got : SUBSET Entry, ahead : BOOLEAN ]]
      /\ ledger.entries[p] \in Seq(Entry) /\ e \in Nat
    BY DEF Inv, LedgerTypeOK, Ledger
<1>2. k \in Nat /\ k >= 1 /\ 1 \in DOMAIN ledger.entries[p]
  BY <1>1, LenProperties
<1>3. /\ Page(p, 1, k) \in SUBSET Entry
      /\ ledger.entries[p][k].page = e + k
      /\ e + k <= Len(history[p])
      /\ Page(p, 1, k) = {[page |-> n, result |-> history[p][n]] :
                            n \in e + 1 .. e + k}
    BY <1>2, PageExact DEF Inv
<1>4. ledger.entries[p][1].page - 1 = e
  <2>1. ledger.entries[p][1].page = e + 1
      BY <1>2, PageExact DEF Inv
  <2> QED BY <1>1, <2>1
<1>5. /\ reader' = [reader EXCEPT ![p] = new]
      /\ UNCHANGED << ledger, inFlight, history, saved, restores >>
    BY <1>3, <1>4 DEF ReadAfresh
<1>6. new \in [ held : BOOLEAN, after : Nat, from : Nat,
                got : SUBSET Entry, ahead : BOOLEAN ]
    BY <1>1, <1>2, <1>3
<1>7. /\ new.after <= Len(history[p]) /\ new.from <= new.after
      /\ new.got = {[page |-> n, result |-> history[p][n]] :
                      n \in new.from + 1 .. new.after}
    BY <1>1, <1>2, <1>3
<1> HIDE DEF new, e
<1>8. \A q \in Principal : reader'[q] = IF q = p THEN new ELSE reader[q]
    BY <1>1, <1>5
<1>9. LedgerTypeOK'
    BY <1>1, <1>5, <1>6 DEF Inv, LedgerTypeOK
<1>10. Gapless'
    BY <1>5, <1>7, <1>8 DEF Inv, Gapless
<1>11. RetainedExact' /\ Past' /\ OneCheckpoint'
  BY <1>5 DEF Inv, RetainedExact, Past, OneCheckpoint
<1>12. Began'
    BY <1>7, <1>8 DEF Inv, Began
<1> QED BY <1>9, <1>10, <1>11, <1>12 DEF Inv

(* The next page begins right after the cursor.                            *)
LEMMA ReadOnInv ==
    ASSUME Inv, NEW p \in Principal, NEW i \in DOMAIN ledger.entries[p],
           NEW k \in DOMAIN ledger.entries[p], ReadOn(p, i, k)
    PROVE  Inv'
<1> DEFINE e == ledger.evicted[p]
           r == reader[p]
           h == history[p]
<1>1. /\ reader \in [Principal -> [ held : BOOLEAN, after : Nat, from : Nat,
                                   got : SUBSET Entry, ahead : BOOLEAN ]]
      /\ ledger.entries[p] \in Seq(Entry) /\ e \in Nat
    BY DEF Inv, LedgerTypeOK, Ledger
<1>2. i \in Nat /\ k \in Nat /\ i <= k /\ r.after + 1 = e + i
  BY <1>1, LenProperties, FirstUnread DEF Inv, ReadOn
<1>3. /\ Page(p, i, k) \in SUBSET Entry
      /\ ledger.entries[p][k].page = e + k
      /\ e + k <= Len(h)
      /\ Page(p, i, k) = {[page |-> n, result |-> h[n]] :
                            n \in e + i .. e + k}
    BY PageExact DEF Inv
<1> DEFINE new == [r EXCEPT !.after = e + k, !.got = r.got \union Page(p, i, k)]
<1>4. /\ reader' = [reader EXCEPT ![p] = new]
      /\ UNCHANGED << ledger, inFlight, history, saved, restores >>
    BY <1>1, <1>3 DEF ReadOn
<1>5. r \in [ held : BOOLEAN, after : Nat, from : Nat,
              got : SUBSET Entry, ahead : BOOLEAN ]
    BY <1>1
<1> HIDE DEF e, r, h
<1>6. /\ new.after = e + k /\ new.from = r.from /\ new.held = r.held
      /\ new.ahead = r.ahead /\ new.got = r.got \union Page(p, i, k)
    BY <1>5
<1>7. new \in [ held : BOOLEAN, after : Nat, from : Nat,
                got : SUBSET Entry, ahead : BOOLEAN ]
  <2>1. r.got \union Page(p, i, k) \in SUBSET Entry /\ e + k \in Nat
    <3>1. r.got \in SUBSET Entry
        BY ONLY <1>5
    <3>2. r.got \union Page(p, i, k) \in SUBSET Entry
        BY ONLY <1>3, <3>1
    <3>3. e + k \in Nat
        BY ONLY <1>1, <1>2, SMT
    <3> QED BY ONLY <3>2, <3>3
  <2>2. ASSUME NEW a \in Nat, NEW g \in SUBSET Entry
        PROVE  [r EXCEPT !.after = a, !.got = g] \in
                  [ held : BOOLEAN, after : Nat, from : Nat,
                    got : SUBSET Entry, ahead : BOOLEAN ]
    <3> HIDE DEF new
    <3> QED BY <1>5
  <2> QED BY <2>1, <2>2, Zenon
<1> HIDE DEF new
<1>8. r.from <= r.after
    BY DEF Inv, Began, r
<1>9. new.from <= new.after
    BY <1>1, <1>2, <1>5, <1>6, <1>8, SMT
<1>10. ASSUME new.held, ~new.ahead
       PROVE  /\ new.after <= Len(h)
              /\ new.got = {[page |-> n, result |-> h[n]] :
                              n \in new.from + 1 .. new.after}
  <2>1. r.got = {[page |-> n, result |-> h[n]] : n \in r.from + 1 .. r.after}
      BY <1>6, <1>10 DEF Inv, Gapless, r, h
  <2>2. (r.from + 1 .. r.after) \union (e + i .. e + k) = r.from + 1 .. e + k
      BY <1>1, <1>2, <1>5, <1>8, SMT
  <2> QED BY <1>3, <1>6, <2>1, <2>2
<1>11. \A q \in Principal : reader'[q] = IF q = p THEN new ELSE reader[q]
    BY <1>1, <1>4
<1>12. LedgerTypeOK'
    BY <1>1, <1>4, <1>7 DEF Inv, LedgerTypeOK
<1>13. Gapless'
    BY <1>4, <1>10, <1>11 DEF Inv, Gapless, h
<1>14. RetainedExact' /\ Past' /\ OneCheckpoint'
  BY <1>4 DEF Inv, RetainedExact, Past, OneCheckpoint
<1>15. Began'
    BY <1>9, <1>11 DEF Inv, Began
<1> QED BY <1>12, <1>13, <1>14, <1>15 DEF Inv

-----------------------------------------------------------------------------
(* What is saved is the present, which is exact.                           *)
LEMMA ExportStateInv == ASSUME Inv, ExportState PROVE Inv'
<1> DEFINE new == [ledger |-> ledger, history |-> history]
<1>1. /\ saved' = {new}
      /\ UNCHANGED << ledger, inFlight, reader, history, restores >>
    BY DEF ExportState
<1>2. ledger \in Ledger /\ history \in History
    BY DEF Inv, LedgerTypeOK
<1>3. LedgerTypeOK'
    BY <1>1, <1>2 DEF Inv, LedgerTypeOK
<1>4. RetainedExact' /\ Gapless' /\ Began'
    BY <1>1 DEF Inv, RetainedExact, Exact, Gapless, Began
<1>5. \A p \in Principal : Len(history[p]) <= Len(history[p])
  <2> TAKE p \in Principal
  <2>1. history[p] \in Seq(Result)
      BY <1>2 DEF History
  <2>2. Len(history[p]) \in Nat
      BY <2>1, LenProperties
  <2> QED BY <2>2
<1>6. new.ledger = ledger /\ new.history = history
    OBVIOUS
<1>7. Exact(new.ledger, new.history)
    BY <1>6 DEF Inv, RetainedExact
<1> HIDE DEF new
<1>8. Past'
  <2> SUFFICES ASSUME NEW s \in saved'
               PROVE  /\ Exact(s.ledger, s.history)
                      /\ \A p \in Principal :
                            /\ Len(s.history[p]) <= Len(history'[p])
                            /\ \A n \in 1 .. Len(s.history[p]) :
                                  history'[p][n] = s.history[p][n]
      BY Zenon DEF Past
  <2>1. s = new
      BY <1>1
  <2> QED BY <1>1, <1>5, <1>6, <1>7, <2>1
<1>9. OneCheckpoint'
    BY <1>1 DEF OneCheckpoint
<1> QED BY <1>3, <1>4, <1>8, <1>9 DEF Inv

(* A cursor that is not ahead of the checkpoint has been given what the    *)
(* checkpoint's own timeline holds.                                        *)
LEMMA ImportStateInv ==
    ASSUME Inv, NEW s \in saved, ImportState(s)
    PROVE  Inv'
<1>1. /\ ledger' = s.ledger /\ history' = s.history /\ inFlight' = NoBatch
      /\ restores' = restores + 1 /\ saved' = saved
      /\ reader' = [p \in Principal |-> [reader[p] EXCEPT
             !.ahead = reader[p].ahead
                         \/ reader[p].after > s.ledger.pages[p]]]
    BY DEF ImportState
<1>2. /\ s.ledger \in Ledger /\ s.history \in History
      /\ restores \in Nat /\ saved \subseteq [ledger : Ledger, history : History]
      /\ reader \in [Principal -> [ held : BOOLEAN, after : Nat, from : Nat,
                                   got : SUBSET Entry, ahead : BOOLEAN ]]
    BY DEF Inv, LedgerTypeOK
<1>3. Exact(s.ledger, s.history)
    BY DEF Inv, Past
<1>4. ASSUME NEW p \in Principal
      PROVE  /\ reader'[p] \in [ held : BOOLEAN, after : Nat, from : Nat,
                                 got : SUBSET Entry, ahead : BOOLEAN ]
             /\ reader'[p].held = reader[p].held
             /\ reader'[p].after = reader[p].after
             /\ reader'[p].from = reader[p].from
             /\ reader'[p].got = reader[p].got
             /\ reader'[p].ahead = (reader[p].ahead
                                      \/ reader[p].after > s.ledger.pages[p])
  <2> DEFINE r == reader[p]
             far == r.ahead \/ r.after > s.ledger.pages[p]
  <2>1. r \in [ held : BOOLEAN, after : Nat, from : Nat,
                got : SUBSET Entry, ahead : BOOLEAN ]
      BY <1>2
  <2>2. reader'[p] = [r EXCEPT !.ahead = far]
      BY <1>1
  <2>3. far \in BOOLEAN
      BY Zenon
  <2> HIDE DEF r, far
  <2>4. reader'[p] = [ held |-> r.held, after |-> r.after, from |-> r.from,
                       got |-> r.got, ahead |-> far ]
      BY <2>1, <2>2
  <2>5. /\ reader'[p].held = r.held /\ reader'[p].after = r.after
        /\ reader'[p].from = r.from /\ reader'[p].got = r.got
        /\ reader'[p].ahead = far
      BY <2>4
  <2>6. reader'[p] \in [ held : BOOLEAN, after : Nat, from : Nat,
                         got : SUBSET Entry, ahead : BOOLEAN ]
      BY <2>1, <2>3, <2>4
  <2> QED BY <2>5, <2>6, Zenon DEF r, far
<1>5. LedgerTypeOK'
  <2>1. reader' \in [Principal -> [ held : BOOLEAN, after : Nat, from : Nat,
                                   got : SUBSET Entry, ahead : BOOLEAN ]]
      BY <1>1, <1>4
  <2>2. << >> \in Batch
      BY EmptySeq DEF Batch
  <2>3. inFlight' \in [ stage : {"none", "reserved", "publishing"},
                    batch : Batch, done : Nat, start : Nat ]
      BY <1>1, <2>2 DEF NoBatch
  <2> QED BY <1>1, <1>2, <2>1, <2>3 DEF LedgerTypeOK
<1>6. RetainedExact'
    BY <1>1, <1>3 DEF RetainedExact
<1>7. Gapless'
  <2>0. /\ history' = s.history
        /\ \A p \in Principal : reader'[p].after = reader[p].after
                              /\ reader'[p].from = reader[p].from
                              /\ reader'[p].got = reader[p].got
      BY <1>1, <1>4
  <2> SUFFICES ASSUME NEW p \in Principal, reader'[p].held, ~reader'[p].ahead
               PROVE  /\ reader[p].after <= Len(s.history[p])
                      /\ reader[p].got =
                            {[page |-> n, result |-> s.history[p][n]] :
                               n \in reader[p].from + 1 .. reader[p].after}
      BY <2>0 DEF Gapless
  <2>1. /\ reader[p].after \in Nat /\ reader[p].from \in Nat
        /\ s.ledger.pages[p] \in Nat
      BY <1>2 DEF Ledger
  <2>2. reader[p].held /\ ~reader[p].ahead
        /\ ~(reader[p].after > s.ledger.pages[p])
      BY <1>4
  <2>3. Len(s.history[p]) = s.ledger.pages[p]
      BY <1>3 DEF Exact
  <2>4. reader[p].after <= Len(s.history[p])
      BY <2>1, <2>2, <2>3, SMT
  <2>5. reader[p].got = {[page |-> n, result |-> history[p][n]] :
                           n \in reader[p].from + 1 .. reader[p].after}
      BY <2>2 DEF Inv, Gapless
  <2>6. \A n \in reader[p].from + 1 .. reader[p].after :
           n \in 1 .. Len(s.history[p])
      BY <2>1, <2>3, <2>4, SMT
  <2>7. \A n \in 1 .. Len(s.history[p]) : history[p][n] = s.history[p][n]
      BY DEF Inv, Past
  <2> QED BY <2>4, <2>5, <2>6, <2>7
<1>8. Past'
  <2> SUFFICES ASSUME NEW t \in saved
               PROVE  /\ Exact(t.ledger, t.history)
                      /\ \A p \in Principal :
                            /\ Len(t.history[p]) <= Len(history'[p])
                            /\ \A n \in 1 .. Len(t.history[p]) :
                                  history'[p][n] = t.history[p][n]
      BY <1>1, Zenon DEF Past
  <2>1. t = s
      BY DEF Inv, OneCheckpoint
  <2>2. \A p \in Principal : Len(s.history[p]) \in Nat
    <3> TAKE p \in Principal
    <3>1. s.history[p] \in Seq(Result)
        BY <1>2 DEF History
    <3> QED BY <3>1, LenProperties
  <2>3. \A p \in Principal : Len(s.history[p]) <= Len(s.history[p])
    <3>1. \A n \in Nat : n <= n
        OBVIOUS
    <3> QED BY <2>2, <3>1
  <2> QED BY <1>1, <1>3, <2>1, <2>3
<1>9. OneCheckpoint' /\ Began'
    BY <1>1, <1>4 DEF Inv, OneCheckpoint, Began
<1> QED BY <1>5, <1>6, <1>7, <1>8, <1>9 DEF Inv

-----------------------------------------------------------------------------
(* Every step keeps the invariant. *)
LEMMA NextInv == Inv /\ [LedgerNext]_ledgerVars => Inv'
<1> SUFFICES ASSUME Inv, [LedgerNext]_ledgerVars PROVE Inv'
    OBVIOUS
<1>1. ASSUME NEW batch \in Batches, ReserveBatch(batch) PROVE Inv'
    BY <1>1, ReserveBatchInv
<1>2. CASE Abort
    BY <1>2, AbortInv
<1>3. CASE Publish
    BY <1>3, PublishInv
<1>4. CASE PublishOne
    BY <1>4, PublishOneInv
<1>5. CASE FinishPublish
    BY <1>5, FinishPublishInv
<1>6. ASSUME NEW p \in Principal, NEW k \in DOMAIN ledger.entries[p],
             ReadAfresh(p, k)
      PROVE  Inv'
    BY <1>6, ReadAfreshInv
<1>7. ASSUME NEW p \in Principal, NEW i \in DOMAIN ledger.entries[p],
             NEW k \in DOMAIN ledger.entries[p], ReadOn(p, i, k)
      PROVE  Inv'
    BY <1>7, ReadOnInv
<1>8. CASE ExportState
    BY <1>8, ExportStateInv
<1>9. ASSUME NEW s \in saved, ImportState(s) PROVE Inv'
    BY <1>9, ImportStateInv
<1>10. CASE UNCHANGED ledgerVars
  BY <1>10, BatchKeeps DEF ledgerVars, Inv, LedgerTypeOK
<1> QED BY <1>1, <1>2, <1>3, <1>4, <1>5, <1>6, <1>7, <1>8, <1>9, <1>10,
           Zenon DEF LedgerNext

(* The invariant holds throughout. *)
LEMMA InvAlways == LedgerSpec => []Inv
<1> QED BY InitInv, NextInv, PTL DEF LedgerSpec

(* The ledger, the batch, the readers and the checkpoint always have their *)
(* types.                                                                  *)
THEOREM TypeAlways == LedgerSpec => []LedgerTypeOK
<1>1. Inv => LedgerTypeOK
    BY DEF Inv
<1> QED BY <1>1, InvAlways, PTL

(* For every retention and every capacity: a lane is always the newest     *)
(* results of its principal, without a hole, and says exactly how many it  *)
(* has evicted (add, importState).                                         *)
THEOREM RetainedAlways == LedgerSpec => []RetainedExact
<1>1. Inv => RetainedExact
    BY DEF Inv
<1> QED BY <1>1, InvAlways, PTL

(* A reader that follows its cursor never misses a result and is never     *)
(* given one twice, however many results are evicted and however often an  *)
(* older checkpoint is restored (read, exportState, importState).          *)
THEOREM GaplessAlways == LedgerSpec => []Gapless
<1>1. Inv => Gapless
    BY DEF Inv
<1> QED BY <1>1, InvAlways, PTL

------------------------------------------------------------------------------
(* The client of the machine.  What holds of it between any two of its     *)
(* steps is stated of a client s, as its operators are.                    *)

Lines == [kind : {"request", "cancel"}, n : Nat]
Promises == {"waiting", "answered", "aborted", "failed", "refused"}
Made == [id : Correlations, promise : Promises, canceled : BOOLEAN, answer : Nat]

ClientSet ==
  [requests : Seq(Made), pending : [Correlations -> Nat], writes : Seq(Lines),
   cancels : SUBSET Nat,
   flow : [blocked : BOOLEAN, eof : BOOLEAN, draining : BOOLEAN, closed : BOOLEAN],
   child : [alive : BOOLEAN, exitSeen : BOOLEAN, stdin : {"open", "ended", "destroyed"}],
   written : Seq(Lines)]

\* What the child was written and is still to be written, in order.
Due(s) == s.written \o s.writes
Holds(q, line) == \E i \in DOMAIN q : q[i] = line

\* Every line is there once.
OnceIn(q) == \A i, j \in DOMAIN q : q[i] = q[j] => i = j

\* Every line is one of a request that was made and not refused, and a cancel is of
\* one that is canceled and stands before it.
KnownIn(q, made) ==
  \A i \in DOMAIN q :
    /\ q[i].n \in DOMAIN made
    /\ made[q[i].n].promise # "refused"
    /\ q[i].kind = "cancel" =>
         /\ made[q[i].n].canceled
         /\ \E j \in DOMAIN q : j < i /\ q[j] = Line("request", q[i].n)

\* A request has no answer but its own, and waits only at a client that is not closed.
AnswersOf(s) ==
  \A n \in DOMAIN s.requests :
    /\ s.requests[n].answer \in {None, n}
    /\ s.requests[n].promise = "answered" => s.requests[n].answer = n
    /\ s.requests[n].promise = "waiting" => ~s.flow.closed /\ s.requests[n].answer = None
    /\ s.requests[n].promise = "failed" => s.flow.closed
    /\ s.requests[n].promise \in {"waiting", "aborted"} /\ s.requests[n].answer = None
       /\ ~s.flow.closed => s.pending[s.requests[n].id] = n

\* Who is looked up by a correlation is a request of it that has no answer yet.
LookupsOf(s) ==
  \A c \in Correlations : s.pending[c] # None =>
    /\ ~s.flow.closed
    /\ s.pending[c] \in DOMAIN s.requests
    /\ s.requests[s.pending[c]].id = c
    /\ s.requests[s.pending[c]].answer = None
    /\ s.requests[s.pending[c]].promise \in {"waiting", "aborted"}

\* The machine hears of it, and of its cancel once it was aborted.
HeardOf(s) ==
  ~s.flow.closed =>
    /\ \A c \in Correlations : s.pending[c] # None =>
         /\ Holds(Due(s), Line("request", s.pending[c]))
         /\ s.requests[s.pending[c]].promise = "aborted" => s.requests[s.pending[c]].canceled
         /\ s.requests[s.pending[c]].canceled => Holds(Due(s), Line("cancel", s.pending[c]))
    /\ \A n \in s.cancels : Holds(Due(s), Line("cancel", n))

\* What holds also in the middle of a step.
Sound(s) ==
  /\ s \in ClientSet
  /\ OnceIn(Due(s)) /\ KnownIn(Due(s), s.requests)
  /\ AnswersOf(s) /\ LookupsOf(s) /\ HeardOf(s)

\* A closed client has nothing to write and no open input, one that is not blocked
\* nothing to write.
FlowsOf(s) ==
  /\ s.flow.closed => s.writes = <<>> /\ s.child.stdin # "open"
  /\ ~s.flow.closed /\ ~s.flow.blocked => s.writes = <<>>
  /\ Len(s.writes) <= MaxQueued

\* Once the output ended every request that is looked up was canceled.
EndsOf(s) ==
  ~s.flow.closed /\ s.flow.eof =>
    \A c \in Correlations : s.pending[c] # None => s.requests[s.pending[c]].canceled

FewOf(s) == Cardinality({s.pending[c] : c \in Correlations} \ {None}) <= MaxActive

MachineInv == Sound(Client) /\ FlowsOf(Client) /\ EndsOf(Client) /\ FewOf(Client)

------------------------------------------------------------------------------
(* The world's posts.                                                      *)

\* The messages among the events before place p, and where event q's place is among
\* all of them.
Before(p) == {q \in MessagePlaces : q < p}
NumberOf(q) == Cardinality(Before(q)) + 1

\* The message at place q lies where it was posted to.
LiesIn(m, q) == \E k \in DOMAIN m[TargetOf(Events[q])] :
                  m[TargetOf(Events[q])][k].event = Events[q].id
Lies(q) == LiesIn(moltnet, q)

Results == [event : {Events[i].id : i \in DOMAIN Events},
            request : {RequestFor(Events[i]) : i \in DOMAIN Events}]
Posted == [event : {Events[i].id : i \in DOMAIN Events} \cup {NoEvent}]

DeliveryTyped ==
  /\ delivery \in [at : 1..(Len(Events) + 1), results : Seq(Results),
                   state : {"idle", "sending", "failed", "delivered"}, started : Nat]
  /\ moltnet \in [Conversations -> Seq(Posted)]

\* The results are of the messages before the next event, which all lie where they
\* were posted to.
ResultsInv ==
  /\ Len(delivery.results) = Cardinality(Before(delivery.at))
  /\ \A q \in Before(delivery.at) :
       /\ delivery.results[NumberOf(q)] = [event |-> Events[q].id, request |-> RequestFor(Events[q])]
       /\ Lies(q)
  /\ delivery.state = "delivered" => delivery.at = Len(Events) + 1

\* No message lies in Moltnet before an earlier one does, nor under an event it was
\* not posted for.
OwnIn(m) ==
  \A c \in Conversations : \A k \in DOMAIN m[c] :
    m[c][k].event # NoEvent =>
      \E q \in MessagePlaces : Events[q].id = m[c][k].event /\ TargetOf(Events[q]) = c

MoltnetInv ==
  /\ \A p, q \in MessagePlaces : p < q /\ Lies(q) => Lies(p)
  /\ OwnIn(moltnet)

DeliveryInv == DeliveryTyped /\ ResultsInv /\ MoltnetInv

------------------------------------------------------------------------------
\* How many numbers of a set are below one of them (Ordered): fewer than all, and
\* fewer than below any larger one.
LEMMA BelowIs ==
  ASSUME NEW S \in SUBSET Nat, IsFiniteSet(S), NEW n \in S
  PROVE  /\ IsFiniteSet({m \in S : m < n})
         /\ Cardinality({m \in S : m < n}) \in 0..(Cardinality(S) - 1)
         /\ Cardinality(S) \in Nat
         /\ \A k \in S : n < k => Cardinality({m \in S : m < n}) < Cardinality({m \in S : m < k})
<1> DEFINE below(k) == {m \in S : m < k}
<1>1. \A k : IsFiniteSet(below(k)) /\ Cardinality(below(k)) \in Nat
  BY FS_Subset, FS_CardinalityType
<1>2. /\ IsFiniteSet(below(n) \cup {n})
      /\ Cardinality(below(n) \cup {n}) = Cardinality(below(n)) + 1
  <2>1. n \notin below(n)
    OBVIOUS
  <2> QED BY <1>1, <2>1, FS_AddElement
<1>3. Cardinality(below(n)) + 1 <= Cardinality(S) /\ Cardinality(S) \in Nat
  BY <1>2, FS_Subset, FS_CardinalityType
<1>4. ASSUME NEW k \in S, n < k
      PROVE  Cardinality(below(n)) < Cardinality(below(k))
  <2>1. below(n) \cup {n} \subseteq below(k)
    <3> SUFFICES ASSUME NEW m \in S, m < n \/ m = n PROVE m < k
      BY DEF below
    <3>1. m \in Nat /\ n \in Nat /\ k \in Nat
      OBVIOUS
    <3> QED BY <1>4, <3>1
  <2>2. Cardinality(below(n) \cup {n}) <= Cardinality(below(k))
    BY <1>1, <2>1, FS_Subset
  <2> QED BY <1>1, <1>2, <2>2
<1> QED BY <1>1, <1>3, <1>4

\* Ordered lists the numbers of a finite set, each once, from the least on.
LEMMA OrderedIs ==
  ASSUME NEW S \in SUBSET Nat, IsFiniteSet(S)
  PROVE  /\ Cardinality(S) \in Nat
         /\ DOMAIN Ordered(S) = 1..Cardinality(S)
         /\ \A i \in 1..Cardinality(S) :
              Ordered(S)[i] \in S /\ Cardinality({m \in S : m < Ordered(S)[i]}) = i - 1
         /\ \A n \in S : /\ Cardinality({m \in S : m < n}) + 1 \in 1..Cardinality(S)
                         /\ Ordered(S)[Cardinality({m \in S : m < n}) + 1] = n
         /\ \A i, j \in 1..Cardinality(S) : i < j => Ordered(S)[i] < Ordered(S)[j]
<1> DEFINE N == Cardinality(S)
           low(n) == Cardinality({m \in S : m < n})
           r == [n \in S |-> low(n) + 1]
<1>1. N \in Nat
  BY FS_CardinalityType
<1>2. \A n \in S : low(n) \in 0..(N - 1)
  BY BelowIs
<1>3. \A n, k \in S : n < k => low(n) < low(k)
  BY BelowIs
<1>4. \A n, k \in S : low(n) = low(k) => n = k
  <2> SUFFICES ASSUME NEW n \in S, NEW k \in S, low(n) = low(k), n # k PROVE FALSE
    OBVIOUS
  <2> HIDE DEF low
  <2>1. n < k \/ k < n
    OBVIOUS
  <2> QED BY <1>2, <1>3, <2>1
<1>5. \A i \in 1..N : \E n \in S : low(n) = i - 1
  <2> HIDE DEF low
  <2>0. /\ r \in [S -> 1..N]
        /\ \A n, k \in S : r[n] = r[k] => n = k
    BY <1>1, <1>2, <1>4
  <2>1. r \in Injection(S, 1..N)
    <3> HIDE DEF r, N
    <3> QED BY <2>0 DEF Injection, IsInjective
  <2>2. IsFiniteSet(1..N) /\ Cardinality(1..N) = N
    BY <1>1, FS_Interval
  <2>3. r \in Surjection(S, 1..N)
    BY <2>1, <2>2, FS_Injection
  <2>4. \A i \in 1..N : \E n \in S : r[n] = i
    <3> HIDE DEF r, N
    <3> QED BY <2>3 DEF Surjection
  <2> QED BY <1>1, <1>2, <2>4
<1>6. /\ DOMAIN Ordered(S) = 1..N
      /\ \A i \in 1..N : Ordered(S)[i] = CHOOSE n \in S : low(n) = i - 1
  BY DEF Ordered
<1>7. \A i \in 1..N : Ordered(S)[i] \in S /\ low(Ordered(S)[i]) = i - 1
  <2> HIDE DEF low, N
  <2> QED BY <1>5, <1>6
<1>8. \A n \in S : low(n) + 1 \in 1..N /\ Ordered(S)[low(n) + 1] = n
  <2> SUFFICES ASSUME NEW n \in S PROVE low(n) + 1 \in 1..N /\ Ordered(S)[low(n) + 1] = n
    OBVIOUS
  <2> HIDE DEF low, N
  <2>1. low(n) \in Nat /\ low(n) + 1 \in 1..N /\ (low(n) + 1) - 1 = low(n)
    BY <1>1, <1>2
  <2>2. Ordered(S)[low(n) + 1] \in S /\ low(Ordered(S)[low(n) + 1]) = low(n)
    BY <2>1, <1>7
  <2> QED BY <1>4, <2>1, <2>2
<1>9. \A i, j \in 1..N : i < j => Ordered(S)[i] < Ordered(S)[j]
  <2> SUFFICES ASSUME NEW i \in 1..N, NEW j \in 1..N, i < j PROVE Ordered(S)[i] < Ordered(S)[j]
    OBVIOUS
  <2> HIDE DEF low, N
  <2>1. /\ Ordered(S)[i] \in S /\ low(Ordered(S)[i]) = i - 1
        /\ Ordered(S)[j] \in S /\ low(Ordered(S)[j]) = j - 1
    BY <1>7
  <2> DEFINE a == Ordered(S)[i]
             b == Ordered(S)[j]
  <2>2. a \in S /\ b \in S /\ low(a) = i - 1 /\ low(b) = j - 1
    BY <2>1
  <2>3. a \in Nat /\ b \in Nat
    BY <2>2
  <2> HIDE DEF a, b
  <2>4. ~(b < a) /\ a # b
    BY <1>1, <1>3, <2>2 DEF N
  <2>5. a < b
    BY <2>3, <2>4
  <2> QED BY <2>5 DEF a, b
<1> QED BY <1>1, <1>6, <1>7, <1>8, <1>9

------------------------------------------------------------------------------
\* The start of a list of lines that are known and there once is such a list
\* (flushWrites, and fail which drops the rest).
LEMMA PrefixFine ==
  ASSUME NEW q \in Seq(Lines), NEW p \in Seq(Lines), Len(p) <= Len(q),
         \A i \in DOMAIN p : p[i] = q[i], NEW made, OnceIn(q), KnownIn(q, made)
  PROVE  OnceIn(p) /\ KnownIn(p, made)
<1>1. DOMAIN p = 1..Len(p) /\ DOMAIN q = 1..Len(q) /\ Len(p) \in Nat /\ Len(q) \in Nat
  OBVIOUS
<1>2. DOMAIN p \subseteq DOMAIN q /\ \A i \in DOMAIN p : i \in Nat
  BY <1>1
<1>3. OnceIn(p)
  BY <1>2 DEF OnceIn
<1>4. \A i \in DOMAIN p : \A j \in DOMAIN q : j < i => j \in DOMAIN p
  BY <1>1
<1>5. KnownIn(p, made)
  BY <1>2, <1>4 DEF KnownIn
<1> QED BY <1>3, <1>5

\* Lines may be added that are not there yet and are known.
LEMMA ExtendFine ==
  ASSUME NEW q \in Seq(Lines), NEW p \in Seq(Lines), NEW made,
         OnceIn(q), OnceIn(p), KnownIn(q, made),
         \A i \in DOMAIN p :
           /\ ~Holds(q, p[i]) /\ p[i].n \in DOMAIN made /\ made[p[i].n].promise # "refused"
           /\ p[i].kind = "cancel" =>
                made[p[i].n].canceled /\ Holds(q, Line("request", p[i].n))
  PROVE  /\ OnceIn(q \o p) /\ KnownIn(q \o p, made)
         /\ \A line : Holds(q \o p, line) <=> Holds(q, line) \/ Holds(p, line)
<1> DEFINE both == q \o p
           a == Len(q)
           b == Len(p)
<1>1. /\ DOMAIN q = 1..a /\ DOMAIN p = 1..b /\ a \in Nat /\ b \in Nat
      /\ both \in Seq(Lines) /\ DOMAIN both = 1..(a + b)
  BY ConcatProperties
<1>2. \A i \in DOMAIN both : both[i] = IF i <= a THEN q[i] ELSE p[i - a]
  BY ConcatProperties, <1>1
<1> HIDE DEF both, a, b
<1>3. /\ \A i \in DOMAIN both : \/ i \in DOMAIN q /\ both[i] = q[i]
                                \/ i > a /\ i - a \in DOMAIN p /\ both[i] = p[i - a]
      /\ \A i \in DOMAIN q : i \in DOMAIN both /\ both[i] = q[i] /\ i <= a
      /\ \A i \in DOMAIN p : a + i \in DOMAIN both /\ both[a + i] = p[i]
  BY <1>1, <1>2
<1>4. \A line : Holds(both, line) <=> Holds(q, line) \/ Holds(p, line)
  BY <1>3 DEF Holds
<1>5. OnceIn(both)
  <2> SUFFICES ASSUME NEW i \in DOMAIN both, NEW j \in DOMAIN both, both[i] = both[j]
               PROVE  i = j
    BY DEF OnceIn
  <2>1. i \in Nat /\ j \in Nat /\ a \in Nat
    BY <1>1
  <2>2. CASE i \in DOMAIN q /\ both[i] = q[i] /\ j \in DOMAIN q /\ both[j] = q[j]
    BY <2>2 DEF OnceIn
  <2>3. CASE i \in DOMAIN q /\ both[i] = q[i] /\ j - a \in DOMAIN p /\ both[j] = p[j - a]
    BY <2>3 DEF Holds
  <2>4. CASE j \in DOMAIN q /\ both[j] = q[j] /\ i - a \in DOMAIN p /\ both[i] = p[i - a]
    BY <2>4 DEF Holds
  <2>5. CASE i - a \in DOMAIN p /\ both[i] = p[i - a] /\ j - a \in DOMAIN p /\ both[j] = p[j - a]
    <3>1. i - a = j - a
      BY <2>5 DEF OnceIn
    <3> QED BY <2>1, <3>1
  <2> QED BY <1>3, <2>2, <2>3, <2>4, <2>5
<1>6. KnownIn(both, made)
  <2> SUFFICES ASSUME NEW i \in DOMAIN both
               PROVE  /\ both[i].n \in DOMAIN made
                      /\ made[both[i].n].promise # "refused"
                      /\ both[i].kind = "cancel" =>
                           /\ made[both[i].n].canceled
                           /\ \E j \in DOMAIN both : j < i /\ both[j] = Line("request", both[i].n)
    BY DEF KnownIn
  <2>1. CASE i \in DOMAIN q /\ both[i] = q[i]
    BY <1>3, <2>1 DEF KnownIn
  <2>2. CASE i > a /\ i - a \in DOMAIN p /\ both[i] = p[i - a]
    <3>1. ASSUME both[i].kind = "cancel"
          PROVE  \E j \in DOMAIN both : j < i /\ both[j] = Line("request", both[i].n)
      <4>1. PICK j \in DOMAIN q : q[j] = Line("request", both[i].n)
        BY <2>2, <3>1 DEF Holds
      <4>2. j \in DOMAIN both /\ both[j] = q[j] /\ j <= a
        BY <1>3
      <4>3. j < i
        BY <1>1, <2>2, <4>2
      <4> QED BY <4>1, <4>2, <4>3
    <3> QED BY <2>2, <3>1
  <2> QED BY <1>3, <2>1, <2>2
<1> QED BY <1>4, <1>5, <1>6 DEF both

\* Lines stay known while requests are added, aborted, answered and canceled.
LEMMA KnownStays ==
  ASSUME NEW q, NEW made, NEW then, KnownIn(q, made), DOMAIN made \subseteq DOMAIN then,
         \A n \in DOMAIN made :
           /\ then[n].promise = "refused" => made[n].promise = "refused"
           /\ made[n].canceled => then[n].canceled
  PROVE  KnownIn(q, then)
BY DEF KnownIn

\* What is due, place by place.
LEMMA DueIs ==
  ASSUME NEW s \in ClientSet
  PROVE  /\ s.written \in Seq(Lines) /\ s.writes \in Seq(Lines)
         /\ Due(s) \in Seq(Lines)
         /\ Len(s.written) \in Nat /\ Len(s.writes) \in Nat
         /\ DOMAIN s.written = 1..Len(s.written) /\ DOMAIN s.writes = 1..Len(s.writes)
         /\ DOMAIN Due(s) = 1..(Len(s.written) + Len(s.writes))
         /\ Len(Due(s)) = Len(s.written) + Len(s.writes)
         /\ \A i \in DOMAIN s.written : i \in DOMAIN Due(s) /\ Due(s)[i] = s.written[i]
         /\ s.writes = <<>> => Due(s) = s.written
<1>1. s.written \in Seq(Lines) /\ s.writes \in Seq(Lines)
  BY DEF ClientSet
<1> DEFINE w == s.written
           v == s.writes
<1>2. w \in Seq(Lines) /\ v \in Seq(Lines)
  BY <1>1
<1> HIDE DEF w, v
<1>3. /\ w \o v \in Seq(Lines) /\ Len(w \o v) = Len(w) + Len(v)
      /\ Len(w) \in Nat /\ Len(v) \in Nat /\ DOMAIN w = 1..Len(w) /\ DOMAIN v = 1..Len(v)
      /\ \A i \in 1..(Len(w) + Len(v)) : (w \o v)[i] = IF i <= Len(w) THEN w[i] ELSE v[i - Len(w)]
  BY <1>2, ConcatProperties, LenProperties
<1>4. DOMAIN (w \o v) = 1..(Len(w) + Len(v))
  BY <1>3, LenProperties
<1>5. \A i \in DOMAIN w : i \in DOMAIN (w \o v) /\ (w \o v)[i] = w[i]
  BY <1>3, <1>4
<1>6. v = <<>> => w \o v = w
  BY <1>2, ConcatEmptySeq
<1> QED BY <1>2, <1>3, <1>4, <1>5, <1>6 DEF w, v, Due

------------------------------------------------------------------------------
\* What fail makes of a client that was not closed, field by field.
LEMMA FailIs ==
  ASSUME NEW s \in ClientSet, NEW graceful \in BOOLEAN, ~s.flow.closed
  PROVE  LET t == Fail(s, graceful) IN
         /\ t \in ClientSet /\ t.flow.closed /\ t.writes = <<>> /\ t.written = s.written
         /\ t.pending = [c \in Correlations |-> None] /\ t.cancels = {}
         /\ t.child.stdin # "open"
         /\ DOMAIN t.requests = DOMAIN s.requests
         /\ \A n \in DOMAIN s.requests :
              /\ t.requests[n].id = s.requests[n].id
              /\ t.requests[n].canceled = s.requests[n].canceled
              /\ t.requests[n].answer = s.requests[n].answer
              /\ t.requests[n].promise = IF s.requests[n].promise = "waiting" THEN "failed"
                                         ELSE s.requests[n].promise
<1> DEFINE told == [n \in DOMAIN s.requests |->
                     IF s.requests[n].promise = "waiting"
                     THEN [s.requests[n] EXCEPT !.promise = "failed"]
                     ELSE s.requests[n]]
           flow1 == [s.flow EXCEPT !.closed = TRUE, !.draining = FALSE]
           child1 == [s.child EXCEPT !.stdin = IF graceful THEN "ended" ELSE "destroyed",
                                     !.alive = graceful /\ s.child.alive]
           t == Fail(s, graceful)
<1>1. /\ s.requests \in Seq(Made) /\ s.written \in Seq(Lines)
      /\ s.flow \in [blocked : BOOLEAN, eof : BOOLEAN, draining : BOOLEAN, closed : BOOLEAN]
      /\ s.child \in [alive : BOOLEAN, exitSeen : BOOLEAN,
                      stdin : {"open", "ended", "destroyed"}]
  BY DEF ClientSet
<1>2. /\ t.requests = told /\ t.flow = flow1 /\ t.child = child1 /\ t.writes = <<>>
      /\ t.pending = [c \in Correlations |-> None] /\ t.cancels = {} /\ t.written = s.written
      /\ t = [requests |-> told, pending |-> [c \in Correlations |-> None], writes |-> <<>>,
              cancels |-> {}, flow |-> flow1, child |-> child1, written |-> s.written]
  BY DEF Fail, ClientSet
<1>3. /\ DOMAIN s.requests = 1..Len(s.requests) /\ Len(s.requests) \in Nat
      /\ \A n \in DOMAIN s.requests : s.requests[n] \in Made
  BY <1>1, LenProperties
<1>4. \A n \in DOMAIN s.requests :
        /\ told[n] \in Made
        /\ told[n].id = s.requests[n].id
        /\ told[n].canceled = s.requests[n].canceled
        /\ told[n].answer = s.requests[n].answer
        /\ told[n].promise = IF s.requests[n].promise = "waiting" THEN "failed"
                             ELSE s.requests[n].promise
  BY <1>3 DEF Made, Promises
<1>5. told \in Seq(Made) /\ DOMAIN told = DOMAIN s.requests
  <2>1. \A n \in 1..Len(s.requests) : told[n] \in Made
    BY <1>3, <1>4
  <2>2. DOMAIN told = 1..Len(s.requests)
    BY <1>3
  <2>3. told \in [1..Len(s.requests) -> Made]
    <3> DEFINE f(n) == told[n]
    <3>1. told = [n \in 1..Len(s.requests) |-> told[n]]
      BY <2>2
    <3> HIDE DEF told
    <3> QED BY <2>1, <2>2, <3>1
  <2> HIDE DEF told
  <2> QED BY <1>3, <2>3, <2>2, SeqDef
<1>6. flow1 \in [blocked : BOOLEAN, eof : BOOLEAN, draining : BOOLEAN, closed : BOOLEAN]
      /\ flow1.closed
  BY <1>1
<1>7. child1 \in [alive : BOOLEAN, exitSeen : BOOLEAN, stdin : {"open", "ended", "destroyed"}]
      /\ child1.stdin # "open"
  BY <1>1
<1>8. [c \in Correlations |-> None] \in [Correlations -> Nat]
  BY DEF None
<1> HIDE DEF told, flow1, child1
<1>9. t \in ClientSet
  BY <1>1, <1>2, <1>5, <1>6, <1>7, <1>8 DEF ClientSet
<1> QED BY <1>2, <1>4, <1>5, <1>6, <1>7, <1>9

\* A client that has come to its end: nothing is due any more.
Over(s) == Sound(s) /\ FlowsOf(s) /\ EndsOf(s) /\ FewOf(s) /\ s.flow.closed

\* fail leaves a client in order whatever lines it drops (fail, failWriter).
LEMMA FailKeeps ==
  ASSUME NEW s \in ClientSet, NEW graceful \in BOOLEAN, ~s.flow.closed,
         OnceIn(Due(s)), KnownIn(Due(s), s.requests), AnswersOf(s)
  PROVE  Over(Fail(s, graceful))
<1> DEFINE t == Fail(s, graceful)
<1>1. /\ t \in ClientSet /\ t.flow.closed /\ t.writes = <<>> /\ t.written = s.written
      /\ t.pending = [c \in Correlations |-> None] /\ t.cancels = {}
      /\ t.child.stdin # "open"
      /\ DOMAIN t.requests = DOMAIN s.requests
      /\ \A n \in DOMAIN s.requests :
              /\ t.requests[n].id = s.requests[n].id
              /\ t.requests[n].canceled = s.requests[n].canceled
              /\ t.requests[n].answer = s.requests[n].answer
              /\ t.requests[n].promise = IF s.requests[n].promise = "waiting" THEN "failed"
                                         ELSE s.requests[n].promise
  BY FailIs
<1> HIDE DEF t
<1>2. /\ Due(t) = s.written /\ s.written \in Seq(Lines) /\ Due(s) \in Seq(Lines)
      /\ Len(s.written) <= Len(Due(s)) /\ \A i \in DOMAIN s.written : s.written[i] = Due(s)[i]
  <2>1. t \in ClientSet /\ t.writes = <<>>
    BY <1>1
  <2>2. Due(t) = t.written
    BY ONLY <2>1, DueIs
  <2>3. /\ s.written \in Seq(Lines) /\ Due(s) \in Seq(Lines)
        /\ Len(s.written) \in Nat /\ Len(s.writes) \in Nat
        /\ Len(Due(s)) = Len(s.written) + Len(s.writes)
        /\ \A i \in DOMAIN s.written : Due(s)[i] = s.written[i]
    BY ONLY s \in ClientSet, DueIs
  <2>4. t.written = s.written
    BY <1>1
  <2>5. Len(s.written) <= Len(Due(s))
    <3> DEFINE a == Len(s.written)
               b == Len(s.writes)
               d == Len(Due(s))
    <3>1. a \in Nat /\ b \in Nat /\ d = a + b
      BY <2>3
    <3> HIDE DEF a, b, d
    <3>2. a <= d
      BY <3>1
    <3> QED BY <3>2 DEF a, d
  <2> QED BY ONLY <2>2, <2>3, <2>4, <2>5
<1>3. OnceIn(Due(t)) /\ KnownIn(Due(t), s.requests)
  BY <1>2, PrefixFine
<1>4. KnownIn(Due(t), t.requests)
  BY <1>1, <1>3, KnownStays
<1>5. AnswersOf(t)
  BY <1>1 DEF AnswersOf
<1>6. LookupsOf(t) /\ HeardOf(t) /\ EndsOf(t)
  BY <1>1 DEF LookupsOf, HeardOf, EndsOf
<1>7. FlowsOf(t)
  BY <1>1, MachineAssumption DEF FlowsOf, MaxQueued
<1>8. FewOf(t)
  <2>1. {t.pending[c] : c \in Correlations} \ {None} = {}
    BY <1>1
  <2> QED BY <2>1, FS_EmptySet, MachineAssumption DEF FewOf
<1> QED BY <1>1, <1>3, <1>4, <1>5, <1>6, <1>7, <1>8 DEF Over, Sound, t

\* A client is its fields.
LEMMA ClientShape ==
  ASSUME NEW s \in ClientSet
  PROVE  /\ DOMAIN s = {"requests", "pending", "writes", "cancels", "flow", "child", "written"}
         /\ s = [x \in DOMAIN s |-> s[x]]
         /\ s.requests \in Seq(Made) /\ s.pending \in [Correlations -> Nat]
         /\ s.writes \in Seq(Lines) /\ s.cancels \in SUBSET Nat
         /\ s.flow \in [blocked : BOOLEAN, eof : BOOLEAN, draining : BOOLEAN, closed : BOOLEAN]
         /\ s.child \in [alive : BOOLEAN, exitSeen : BOOLEAN,
                         stdin : {"open", "ended", "destroyed"}]
         /\ s.written \in Seq(Lines)
BY DEF ClientSet

\* Lists of lines may be joined in any order.
LEMMA LinesJoin ==
  \A a, b, c \in Seq(Lines) : (a \o b) \o c = a \o (b \o c)
BY ConcatAssociative

\* The lines are written in order: what is due stays the same (flushWrites).
LEMMA TookIs ==
  ASSUME NEW s \in ClientSet, NEW k \in 0..Len(s.writes)
  PROVE  LET t == [s EXCEPT !.writes = SubSeq(s.writes, k + 1, Len(s.writes)),
                            !.written = s.written \o SubSeq(s.writes, 1, k)] IN
         /\ t \in ClientSet /\ Due(t) = Due(s) /\ Len(t.writes) = Len(s.writes) - k
         /\ t.requests = s.requests /\ t.pending = s.pending /\ t.cancels = s.cancels
         /\ t.flow = s.flow /\ t.child = s.child
<1> DEFINE w == s.written
           v == s.writes
           front == SubSeq(v, 1, k)
           back == SubSeq(v, k + 1, Len(v))
           t == [s EXCEPT !.writes = back, !.written = w \o front]
<1>1. w \in Seq(Lines) /\ v \in Seq(Lines) /\ k \in Nat /\ Len(v) \in Nat /\ k <= Len(v)
  <2>1. s.written \in Seq(Lines) /\ s.writes \in Seq(Lines) /\ Len(s.writes) \in Nat
    BY ONLY s \in ClientSet, DueIs
  <2> QED BY <2>1
<1> HIDE DEF front, back, w
<1>2. /\ t.requests = s.requests /\ t.pending = s.pending /\ t.cancels = s.cancels
      /\ t.flow = s.flow /\ t.child = s.child /\ t.writes = back /\ t.written = w \o front
      /\ t = [requests |-> s.requests, pending |-> s.pending, writes |-> back,
              cancels |-> s.cancels, flow |-> s.flow, child |-> s.child,
              written |-> w \o front]
  <2> DEFINE both == w \o front
             u == [s EXCEPT !.writes = back]
  <2> HIDE DEF both
  <2>1. u.requests = s.requests /\ u.pending = s.pending /\ u.cancels = s.cancels
        /\ u.flow = s.flow /\ u.child = s.child /\ u.writes = back /\ DOMAIN u = DOMAIN s
    BY ClientShape
  <2> HIDE DEF u
  <2> DEFINE x == [u EXCEPT !.written = both]
  <2>2. x.requests = s.requests /\ x.pending = s.pending /\ x.cancels = s.cancels
        /\ x.flow = s.flow /\ x.child = s.child /\ x.writes = back /\ x.written = both
        /\ DOMAIN x = DOMAIN s /\ x = [y \in DOMAIN x |-> x[y]]
    BY <2>1, ClientShape
  <2> HIDE DEF x
  <2>3. x = [requests |-> s.requests, pending |-> s.pending, writes |-> back,
             cancels |-> s.cancels, flow |-> s.flow, child |-> s.child, written |-> both]
    BY <2>2, ClientShape
  <2>4. x = t
    BY DEF x, u, both
  <2> HIDE DEF t
  <2> QED BY <2>2, <2>3, <2>4 DEF both
<1>3. /\ s.requests \in Seq(Made) /\ s.pending \in [Correlations -> Nat]
      /\ s.cancels \in SUBSET Nat
      /\ s.flow \in [blocked : BOOLEAN, eof : BOOLEAN, draining : BOOLEAN, closed : BOOLEAN]
      /\ s.child \in [alive : BOOLEAN, exitSeen : BOOLEAN,
                      stdin : {"open", "ended", "destroyed"}]
  BY ZenonT(60) DEF ClientSet
<1> HIDE DEF v
<1>4. /\ front \in Seq(Lines) /\ back \in Seq(Lines) /\ Len(back) = Len(v) - k
      /\ front \o back = v
  <2>1. DOMAIN v = 1..Len(v) /\ \A i \in 1..Len(v) : v[i] \in Lines
    BY <1>1, LenProperties, ElementOfSeq
  <2>2. front \in Seq(Lines)
    BY <1>1, <2>1, SubSeqProperties DEF front
  <2>3. back \in Seq(Lines) /\ Len(back) = Len(v) - k
    <3>1. \A i \in (k + 1)..Len(v) : v[i] \in Lines
      BY <1>1, <2>1
    <3>2. k + 1 \in Int /\ Len(v) \in Int
      BY <1>1
    <3>3. /\ SubSeq(v, k + 1, Len(v)) \in Seq(Lines)
          /\ Len(SubSeq(v, k + 1, Len(v))) =
               IF k + 1 <= Len(v) THEN Len(v) - (k + 1) + 1 ELSE 0
      BY ONLY <3>1, <3>2, SubSeqProperties
    <3> QED BY <1>1, <3>3 DEF back
  <2>4. SubSeq(v, 1, k) \o SubSeq(v, k + 1, Len(v)) = SubSeq(v, 1, Len(v))
    <3>1. 1 \in 1..(Len(v) + 1) /\ k \in (1 - 1)..Len(v) /\ Len(v) \in k..Len(v)
      BY <1>1
    <3> QED BY ONLY <1>1, <3>1, ConcatAdjacentSubSeq
  <2>5. SubSeq(v, 1, Len(v)) = v
    BY <1>1, SubSeqFull
  <2> QED BY <2>2, <2>3, <2>4, <2>5 DEF front, back
<1>5. (w \o front) \o back = w \o v /\ w \o front \in Seq(Lines)
  <2>1. (w \o front) \o back = w \o (front \o back)
    BY ONLY <1>1, <1>4, LinesJoin, ZenonT(60)
  <2>2. w \o front \in Seq(Lines)
    BY ONLY <1>1, <1>4, ConcatProperties
  <2> QED BY <1>4, <2>1, <2>2
<1>6. t \in ClientSet
  BY <1>2, <1>3, <1>4, <1>5 DEF ClientSet
<1>7. Due(t) = Due(s)
  BY <1>2, <1>5 DEF Due, w, v
<1> QED BY <1>2, <1>4, <1>6, <1>7 DEF v, w, front, back

------------------------------------------------------------------------------
\* A client stays sound that is the same but for its flow and where its lines are.
LEMMA SoundStays ==
  ASSUME NEW s, NEW t, Sound(s), t \in ClientSet, Due(t) = Due(s),
         t.requests = s.requests, t.pending = s.pending, t.cancels = s.cancels,
         t.flow.closed = s.flow.closed
  PROVE  Sound(t)
<1>1. /\ OnceIn(Due(s)) /\ KnownIn(Due(s), s.requests)
      /\ AnswersOf(s) /\ LookupsOf(s) /\ HeardOf(s)
  BY DEF Sound
<1>2. AnswersOf(t)
  BY <1>1 DEF AnswersOf
<1>3. LookupsOf(t)
  BY <1>1 DEF LookupsOf
<1>4. HeardOf(t)
  BY <1>1 DEF HeardOf
<1> QED BY <1>1, <1>2, <1>3, <1>4 DEF Sound

\* The pipe is full, or has room again.
LEMMA BlockedIs ==
  ASSUME NEW s \in ClientSet, NEW b \in BOOLEAN
  PROVE  LET t == [s EXCEPT !.flow.blocked = b] IN
         /\ t \in ClientSet /\ Due(t) = Due(s) /\ t.flow.blocked = b
         /\ t.requests = s.requests /\ t.pending = s.pending /\ t.cancels = s.cancels
         /\ t.writes = s.writes /\ t.written = s.written /\ t.child = s.child
         /\ t.flow.closed = s.flow.closed /\ t.flow.eof = s.flow.eof
         /\ t.flow.draining = s.flow.draining
<1> DEFINE fl == [s.flow EXCEPT !.blocked = b]
           t == [s EXCEPT !.flow = fl]
<1>1. fl \in [blocked : BOOLEAN, eof : BOOLEAN, draining : BOOLEAN, closed : BOOLEAN]
      /\ fl.blocked = b /\ fl.closed = s.flow.closed /\ fl.eof = s.flow.eof
      /\ fl.draining = s.flow.draining
  BY ClientShape, ZenonT(60)
<1>2. t = [s EXCEPT !.flow.blocked = b]
  BY DEF t
<1> HIDE DEF fl
<1>3. /\ t.requests = s.requests /\ t.pending = s.pending /\ t.cancels = s.cancels
      /\ t.writes = s.writes /\ t.written = s.written /\ t.child = s.child /\ t.flow = fl
  BY ClientShape
<1>4. t \in ClientSet
  BY <1>1 DEF ClientSet
<1> HIDE DEF t
<1>5. Due(t) = Due(s)
  BY <1>3 DEF Due
<1> QED BY <1>1, <1>2, <1>3, <1>4, <1>5

\* What a step of s comes to, when it only moves lines: an end, or the same client.
Moved(s, f) ==
  \/ Over(f) /\ DOMAIN f.requests = DOMAIN s.requests
  \/ /\ ~f.flow.closed /\ Sound(f)
     /\ ~f.flow.blocked => f.writes = <<>>
     /\ f.requests = s.requests /\ f.pending = s.pending /\ f.flow.eof = s.flow.eof
     /\ Len(f.writes) <= Len(s.writes)

\* fail and finishEof, of a sound client.
LEMMA FailMoves ==
  ASSUME NEW s, Sound(s), ~s.flow.closed, NEW graceful \in BOOLEAN
  PROVE  Moved(s, Fail(s, graceful))
<1>1. s \in ClientSet /\ OnceIn(Due(s)) /\ KnownIn(Due(s), s.requests) /\ AnswersOf(s)
  BY DEF Sound
<1>2. Over(Fail(s, graceful))
  BY <1>1, FailKeeps
<1>3. DOMAIN Fail(s, graceful).requests = DOMAIN s.requests
  BY <1>1, FailIs
<1> QED BY <1>2, <1>3 DEF Moved

\* Lines are written until the pipe is full or breaks, and the end of the output may be
\* seen to (flushWrites, finishEof).
LEMMA FlushKeeps ==
  ASSUME NEW s, Sound(s), FewOf(s), s.flow.closed => FlowsOf(s), NEW f \in Flush(s)
  PROVE  Moved(s, f)
<1> DEFINE took(k) == [s EXCEPT !.writes = SubSeq(s.writes, k + 1, Len(s.writes)),
                                !.written = s.written \o SubSeq(s.writes, 1, k)]
           n == Len(s.writes)
<1>0. s \in ClientSet /\ n \in Nat
  BY DueIs DEF Sound
<1>1. CASE s.flow.closed \/ s.flow.blocked
  <2>1. f = s
    BY <1>1 DEF Flush
  <2>2. CASE s.flow.closed
    BY <2>2, <2>1 DEF EndsOf, Moved, Over
  <2>3. CASE ~s.flow.closed
    BY <1>0, <1>1, <2>1, <2>3 DEF Moved
  <2> QED BY <2>2, <2>3
<1>2. CASE ~(s.flow.closed \/ s.flow.blocked)
  <2>1. \/ f = FinishEof(took(n))
        \/ \E k \in 1..n : f = [took(k) EXCEPT !.flow.blocked = TRUE]
        \/ \E k \in 1..n : f = Fail(took(k - 1), FALSE)
    BY <1>2 DEF Flush
  <2>2. \A k \in 0..n :
          /\ took(k) \in ClientSet /\ Due(took(k)) = Due(s) /\ Len(took(k).writes) = n - k
          /\ took(k).requests = s.requests /\ took(k).pending = s.pending
          /\ took(k).cancels = s.cancels /\ took(k).flow = s.flow /\ took(k).child = s.child
    BY <1>0, TookIs
  <2> HIDE DEF took, n
  <2>3. \A k \in 0..n : Sound(took(k))
    BY <2>2, SoundStays
  <2>4. CASE f = FinishEof(took(n))
    <3>1. /\ n \in 0..n /\ took(n) \in ClientSet /\ Sound(took(n)) /\ Len(took(n).writes) = 0
          /\ took(n).flow = s.flow /\ took(n).requests = s.requests
          /\ took(n).pending = s.pending
      BY <1>0, <2>2, <2>3
    <3>2. took(n).writes = <<>>
      BY <3>1, ClientShape, EmptySeq
    <3>3. f = took(n) \/ f = Fail(took(n), TRUE)
      BY <2>4 DEF FinishEof
    <3>4. CASE f = took(n)
      BY <1>0, <3>1, <3>4, <1>2, <3>2 DEF n, Moved
    <3>5. CASE f = Fail(took(n), TRUE)
      BY <1>2, <3>1, <3>5, FailMoves, FailKeeps DEF Sound, Moved, Over
    <3> QED BY <3>3, <3>4, <3>5
  <2>5. CASE \E k \in 1..n : f = [took(k) EXCEPT !.flow.blocked = TRUE]
    <3>1. PICK k \in 1..n : f = [took(k) EXCEPT !.flow.blocked = TRUE]
      BY <2>5
    <3>2. k \in 0..n
      BY <1>0
    <3> DEFINE t == took(k)
    <3>3. /\ t \in ClientSet /\ Sound(t) /\ t.flow = s.flow /\ t.requests = s.requests
          /\ t.pending = s.pending /\ Len(t.writes) = n - k
      BY <2>2, <2>3, <3>2
    <3>4. f = [t EXCEPT !.flow.blocked = TRUE]
      BY <3>1
    <3> HIDE DEF t
    <3>5. /\ f \in ClientSet /\ Due(f) = Due(t) /\ f.flow.blocked = TRUE
          /\ f.requests = t.requests /\ f.pending = t.pending /\ f.cancels = t.cancels
          /\ f.flow.closed = t.flow.closed /\ f.flow.eof = t.flow.eof /\ f.writes = t.writes
      BY <3>3, <3>4, BlockedIs
    <3>6. Sound(f)
      BY <3>3, <3>5, SoundStays
    <3>7. Len(f.writes) <= Len(s.writes)
      BY <1>0, <3>2, <3>3, <3>5 DEF n
    <3> QED BY <1>2, <3>3, <3>5, <3>6, <3>7 DEF Moved
  <2>6. CASE \E k \in 1..n : f = Fail(took(k - 1), FALSE)
    <3>1. PICK k \in 1..n : f = Fail(took(k - 1), FALSE)
      BY <2>6
    <3>2. k - 1 \in 0..n
      BY <1>0
    <3> DEFINE t == took(k - 1)
    <3>3. /\ Sound(t) /\ t.flow = s.flow /\ t.requests = s.requests
      BY <2>2, <2>3, <3>2
    <3>4. f = Fail(t, FALSE)
      BY <3>1
    <3> HIDE DEF t
    <3>5. Moved(t, f)
      BY <1>2, <3>3, <3>4, FailMoves
    <3>6. Over(f)
      BY <1>0, <1>2, <3>3, <3>4, FailKeeps DEF Sound
    <3>7. DOMAIN f.requests = DOMAIN s.requests
      BY <3>3, <3>5 DEF Moved
    <3> QED BY <3>6, <3>7 DEF Moved
  <2> QED BY <2>1, <2>4, <2>5, <2>6
<1> QED BY <1>1, <1>2

\* Lines are queued behind what is due (enqueueWrite).
LEMMA QueuedIs ==
  ASSUME NEW s \in ClientSet, NEW lines \in Seq(Lines)
  PROVE  LET t == [s EXCEPT !.writes = s.writes \o lines] IN
         /\ t \in ClientSet /\ Due(t) = Due(s) \o lines
         /\ t.requests = s.requests /\ t.pending = s.pending /\ t.cancels = s.cancels
         /\ t.flow = s.flow /\ t.child = s.child
<1> DEFINE w == s.writes \o lines
           t == [s EXCEPT !.writes = w]
<1>1. w \in Seq(Lines) /\ s.written \o w = (s.written \o s.writes) \o lines
  <2>1. s.writes \in Seq(Lines) /\ s.written \in Seq(Lines)
    BY ClientShape
  <2> QED BY <2>1, LinesJoin, ConcatProperties
<1> HIDE DEF w
<1>2. /\ t.requests = s.requests /\ t.pending = s.pending /\ t.cancels = s.cancels
      /\ t.flow = s.flow /\ t.child = s.child /\ t.writes = w /\ t.written = s.written
  BY ClientShape
<1>3. t \in ClientSet
  BY <1>1 DEF ClientSet
<1>4. t = [s EXCEPT !.writes = s.writes \o lines]
  BY DEF w
<1> HIDE DEF t
<1>5. Due(t) = Due(s) \o lines
  BY <1>1, <1>2 DEF Due
<1> QED BY <1>2, <1>3, <1>4, <1>5

------------------------------------------------------------------------------
\* What a cancel comes to: an end, or a client whose targets are canceled and that is
\* otherwise the same.
Canceled(s, targets, x) ==
  \/ Over(x) /\ DOMAIN x.requests = DOMAIN s.requests
  \/ /\ ~x.flow.closed /\ Sound(x) /\ FlowsOf(x)
     /\ x.pending = s.pending /\ x.flow.eof = s.flow.eof
     /\ DOMAIN x.requests = DOMAIN s.requests
     /\ \A n \in DOMAIN s.requests :
          /\ x.requests[n].id = s.requests[n].id
          /\ x.requests[n].promise = s.requests[n].promise
          /\ x.requests[n].answer = s.requests[n].answer
          /\ s.requests[n].canceled \/ n \in targets => x.requests[n].canceled

\* The client whose requests that are canceled now are marked (cancel).
Marking(s, new) ==
  [s EXCEPT
    !.requests = [n \in DOMAIN s.requests |->
                   IF n \in new THEN [s.requests[n] EXCEPT !.canceled = TRUE]
                   ELSE s.requests[n]],
    !.cancels = @ \cup new]

\* It is the same client but for the marks.
LEMMA MarkedIs ==
  ASSUME NEW s \in ClientSet, NEW new \in SUBSET (DOMAIN s.requests)
  PROVE  LET t == Marking(s, new) IN
         /\ t \in ClientSet /\ Due(t) = Due(s) /\ t.cancels = s.cancels \cup new
         /\ t.pending = s.pending /\ t.flow = s.flow /\ t.child = s.child
         /\ t.writes = s.writes
         /\ DOMAIN t.requests = DOMAIN s.requests
         /\ \A n \in DOMAIN s.requests :
              /\ t.requests[n].id = s.requests[n].id
              /\ t.requests[n].promise = s.requests[n].promise
              /\ t.requests[n].answer = s.requests[n].answer
              /\ t.requests[n].canceled <=> n \in new \/ s.requests[n].canceled
<1> DEFINE made == [n \in DOMAIN s.requests |->
                     IF n \in new THEN [s.requests[n] EXCEPT !.canceled = TRUE]
                     ELSE s.requests[n]]
           all == s.cancels \cup new
           t == [s EXCEPT !.requests = made, !.cancels = all]
<1>1. /\ s.requests \in Seq(Made) /\ s.cancels \in SUBSET Nat
  BY ClientShape
<1>2. /\ DOMAIN s.requests = 1..Len(s.requests) /\ Len(s.requests) \in Nat
      /\ \A n \in DOMAIN s.requests : s.requests[n] \in Made
  BY <1>1, LenProperties
<1>3. \A n \in DOMAIN s.requests :
        /\ made[n] \in Made
        /\ made[n].id = s.requests[n].id
        /\ made[n].promise = s.requests[n].promise
        /\ made[n].answer = s.requests[n].answer
        /\ made[n].canceled <=> n \in new \/ s.requests[n].canceled
  BY <1>2 DEF Made
<1>4. made \in Seq(Made) /\ DOMAIN made = DOMAIN s.requests
  <2>1. \A n \in 1..Len(s.requests) : made[n] \in Made
    BY <1>2, <1>3
  <2>2. DOMAIN made = 1..Len(s.requests)
    BY <1>2
  <2>3. made = [n \in 1..Len(s.requests) |-> made[n]]
    BY <2>2
  <2> HIDE DEF made
  <2>4. made \in [1..Len(s.requests) -> Made]
    BY <2>1, <2>2, <2>3
  <2> QED BY <1>2, <2>2, <2>4, SeqDef
<1>5. all \in SUBSET Nat
  BY <1>1, <1>2
<1> HIDE DEF made, all
<1> DEFINE u == [s EXCEPT !.requests = made]
<1>6. /\ u.pending = s.pending /\ u.writes = s.writes /\ u.flow = s.flow /\ u.child = s.child
      /\ u.written = s.written /\ u.requests = made /\ u.cancels = s.cancels
  BY ClientShape
<1>7. u \in ClientSet
  BY <1>4 DEF ClientSet
<1> HIDE DEF u
<1> DEFINE x == [u EXCEPT !.cancels = all]
<1>8. /\ x.pending = s.pending /\ x.writes = s.writes /\ x.flow = s.flow /\ x.child = s.child
      /\ x.written = s.written /\ x.requests = made /\ x.cancels = all
  BY <1>6, <1>7, ClientShape
<1>9. x \in ClientSet
  BY <1>5, <1>7 DEF ClientSet
<1>10. x = Marking(s, new)
  BY <1>6 DEF u, x, made, all, Marking
<1> HIDE DEF x
<1>11. Due(x) = Due(s)
  BY <1>8 DEF Due
<1> QED BY <1>3, <1>4, <1>8, <1>9, <1>10, <1>11 DEF all

\* A cancel keeps a client sound and marks who it was for (cancel).
LEMMA CancelKeeps ==
  ASSUME NEW s, Sound(s), FewOf(s), FlowsOf(s), NEW targets \in SUBSET (DOMAIN s.requests),
         ~s.flow.closed => \A n \in targets :
           s.requests[n].id \in Correlations /\ s.pending[s.requests[n].id] = n,
         NEW x \in Cancel(s, targets)
  PROVE  Canceled(s, targets, x)
<1> DEFINE new == {n \in targets : ~s.requests[n].canceled}
           lines == [i \in 1..Cardinality(new) |-> Line("cancel", Ordered(new)[i])]
           marked == [s EXCEPT
             !.requests = [n \in DOMAIN s.requests |->
                            IF n \in new THEN [s.requests[n] EXCEPT !.canceled = TRUE]
                            ELSE s.requests[n]],
             !.cancels = @ \cup new]
           queued == [marked EXCEPT !.writes = marked.writes \o lines]
<1>1. /\ s \in ClientSet /\ OnceIn(Due(s)) /\ KnownIn(Due(s), s.requests)
      /\ AnswersOf(s) /\ LookupsOf(s) /\ HeardOf(s)
  BY DEF Sound
<1>2. x \in IF new = {} \/ s.flow.closed THEN {s}
            ELSE {f \in Flush(queued) : Len(f.writes) <= MaxQueued}
                   \cup (IF Overflows(marked, lines) THEN {Fail(marked, FALSE)} ELSE {})
  BY DEF Cancel, Enqueue
<1>3. new \in SUBSET (DOMAIN s.requests) /\ new \subseteq targets
  OBVIOUS
<1>4. \A n \in targets : n \in new \/ s.requests[n].canceled
  OBVIOUS
<1>5. CASE s.flow.closed
  BY <1>2, <1>5 DEF EndsOf, Over, Canceled
<1>6. CASE ~s.flow.closed /\ new = {}
  <2>1. x = s
    BY <1>2, <1>6
  <2> HIDE DEF new
  <2> QED BY <1>4, <1>6, <2>1 DEF Canceled
<1>7. CASE ~s.flow.closed /\ new # {}
  <2>1. \/ x \in Flush(queued) /\ Len(x.writes) <= MaxQueued
        \/ x = Fail(marked, FALSE)
    <3> HIDE DEF new, queued, marked, lines
    <3> QED BY <1>2, <1>7
  <2>2. /\ marked \in ClientSet /\ Due(marked) = Due(s)
        /\ marked.cancels = s.cancels \cup new
        /\ marked.pending = s.pending /\ marked.flow = s.flow /\ marked.child = s.child
        /\ DOMAIN marked.requests = DOMAIN s.requests
        /\ \A n \in DOMAIN s.requests :
              /\ marked.requests[n].id = s.requests[n].id
              /\ marked.requests[n].promise = s.requests[n].promise
              /\ marked.requests[n].answer = s.requests[n].answer
              /\ marked.requests[n].canceled <=> n \in new \/ s.requests[n].canceled
    <3> HIDE DEF new
    <3>1. s \in ClientSet /\ new \in SUBSET (DOMAIN s.requests)
      BY <1>1, <1>3
    <3>2. marked = Marking(s, new)
      BY DEF Marking
    <3> HIDE DEF marked
    <3> QED BY ONLY <3>1, <3>2, MarkedIs
  <2> HIDE DEF marked, new
  <2>3. KnownIn(Due(marked), marked.requests) /\ OnceIn(Due(marked))
      BY <1>1, <2>2, KnownStays
  <2>4. AnswersOf(marked)
    BY <1>1, <2>2 DEF AnswersOf
  <2>5. CASE x = Fail(marked, FALSE)
    BY <1>7, <2>2, <2>3, <2>4, <2>5, FailKeeps, FailIs DEF Canceled
  <2>6. CASE x \in Flush(queued) /\ Len(x.writes) <= MaxQueued
    <3>1. /\ new \in SUBSET Nat /\ IsFiniteSet(new)
      <4>1. DOMAIN s.requests = 1..Len(s.requests) /\ Len(s.requests) \in Nat
        BY <1>1, ClientShape, LenProperties
      <4> DEFINE N == Len(s.requests)
      <4>2. N \in Nat /\ DOMAIN s.requests = 1..N
        BY <4>1
      <4> HIDE DEF new, N, marked
      <4>3. IsFiniteSet(1..N)
        BY ONLY <4>2, FS_Interval
      <4>4. 1..N \subseteq Nat
        BY ONLY <4>2
      <4>5. IsFiniteSet(DOMAIN s.requests) /\ DOMAIN s.requests \subseteq Nat
        BY <4>2, <4>3, <4>4
      <4> QED BY <1>3, <4>5, FS_Subset
    <3>2. /\ Cardinality(new) \in Nat
          /\ \A i \in 1..Cardinality(new) : Ordered(new)[i] \in new
          /\ \A n \in new : \E i \in 1..Cardinality(new) : Ordered(new)[i] = n
          /\ \A i, j \in 1..Cardinality(new) : i < j => Ordered(new)[i] < Ordered(new)[j]
      <4> HIDE DEF new
      <4> QED BY <3>1, OrderedIs
    <3> HIDE DEF new
    <3>3. /\ DOMAIN lines = 1..Cardinality(new)
          /\ \A i \in DOMAIN lines : lines[i] = Line("cancel", Ordered(new)[i])
      OBVIOUS
    <3>4. lines \in Seq(Lines)
      <4>1. \A i \in 1..Cardinality(new) : Line("cancel", Ordered(new)[i]) \in Lines
        BY <3>1, <3>2 DEF Line, Lines
      <4>2. lines \in [1..Cardinality(new) -> Lines]
        BY <4>1
      <4> HIDE DEF lines
      <4> QED BY <3>2, <4>2, SeqDef
    <3> HIDE DEF lines
    <3>5. OnceIn(lines)
      <4> SUFFICES ASSUME NEW i \in DOMAIN lines, NEW j \in DOMAIN lines, lines[i] = lines[j]
                   PROVE  i = j
        BY DEF OnceIn
      <4>1. Ordered(new)[i] = Ordered(new)[j]
        BY <3>3 DEF Line
      <4>2. i \in 1..Cardinality(new) /\ j \in 1..Cardinality(new)
        BY <3>3
      <4> DEFINE a == Ordered(new)[i]
                 b == Ordered(new)[j]
      <4>3. a \in Nat /\ a = b /\ (i < j => a < b) /\ (j < i => b < a)
        BY <3>1, <3>2, <4>1, <4>2
      <4> HIDE DEF a, b
      <4>4. ~(i < j) /\ ~(j < i)
        BY <4>3
      <4> QED BY <3>2, <4>2, <4>4
    <3>6. ASSUME NEW i \in DOMAIN lines
          PROVE  /\ ~Holds(Due(s), lines[i]) /\ lines[i].n \in DOMAIN marked.requests
                 /\ marked.requests[lines[i].n].promise # "refused"
                 /\ marked.requests[lines[i].n].canceled
                 /\ Holds(Due(s), Line("request", lines[i].n))
      <4> DEFINE n == Ordered(new)[i]
      <4>1. n \in new /\ lines[i] = Line("cancel", n) /\ lines[i].n = n /\ lines[i].kind = "cancel"
        BY <3>2, <3>3 DEF Line
      <4> HIDE DEF n
      <4>2. n \in targets /\ n \in DOMAIN s.requests /\ ~s.requests[n].canceled
        BY <4>1 DEF new
      <4>3. /\ s.requests[n].id \in Correlations /\ s.pending[s.requests[n].id] = n /\ n # None
        BY <1>7, <3>1, <4>1, <4>2, <1>1, ClientShape, LenProperties DEF None
      <4>4. ~Holds(Due(s), Line("cancel", n))
        BY <1>1, <4>1, <4>2 DEF Holds, KnownIn, Line
      <4>5. s.requests[n].promise # "refused" /\ Holds(Due(s), Line("request", n))
        BY <1>1, <1>7, <4>3 DEF LookupsOf, HeardOf
      <4> QED BY <2>2, <4>1, <4>2, <4>4, <4>5
    <3>7. /\ OnceIn(Due(s) \o lines) /\ KnownIn(Due(s) \o lines, marked.requests)
          /\ \A line : Holds(Due(s) \o lines, line) <=> Holds(Due(s), line) \/ Holds(lines, line)
      <4>1. Due(s) \in Seq(Lines)
        BY <1>1, DueIs
      <4>2. OnceIn(Due(s)) /\ KnownIn(Due(s), marked.requests)
        BY <2>2, <2>3
      <4> DEFINE q == Due(s)
                 made == marked.requests
      <4>3. \A i \in DOMAIN lines :
              /\ ~Holds(q, lines[i]) /\ lines[i].n \in DOMAIN made
              /\ made[lines[i].n].promise # "refused"
              /\ lines[i].kind = "cancel" =>
                   made[lines[i].n].canceled /\ Holds(q, Line("request", lines[i].n))
        BY <3>6
      <4>4. q \in Seq(Lines) /\ OnceIn(q) /\ KnownIn(q, made)
        BY <4>1, <4>2
      <4> HIDE DEF q, made
      <4>5. /\ OnceIn(q \o lines) /\ KnownIn(q \o lines, made)
            /\ \A line : Holds(q \o lines, line) <=> Holds(q, line) \/ Holds(lines, line)
        BY ONLY <3>4, <3>5, <4>3, <4>4, ExtendFine
      <4> QED BY <4>5 DEF q, made
    <3>8. /\ queued \in ClientSet /\ Due(queued) = Due(s) \o lines
          /\ queued.requests = marked.requests /\ queued.pending = s.pending
          /\ queued.cancels = s.cancels \cup new /\ queued.flow = s.flow
          /\ queued.child = s.child
      <4>1. marked \in ClientSet
        BY <2>2
      <4>2. /\ queued \in ClientSet /\ Due(queued) = Due(marked) \o lines
            /\ queued.requests = marked.requests /\ queued.pending = marked.pending
            /\ queued.cancels = marked.cancels /\ queued.flow = marked.flow
            /\ queued.child = marked.child
        BY ONLY <3>4, <4>1, QueuedIs, ZenonT(60) DEF queued
      <4> HIDE DEF queued
      <4> QED BY <2>2, <4>2
    <3> HIDE DEF queued
    <3>9. AnswersOf(queued)
      BY <2>2, <2>4, <3>8 DEF AnswersOf
    <3>10. LookupsOf(queued)
      BY <1>1, <2>2, <3>8 DEF LookupsOf
    <3>11. \A n \in new : Holds(lines, Line("cancel", n))
      BY <3>2, <3>3 DEF Holds
    <3>12. HeardOf(queued)
      <4>1. ASSUME NEW c \in Correlations, queued.pending[c] # None
            PROVE  /\ Holds(Due(queued), Line("request", queued.pending[c]))
                   /\ queued.requests[queued.pending[c]].promise = "aborted"
                        => queued.requests[queued.pending[c]].canceled
                   /\ queued.requests[queued.pending[c]].canceled
                        => Holds(Due(queued), Line("cancel", queued.pending[c]))
        <5> DEFINE n == s.pending[c]
        <5>1. n # None /\ queued.pending[c] = n /\ n \in DOMAIN s.requests
          BY <1>1, <3>8, <4>1 DEF LookupsOf
        <5>2. /\ Holds(Due(s), Line("request", n))
              /\ s.requests[n].promise = "aborted" => s.requests[n].canceled
              /\ s.requests[n].canceled => Holds(Due(s), Line("cancel", n))
          BY <1>1, <1>7, <5>1 DEF HeardOf
        <5> HIDE DEF n
        <5> QED BY <2>2, <3>7, <3>8, <3>11, <5>1, <5>2
      <4>2. \A n \in queued.cancels : Holds(Due(queued), Line("cancel", n))
        BY <1>1, <1>7, <3>7, <3>8, <3>11 DEF HeardOf
      <4> QED BY <4>1, <4>2 DEF HeardOf
    <3>13. Sound(queued)
      BY <3>7, <3>8, <3>9, <3>10, <3>12 DEF Sound
    <3>14. FewOf(queued) /\ ~queued.flow.closed
      BY <1>7, <3>8 DEF FewOf
    <3>15. Moved(queued, x)
      BY <2>6, <3>13, <3>14, FlushKeeps
    <3>16. CASE Over(x) /\ DOMAIN x.requests = DOMAIN queued.requests
      BY <2>2, <3>8, <3>16 DEF Canceled
    <3>17. CASE /\ ~x.flow.closed /\ Sound(x)
                /\ ~x.flow.blocked => x.writes = <<>>
                /\ x.requests = queued.requests /\ x.pending = queued.pending
                /\ x.flow.eof = queued.flow.eof
      BY <2>6, <3>17, <1>4, <2>2, <3>8 DEF FlowsOf, Canceled
    <3> QED BY <3>15, <3>16, <3>17 DEF Moved
  <2> QED BY <2>1, <2>5, <2>6
<1> QED BY <1>5, <1>6, <1>7

------------------------------------------------------------------------------
\* What holds of a client between two of its steps.
Good(s) == Sound(s) /\ FlowsOf(s) /\ EndsOf(s) /\ FewOf(s)

\* It is what a step makes it (Becomes).
LEMMA BecomesIs ==
  ASSUME NEW x \in ClientSet, Becomes(x), Good(x)
  PROVE  MachineInv'
<1>1. Client' = x
  BY ClientShape DEF Becomes, Client
<1> QED BY <1>1 DEF Good, MachineInv

\* What is only told to the child's process leaves a client good.
LEMMA GoodStays ==
  ASSUME NEW s, NEW t, Good(s), t \in ClientSet, t.requests = s.requests,
         t.pending = s.pending, t.cancels = s.cancels, t.writes = s.writes,
         t.written = s.written, t.flow = s.flow, t.child.stdin = s.child.stdin
  PROVE  Good(t)
<1>1. Sound(t)
  BY SoundStays DEF Good, Due
<1>2. FlowsOf(t) /\ EndsOf(t) /\ FewOf(t)
  BY DEF Good, FlowsOf, EndsOf, FewOf
<1> QED BY <1>1, <1>2 DEF Good

\* A client that fails, or has failed before, is good (fail).
LEMMA GoodFails ==
  ASSUME NEW s, Good(s), NEW graceful \in BOOLEAN
  PROVE  Good(Fail(s, graceful))
<1>1. CASE s.flow.closed
  BY <1>1 DEF Fail
<1>2. CASE ~s.flow.closed
  BY <1>2, FailKeeps DEF Good, Sound, Over
<1> QED BY <1>1, <1>2

\* What moves lines, few enough of them, leaves a client good.
LEMMA GoodMoves ==
  ASSUME NEW s, NEW f, EndsOf(s), FewOf(s), ~s.flow.closed, Moved(s, f),
         Len(f.writes) <= MaxQueued
  PROVE  Good(f)
<1>1. CASE Over(f)
  BY <1>1 DEF Over, Good
<1>2. CASE ~Over(f)
  BY <1>2 DEF Moved, EndsOf, FewOf, FlowsOf, Good
<1> QED BY <1>1, <1>2

\* A request that is refused is only counted (request, line 159).
LEMMA GoodRefuses ==
  ASSUME NEW s, NEW t, Good(s), NEW c \in Correlations,
         t.requests = Append(s.requests, Asked(c, "refused")),
         t \in ClientSet, t.pending = s.pending, t.cancels = s.cancels, t.writes = s.writes,
         t.written = s.written, t.flow = s.flow, t.child = s.child
  PROVE  Good(t)
<1> DEFINE n == Len(s.requests) + 1
<1>1. /\ s \in ClientSet /\ OnceIn(Due(s)) /\ KnownIn(Due(s), s.requests)
      /\ AnswersOf(s) /\ LookupsOf(s) /\ HeardOf(s)
      /\ FlowsOf(s) /\ EndsOf(s) /\ FewOf(s)
  BY DEF Good, Sound
<1>2. s.requests \in Seq(Made) /\ Len(s.requests) \in Nat /\ DOMAIN s.requests = 1..Len(s.requests)
  BY <1>1, ClientShape, LenProperties
<1>3. /\ DOMAIN t.requests = DOMAIN s.requests \cup {n} /\ n \notin DOMAIN s.requests
      /\ \A k \in DOMAIN s.requests : t.requests[k] = s.requests[k]
      /\ t.requests[n] = Asked(c, "refused")
  BY <1>2
<1> HIDE DEF n
<1>4. Due(t) = Due(s)
  BY DEF Due
<1>5. KnownIn(Due(t), t.requests)
  <2>1. DOMAIN s.requests \subseteq DOMAIN t.requests
    BY <1>3
  <2>2. KnownIn(Due(t), s.requests)
    BY <1>1, <1>4
  <2>3. \A k \in DOMAIN s.requests :
          /\ t.requests[k].promise = "refused" => s.requests[k].promise = "refused"
          /\ s.requests[k].canceled => t.requests[k].canceled
    BY <1>3
  <2> QED BY ONLY <2>1, <2>2, <2>3, KnownStays
<1>6. AnswersOf(t)
  BY <1>1, <1>3 DEF AnswersOf, Asked
<1>7. LookupsOf(t)
  BY <1>1, <1>3 DEF LookupsOf
<1>8. HeardOf(t)
  BY <1>1, <1>3, <1>4 DEF HeardOf, LookupsOf
<1>9. FlowsOf(t) /\ FewOf(t)
  BY <1>1 DEF FlowsOf, FewOf
<1>10. EndsOf(t)
  BY <1>1, <1>3 DEF EndsOf, LookupsOf
<1> QED BY <1>1, <1>4, <1>5, <1>6, <1>7, <1>8, <1>9, <1>10 DEF Good, Sound

\* A client with a request more, looked up by its correlation and its line queued.
Asking(s, c) ==
  [s EXCEPT !.requests = Append(s.requests, Asked(c, "waiting")),
            !.pending[c] = Len(s.requests) + 1]

\* Field by field.
LEMMA AskingIs ==
  ASSUME NEW s \in ClientSet, NEW c \in Correlations
  PROVE  LET t == Asking(s, c) IN
         /\ t \in ClientSet
         /\ t.requests = Append(s.requests, Asked(c, "waiting"))
         /\ t.pending = [s.pending EXCEPT ![c] = Len(s.requests) + 1]
         /\ t.writes = s.writes /\ t.cancels = s.cancels /\ t.flow = s.flow
         /\ t.child = s.child /\ t.written = s.written /\ Due(t) = Due(s)
<1> DEFINE made == Append(s.requests, Asked(c, "waiting"))
           looked == [s.pending EXCEPT ![c] = Len(s.requests) + 1]
           u == [s EXCEPT !.requests = made]
           x == [u EXCEPT !.pending = looked]
<1>1. made \in Seq(Made)
  <2>1. Asked(c, "waiting") \in Made
    BY DEF Asked, Made, Promises, None
  <2>2. s.requests \in Seq(Made)
    BY ClientShape
  <2> QED BY <2>1, <2>2, AppendProperties
<1>2. looked \in [Correlations -> Nat]
  BY ClientShape, LenProperties
<1>3. Asking(s, c) = x
  BY ClientShape DEF Asking
<1> HIDE DEF made, looked
<1>4. /\ u.pending = s.pending /\ u.writes = s.writes /\ u.flow = s.flow /\ u.child = s.child
      /\ u.written = s.written /\ u.requests = made /\ u.cancels = s.cancels
  BY ClientShape
<1>5. u \in ClientSet
  BY <1>1 DEF ClientSet
<1> HIDE DEF u
<1>6. /\ x.pending = looked /\ x.writes = s.writes /\ x.flow = s.flow /\ x.child = s.child
      /\ x.written = s.written /\ x.requests = made /\ x.cancels = s.cancels
  BY <1>4, <1>5, ClientShape
<1>7. x \in ClientSet
  BY <1>2, <1>5 DEF ClientSet
<1> HIDE DEF x
<1>8. Due(x) = Due(s)
  BY <1>6 DEF Due
<1> QED BY <1>3, <1>6, <1>7, <1>8 DEF made, looked

\* A new request leaves the client good, whether its line is written, is queued, or
\* breaks the pipe (request, enqueueWrite).
LEMMA AskKeeps ==
  ASSUME NEW s, Good(s), NEW c \in Correlations, ~s.flow.closed, ~s.flow.eof,
         s.pending[c] = None,
         Cardinality({s.pending[d] : d \in Correlations} \ {None}) < MaxActive,
         NEW x \in Enqueue(Asking(s, c), <<Line("request", Len(s.requests) + 1)>>)
  PROVE  Good(x)
<1> DEFINE n == Len(s.requests) + 1
           asked == Asking(s, c)
           lines == <<Line("request", n)>>
           queued == [asked EXCEPT !.writes = asked.writes \o lines]
<1>1. /\ s \in ClientSet /\ OnceIn(Due(s)) /\ KnownIn(Due(s), s.requests)
      /\ AnswersOf(s) /\ LookupsOf(s) /\ HeardOf(s)
      /\ FlowsOf(s) /\ EndsOf(s) /\ FewOf(s)
  BY DEF Good, Sound
<1>2. s.requests \in Seq(Made) /\ Len(s.requests) \in Nat /\ DOMAIN s.requests = 1..Len(s.requests)
      /\ s.pending \in [Correlations -> Nat]
  BY <1>1, ClientShape, LenProperties
<1>3. x \in Flush(queued) /\ Len(x.writes) <= MaxQueued
  BY DEF Enqueue
<1>4. /\ asked \in ClientSet
      /\ asked.requests = Append(s.requests, Asked(c, "waiting"))
      /\ asked.pending = [s.pending EXCEPT ![c] = n]
      /\ asked.cancels = s.cancels /\ asked.flow = s.flow
      /\ Due(asked) = Due(s)
  BY <1>1, AskingIs
<1>5. lines \in Seq(Lines) /\ DOMAIN lines = {1} /\ lines[1] = Line("request", n)
  BY <1>2 DEF Line, Lines
<1> HIDE DEF asked, lines
<1>6. /\ queued \in ClientSet /\ Due(queued) = Due(asked) \o lines
      /\ queued.requests = asked.requests /\ queued.pending = asked.pending
      /\ queued.cancels = asked.cancels /\ queued.flow = asked.flow
      /\ queued.child = asked.child
  BY ONLY <1>4, <1>5, QueuedIs DEF queued
<1> HIDE DEF queued
<1>7. /\ DOMAIN queued.requests = DOMAIN s.requests \cup {n} /\ n \notin DOMAIN s.requests
      /\ \A k \in DOMAIN s.requests : queued.requests[k] = s.requests[k]
      /\ queued.requests[n] = Asked(c, "waiting")
      /\ n # None /\ n \in Nat
  BY <1>2, <1>4, <1>6 DEF None
<1>8. /\ queued.pending[c] = n
      /\ \A d \in Correlations \ {c} : queued.pending[d] = s.pending[d]
  BY <1>2, <1>4, <1>6
<1> HIDE DEF n
<1>9. /\ OnceIn(Due(queued)) /\ KnownIn(Due(queued), queued.requests)
      /\ \A line : Holds(Due(queued), line) <=> Holds(Due(s), line) \/ Holds(lines, line)
  <2> DEFINE q == Due(s)
             made == queued.requests
  <2>1. q \in Seq(Lines) /\ OnceIn(q)
    BY <1>1, DueIs
  <2>2. KnownIn(q, made)
    <3>1. DOMAIN s.requests \subseteq DOMAIN made
      BY <1>7
    <3>2. \A k \in DOMAIN s.requests :
            /\ made[k].promise = "refused" => s.requests[k].promise = "refused"
            /\ s.requests[k].canceled => made[k].canceled
      BY <1>7
    <3> QED BY ONLY <1>1, <3>1, <3>2, KnownStays
  <2>3. ~Holds(q, Line("request", n))
    BY <1>1, <1>7 DEF Holds, KnownIn, Line
  <2>4. \A i \in DOMAIN lines :
          /\ ~Holds(q, lines[i]) /\ lines[i].n \in DOMAIN made
          /\ made[lines[i].n].promise # "refused"
          /\ lines[i].kind = "cancel" =>
               made[lines[i].n].canceled /\ Holds(q, Line("request", lines[i].n))
    BY <1>5, <1>7, <2>3 DEF Line, Asked
  <2>5. OnceIn(lines)
    BY <1>5 DEF OnceIn
  <2> HIDE DEF q, made
  <2>6. /\ OnceIn(q \o lines) /\ KnownIn(q \o lines, made)
        /\ \A line : Holds(q \o lines, line) <=> Holds(q, line) \/ Holds(lines, line)
    BY ONLY <1>5, <2>1, <2>2, <2>4, <2>5, ExtendFine
  <2>7. Due(queued) = q \o lines
    BY <1>4, <1>6 DEF q
  <2> QED BY <2>6, <2>7 DEF q, made
<1>10. AnswersOf(queued)
  <2> SUFFICES ASSUME NEW k \in DOMAIN queued.requests
               PROVE  /\ queued.requests[k].answer \in {None, k}
                      /\ queued.requests[k].promise = "answered" => queued.requests[k].answer = k
                      /\ queued.requests[k].promise = "waiting" =>
                           ~queued.flow.closed /\ queued.requests[k].answer = None
                      /\ queued.requests[k].promise = "failed" => queued.flow.closed
                      /\ queued.requests[k].promise \in {"waiting", "aborted"}
                         /\ queued.requests[k].answer = None
                         /\ ~queued.flow.closed => queued.pending[queued.requests[k].id] = k
    BY DEF AnswersOf
  <2>1. CASE k = n
    BY <1>4, <1>6, <1>7, <1>8, <2>1 DEF Asked
  <2>2. CASE k \in DOMAIN s.requests
    <3>1. /\ s.requests[k].answer \in {None, k}
          /\ s.requests[k].promise = "answered" => s.requests[k].answer = k
          /\ s.requests[k].promise = "waiting" => s.requests[k].answer = None
          /\ s.requests[k].promise # "failed"
          /\ s.requests[k].promise \in {"waiting", "aborted"} /\ s.requests[k].answer = None
             => s.pending[s.requests[k].id] = k
      BY <1>1, <2>2 DEF AnswersOf
    <3>2. k # None /\ s.requests[k].id \in Correlations
      <4>1. s.requests[k] \in Made /\ k # 0
        BY <1>2, <2>2
      <4> QED BY <4>1 DEF None, Made
    <3> QED BY <1>4, <1>6, <1>7, <1>8, <2>2, <3>1, <3>2
  <2> QED BY <1>7, <2>1, <2>2
<1>11. LookupsOf(queued)
  BY <1>1, <1>4, <1>6, <1>7, <1>8 DEF LookupsOf, Asked
<1>12. HeardOf(queued)
  <2>1. Holds(lines, Line("request", n))
    BY <1>5 DEF Holds
  <2>2. ASSUME NEW d \in Correlations, queued.pending[d] # None
        PROVE  /\ Holds(Due(queued), Line("request", queued.pending[d]))
               /\ queued.requests[queued.pending[d]].promise = "aborted"
                    => queued.requests[queued.pending[d]].canceled
               /\ queued.requests[queued.pending[d]].canceled
                    => Holds(Due(queued), Line("cancel", queued.pending[d]))
    <3>1. CASE d = c
      BY <1>7, <1>8, <1>9, <2>1, <3>1 DEF Asked
    <3>2. CASE d # c
      BY <1>1, <1>7, <1>8, <1>9, <2>2, <3>2 DEF LookupsOf, HeardOf
    <3> QED BY <3>1, <3>2
  <2>3. \A k \in queued.cancels : Holds(Due(queued), Line("cancel", k))
    BY <1>1, <1>4, <1>6, <1>9 DEF HeardOf
  <2> QED BY <2>2, <2>3 DEF HeardOf
<1>13. Sound(queued)
  BY <1>6, <1>9, <1>10, <1>11, <1>12 DEF Sound
<1>14. FewOf(queued)
  <2> DEFINE old == {s.pending[d] : d \in Correlations} \ {None}
             then == {queued.pending[d] : d \in Correlations} \ {None}
  <2>1. IsFiniteSet(old) /\ Cardinality(old) \in Nat /\ Cardinality(old) < MaxActive
    <3>1. old \subseteq 1..Len(s.requests)
      BY <1>1, <1>2 DEF LookupsOf
    <3>2. IsFiniteSet(1..Len(s.requests))
      BY <1>2, FS_Interval
    <3> HIDE DEF old
    <3>3. IsFiniteSet(old) /\ Cardinality(old) \in Nat
      BY <3>1, <3>2, FS_Subset, FS_CardinalityType
    <3> QED BY <3>3 DEF old
  <2>2. then \subseteq old \cup {n}
    BY <1>8
  <2> HIDE DEF old, then
  <2>3. IsFiniteSet(old \cup {n}) /\ Cardinality(old \cup {n}) \in Nat
        /\ Cardinality(old \cup {n}) <= Cardinality(old) + 1
    <3>1. IsFiniteSet(old \cup {n})
          /\ Cardinality(old \cup {n}) =
               IF n \in old THEN Cardinality(old) ELSE Cardinality(old) + 1
      BY ONLY <2>1, FS_AddElement
    <3> DEFINE a == Cardinality(old)
               b == Cardinality(old \cup {n})
    <3>2. a \in Nat /\ (b = a \/ b = a + 1)
      BY <2>1, <3>1
    <3> HIDE DEF a, b
    <3>3. b \in Nat /\ b <= a + 1
      BY <3>2
    <3> QED BY <3>1, <3>3 DEF a, b
  <2>4. Cardinality(then) <= Cardinality(old \cup {n}) /\ Cardinality(then) \in Nat
    BY <2>2, <2>3, FS_Subset, FS_CardinalityType
  <2>5. Cardinality(then) <= MaxActive
    BY <2>1, <2>3, <2>4, MachineAssumption
  <2> QED BY <2>5 DEF then, FewOf
<1>15. Moved(queued, x)
  BY <1>3, <1>4, <1>6, <1>13, <1>14, FlushKeeps
<1>16. EndsOf(queued) /\ ~queued.flow.closed
  BY <1>4, <1>6 DEF EndsOf
<1> QED BY <1>3, <1>14, <1>15, <1>16, GoodMoves

\* A client with other requests, field by field.
LEMMA RequestsSet ==
  ASSUME NEW s \in ClientSet, NEW made \in Seq(Made)
  PROVE  LET t == [s EXCEPT !.requests = made] IN
         /\ t \in ClientSet /\ t.requests = made
         /\ t.pending = s.pending /\ t.writes = s.writes /\ t.cancels = s.cancels
         /\ t.flow = s.flow /\ t.child = s.child /\ t.written = s.written /\ Due(t) = Due(s)
<1> DEFINE t == [s EXCEPT !.requests = made]
<1>1. /\ t.requests = made
      /\ t.pending = s.pending /\ t.writes = s.writes /\ t.cancels = s.cancels
      /\ t.flow = s.flow /\ t.child = s.child /\ t.written = s.written
  BY ClientShape
<1>2. t \in ClientSet
  BY DEF ClientSet
<1> HIDE DEF t
<1>3. Due(t) = Due(s)
  BY <1>1 DEF Due
<1> QED BY <1>1, <1>2, <1>3 DEF t

\* The same for other lookups.
LEMMA LookupsSet ==
  ASSUME NEW s \in ClientSet, NEW looked \in [Correlations -> Nat]
  PROVE  LET t == [s EXCEPT !.pending = looked] IN
         /\ t \in ClientSet /\ t.pending = looked
         /\ t.requests = s.requests /\ t.writes = s.writes /\ t.cancels = s.cancels
         /\ t.flow = s.flow /\ t.child = s.child /\ t.written = s.written /\ Due(t) = Due(s)
<1> DEFINE t == [s EXCEPT !.pending = looked]
<1>1. /\ t.pending = looked
      /\ t.requests = s.requests /\ t.writes = s.writes /\ t.cancels = s.cancels
      /\ t.flow = s.flow /\ t.child = s.child /\ t.written = s.written
  BY ClientShape
<1>2. t \in ClientSet
  BY DEF ClientSet
<1> HIDE DEF t
<1>3. Due(t) = Due(s)
  BY <1>1 DEF Due
<1> QED BY <1>1, <1>2, <1>3 DEF t

\* The machine answers what it was sent: the request is the one its correlation looks up
\* (consumeLine).
LEMMA OwnAnswer ==
  ASSUME NEW s, Good(s), ~s.flow.closed, NEW n, Holds(s.written, Line("request", n)),
         n \in DOMAIN s.requests, s.requests[n].answer # n
  PROVE  /\ s.pending[s.requests[n].id] = n /\ s.requests[n].answer = None
         /\ s.requests[n].promise \in {"waiting", "aborted"}
         /\ s.requests[n].id \in Correlations /\ n # None
<1>1. /\ s \in ClientSet /\ KnownIn(Due(s), s.requests) /\ AnswersOf(s)
  BY DEF Good, Sound
<1>2. n # 0 /\ s.requests[n] \in Made
  BY <1>1, ClientShape, LenProperties
<1>3. s.requests[n].promise \in Promises /\ s.requests[n].id \in Correlations
  BY <1>2 DEF Made
<1>4. s.requests[n].promise # "refused"
  <2>1. PICK i \in DOMAIN s.written : s.written[i] = Line("request", n)
    BY DEF Holds
  <2>2. i \in DOMAIN Due(s) /\ Due(s)[i] = Line("request", n)
    BY <1>1, <2>1, DueIs
  <2> QED BY <1>1, <2>2 DEF KnownIn, Line
<1>5. /\ s.requests[n].promise # "answered" /\ s.requests[n].promise # "failed"
      /\ s.requests[n].answer = None
  BY <1>1 DEF AnswersOf
<1> QED BY <1>1, <1>2, <1>3, <1>4, <1>5 DEF AnswersOf, Promises, None

\* Its answer leaves the client good.
LEMMA ResolveKeeps ==
  ASSUME NEW s, Good(s), ~s.flow.closed, NEW n, Holds(s.written, Line("request", n)),
         n \in DOMAIN s.requests, \A m \in DOMAIN s.requests : s.requests[m].answer # n,
         NEW t, t \in ClientSet,
         t.pending = [s.pending EXCEPT ![s.requests[n].id] = None],
         DOMAIN t.requests = DOMAIN s.requests,
         \A m \in DOMAIN s.requests \ {n} : t.requests[m] = s.requests[m],
         t.requests[n].id = s.requests[n].id, t.requests[n].answer = n,
         t.requests[n].canceled = s.requests[n].canceled,
         t.requests[n].promise = IF s.requests[n].promise = "waiting" THEN "answered"
                                 ELSE s.requests[n].promise,
         t.writes = s.writes, t.cancels = s.cancels, t.flow = s.flow, t.child = s.child,
         t.written = s.written
  PROVE  Good(t)
<1> DEFINE c == s.requests[n].id
<1>1. /\ s \in ClientSet /\ OnceIn(Due(s)) /\ KnownIn(Due(s), s.requests)
      /\ AnswersOf(s) /\ LookupsOf(s) /\ HeardOf(s)
      /\ FlowsOf(s) /\ EndsOf(s) /\ FewOf(s)
  BY DEF Good, Sound
<1>2. /\ s.requests \in Seq(Made) /\ Len(s.requests) \in Nat
      /\ DOMAIN s.requests = 1..Len(s.requests)
      /\ s.pending \in [Correlations -> Nat] /\ n # 0
      /\ \A m \in DOMAIN s.requests : s.requests[m] \in Made
  BY <1>1, ClientShape, LenProperties
<1>3. c \in Correlations /\ \A m \in DOMAIN s.requests : s.requests[m].promise \in Promises
  BY <1>2 DEF Made
<1>5. s.pending[c] = n /\ s.requests[n].answer = None
      /\ s.requests[n].promise \in {"waiting", "aborted"}
  BY OwnAnswer
<1> HIDE DEF c
<1>6. /\ t.pending[c] = None
      /\ \A d \in Correlations \ {c} : t.pending[d] = s.pending[d] /\ s.pending[d] # n
  BY <1>1, <1>2, <1>3 DEF LookupsOf, c, None
<1>7. Due(t) = Due(s)
  BY DEF Due
<1>8. KnownIn(Due(t), t.requests)
  <2>1. DOMAIN s.requests \subseteq DOMAIN t.requests
    OBVIOUS
  <2>2. \A k \in DOMAIN s.requests :
          /\ t.requests[k].promise = "refused" => s.requests[k].promise = "refused"
          /\ s.requests[k].canceled => t.requests[k].canceled
    BY <1>5
  <2>3. KnownIn(Due(t), s.requests)
    BY <1>1, <1>7
  <2> QED BY ONLY <2>1, <2>2, <2>3, KnownStays
<1>9. AnswersOf(t)
  <2> SUFFICES ASSUME NEW k \in DOMAIN t.requests
               PROVE  /\ t.requests[k].answer \in {None, k}
                      /\ t.requests[k].promise = "answered" => t.requests[k].answer = k
                      /\ t.requests[k].promise = "waiting" =>
                           ~t.flow.closed /\ t.requests[k].answer = None
                      /\ t.requests[k].promise = "failed" => t.flow.closed
                      /\ t.requests[k].promise \in {"waiting", "aborted"}
                         /\ t.requests[k].answer = None
                         /\ ~t.flow.closed => t.pending[t.requests[k].id] = k
    BY DEF AnswersOf
  <2>1. CASE k = n
    BY <1>2, <1>5, <2>1 DEF None
  <2>2. CASE k # n
    <3>1. t.requests[k] = s.requests[k] /\ k \in DOMAIN s.requests
          /\ s.requests[k].id \in Correlations
      BY <1>2, <2>2 DEF Made
    <3>2. /\ s.requests[k].answer \in {None, k}
          /\ s.requests[k].promise = "answered" => s.requests[k].answer = k
          /\ s.requests[k].promise = "waiting" => ~s.flow.closed /\ s.requests[k].answer = None
          /\ s.requests[k].promise = "failed" => s.flow.closed
          /\ s.requests[k].promise \in {"waiting", "aborted"} /\ s.requests[k].answer = None
             /\ ~s.flow.closed => s.pending[s.requests[k].id] = k
      BY <1>1, <3>1 DEF AnswersOf
    <3>3. s.pending[s.requests[k].id] = k => s.requests[k].id # c
      BY <1>5, <2>2 DEF c
    <3> QED BY <1>6, <3>1, <3>2, <3>3
  <2> QED BY <2>1, <2>2
<1>10. LookupsOf(t)
  <2> SUFFICES ASSUME NEW d \in Correlations, t.pending[d] # None
               PROVE  /\ ~t.flow.closed
                      /\ t.pending[d] \in DOMAIN t.requests
                      /\ t.requests[t.pending[d]].id = d
                      /\ t.requests[t.pending[d]].answer = None
                      /\ t.requests[t.pending[d]].promise \in {"waiting", "aborted"}
    BY ZenonT(60) DEF LookupsOf
  <2>1. d # c /\ t.pending[d] = s.pending[d] /\ s.pending[d] # n
    BY <1>6
  <2>2. /\ ~s.flow.closed /\ s.pending[d] \in DOMAIN s.requests
        /\ s.requests[s.pending[d]].id = d
        /\ s.requests[s.pending[d]].answer = None
        /\ s.requests[s.pending[d]].promise \in {"waiting", "aborted"}
    BY ONLY <1>1, <2>1, t.pending[d] # None DEF LookupsOf
  <2>3. t.requests[s.pending[d]] = s.requests[s.pending[d]]
    BY <2>1, <2>2
  <2> QED BY <2>1, <2>2, <2>3
<1>11. HeardOf(t)
  BY <1>1, <1>6, <1>7 DEF LookupsOf, HeardOf
<1>12. FlowsOf(t)
  BY <1>1 DEF FlowsOf
<1>13. EndsOf(t)
  BY <1>1, <1>6 DEF EndsOf, LookupsOf
<1>14. FewOf(t)
  <2> DEFINE old == {s.pending[d] : d \in Correlations} \ {None}
             then == {t.pending[d] : d \in Correlations} \ {None}
  <2>1. then \subseteq old
    BY <1>6
  <2>2. IsFiniteSet(old) /\ Cardinality(old) \in Nat
    <3>1. old \subseteq 1..Len(s.requests)
      BY <1>1, <1>2 DEF LookupsOf
    <3>2. IsFiniteSet(1..Len(s.requests))
      BY <1>2, FS_Interval
    <3> HIDE DEF old
    <3> QED BY <3>1, <3>2, FS_Subset, FS_CardinalityType
  <2>3. Cardinality(old) <= MaxActive
    BY <1>1 DEF FewOf
  <2> HIDE DEF old, then
  <2>4. Cardinality(then) <= Cardinality(old) /\ Cardinality(then) \in Nat
    BY <2>1, <2>2, FS_Subset, FS_CardinalityType
  <2>5. Cardinality(then) <= MaxActive
    BY <2>2, <2>3, <2>4, MachineAssumption
  <2> QED BY <2>5 DEF then, FewOf
<1> QED BY <1>1, <1>5, <1>7, <1>8, <1>9, <1>10, <1>11, <1>12, <1>13, <1>14 DEF Good, Sound, c

\* A request that was canceled may be told that it was aborted (abort).
LEMMA AbortKeeps ==
  ASSUME NEW s, Good(s), NEW n \in DOMAIN s.requests, s.requests[n].promise = "waiting",
         NEW x, Canceled(s, {n}, x)
  PROVE  Good([x EXCEPT !.requests[n].promise = "aborted"])
         /\ [x EXCEPT !.requests[n].promise = "aborted"] \in ClientSet
<1> DEFINE made == [x.requests EXCEPT ![n].promise = "aborted"]
           t == [x EXCEPT !.requests = made]
<1>1. x \in ClientSet /\ Sound(x) /\ FlowsOf(x) /\ n \in DOMAIN x.requests
  BY DEF Canceled, Over, Sound
<1>2. /\ x.requests \in Seq(Made) /\ Len(x.requests) \in Nat
      /\ DOMAIN x.requests = 1..Len(x.requests)
      /\ \A m \in DOMAIN x.requests : x.requests[m] \in Made
  BY <1>1, ClientShape, LenProperties
<1>3. /\ DOMAIN made = DOMAIN x.requests
      /\ \A m \in DOMAIN x.requests : /\ made[m] \in Made
                                      /\ made[m].id = x.requests[m].id
                                      /\ made[m].canceled = x.requests[m].canceled
                                      /\ made[m].answer = x.requests[m].answer
                                      /\ made[m].promise = IF m = n THEN "aborted"
                                                           ELSE x.requests[m].promise
  BY <1>1, <1>2 DEF Made, Promises
<1>4. made \in Seq(Made)
  <2>1. \A m \in 1..Len(x.requests) : made[m] \in Made
    BY <1>2, <1>3
  <2>2. DOMAIN made = 1..Len(x.requests) /\ made = [m \in DOMAIN made |-> made[m]]
    BY <1>2
  <2> HIDE DEF made
  <2>3. made \in [1..Len(x.requests) -> Made]
    BY <2>1, <2>2
  <2> QED BY <1>2, <2>3, SeqDef
<1>5. t = [x EXCEPT !.requests[n].promise = "aborted"]
  OBVIOUS
<1> HIDE DEF made
<1>6. /\ t \in ClientSet /\ t.requests = made
      /\ t.pending = x.pending /\ t.writes = x.writes /\ t.cancels = x.cancels
      /\ t.flow = x.flow /\ t.child = x.child /\ t.written = x.written /\ Due(t) = Due(x)
  BY ONLY <1>1, <1>4, RequestsSet
<1> HIDE DEF t
<1>7. OnceIn(Due(t)) /\ KnownIn(Due(t), t.requests)
  <2>1. OnceIn(Due(x)) /\ KnownIn(Due(x), x.requests)
    BY <1>1 DEF Sound
  <2>2. KnownIn(Due(x), t.requests)
    <3>1. DOMAIN x.requests \subseteq DOMAIN t.requests
      BY <1>3, <1>6
    <3>2. \A k \in DOMAIN x.requests :
            /\ t.requests[k].promise = "refused" => x.requests[k].promise = "refused"
            /\ x.requests[k].canceled => t.requests[k].canceled
      BY <1>3, <1>6
    <3> QED BY ONLY <2>1, <3>1, <3>2, KnownStays
  <2> QED BY <1>6, <2>1, <2>2
<1>8. AnswersOf(x) /\ LookupsOf(x) /\ HeardOf(x)
  BY <1>1 DEF Sound
<1>9. FlowsOf(t)
  BY <1>1, <1>6 DEF FlowsOf
<1>10. FewOf(x)
  <2>1. CASE Over(x)
    BY <2>1 DEF Over
  <2>2. CASE x.pending = s.pending
    BY <2>2 DEF Good, FewOf
  <2> QED BY <2>1, <2>2 DEF Canceled
<1>11. FewOf(t)
  BY <1>6, <1>10 DEF FewOf
<1>12. CASE t.flow.closed
  BY <1>3, <1>6, <1>8, <1>12, <1>5, <1>7, <1>9, <1>11 DEF AnswersOf, LookupsOf,
     HeardOf, EndsOf, Good, Sound
<1>13. CASE ~t.flow.closed
  <2>1. /\ x.requests[n].promise = "waiting" /\ x.requests[n].canceled
        /\ x.flow.eof = s.flow.eof /\ x.pending = s.pending
        /\ \A m \in DOMAIN s.requests : s.requests[m].canceled => x.requests[m].canceled
    BY <1>6, <1>13 DEF Canceled, Over
  <2>2. AnswersOf(t)
    BY <1>1, <1>3, <1>6, <1>8, <2>1 DEF AnswersOf
  <2>3. LookupsOf(t)
    BY <1>3, <1>6, <1>8 DEF LookupsOf
  <2>4. HeardOf(t)
    BY <1>3, <1>6, <1>8, <2>1 DEF HeardOf, LookupsOf
  <2>5. EndsOf(t)
    <3>1. EndsOf(s) /\ LookupsOf(s) /\ s.flow.closed = FALSE
      BY ClientShape DEF Good, Sound, AnswersOf
    <3> QED BY <1>3, <1>6, <1>8, <2>1, <3>1 DEF EndsOf, LookupsOf
  <2> QED BY <1>5, <1>6, <1>7, <1>9, <1>11, <2>2, <2>3, <2>4, <2>5 DEF Good, Sound
<1> QED BY <1>12, <1>13

------------------------------------------------------------------------------
\* The client as the invariant sees it.
LEMMA ClientGood ==
  ASSUME MachineInv
  PROVE  /\ Good(Client) /\ Client \in ClientSet
         /\ Client.requests = requests /\ Client.pending = pending /\ Client.writes = writes
         /\ Client.cancels = cancels /\ Client.flow = flow /\ Client.child = child
         /\ Client.written = written
         /\ requests \in Seq(Made) /\ Len(requests) \in Nat /\ DOMAIN requests = 1..Len(requests)
         /\ Active = {Client.pending[c] : c \in Correlations} \ {None}
<1>1. Good(Client) /\ Client \in ClientSet
  BY DEF MachineInv, Good, Sound
<1>2. /\ Client.requests = requests /\ Client.pending = pending /\ Client.writes = writes
      /\ Client.cancels = cancels /\ Client.flow = flow /\ Client.child = child
      /\ Client.written = written
  BY DEF Client
<1>3. requests \in Seq(Made)
  BY <1>1, <1>2, ClientShape
<1>4. Len(requests) \in Nat /\ DOMAIN requests = 1..Len(requests)
  BY <1>3, LenProperties
<1> QED BY <1>1, <1>2, <1>3, <1>4 DEF Active

\* A step that fails the client (Breaks, Odd, Deadline).
LEMMA FailsStep ==
  ASSUME MachineInv, NEW graceful \in BOOLEAN, Becomes(Fail(Client, graceful))
  PROVE  MachineInv'
<1>1. Good(Fail(Client, graceful))
  BY ClientGood, GoodFails
<1>2. Fail(Client, graceful) \in ClientSet
  BY <1>1 DEF Good, Sound
<1> QED BY <1>1, <1>2, BecomesIs

\* A step that only the child's process sees (Dies, ForceKill).
LEMMA ChildStep ==
  ASSUME MachineInv, child' \in [alive : BOOLEAN, exitSeen : BOOLEAN,
                                 stdin : {"open", "ended", "destroyed"}],
         child'.stdin = child.stdin,
         UNCHANGED <<requests, pending, writes, cancels, flow, written>>
  PROVE  MachineInv'
<1> DEFINE t == [requests |-> requests, pending |-> pending, writes |-> writes,
                 cancels |-> cancels, flow |-> flow, child |-> child', written |-> written]
<1>1. t \in ClientSet
  BY ClientGood DEF ClientSet
<1>2. /\ t.requests = requests /\ t.pending = pending /\ t.writes = writes
      /\ t.cancels = cancels /\ t.flow = flow /\ t.child = child' /\ t.written = written
  OBVIOUS
<1> HIDE DEF t
<1>3. Good(t)
  BY <1>1, <1>2, ClientGood, GoodStays
<1>4. Becomes(t)
  BY <1>2 DEF Becomes
<1> QED BY <1>1, <1>3, <1>4, BecomesIs

\* A request that is refused before anything is sent.
LEMMA RefusedStep ==
  ASSUME MachineInv, NEW c \in Correlations, NEW t,
         t = [Client EXCEPT !.requests = Append(requests, Asked(c, "refused"))], Becomes(t)
  PROVE  MachineInv'
<1>1. Append(requests, Asked(c, "refused")) \in Seq(Made)
  BY ClientGood, AppendProperties DEF Asked, Made, Promises, None
<1> DEFINE made == Append(requests, Asked(c, "refused"))
<1>2. t = [Client EXCEPT !.requests = made] /\ made \in Seq(Made) /\ Client \in ClientSet
  BY <1>1, ClientGood
<1> HIDE DEF made
<1>3. /\ t \in ClientSet /\ t.requests = made
      /\ t.pending = Client.pending /\ t.writes = Client.writes /\ t.cancels = Client.cancels
      /\ t.flow = Client.flow /\ t.child = Client.child /\ t.written = Client.written
  BY ONLY <1>2, RequestsSet
<1>4. t.requests = Append(Client.requests, Asked(c, "refused"))
  BY <1>3, ClientGood DEF made
<1>5. Good(t)
  BY <1>3, <1>4, ClientGood, GoodRefuses
<1> QED BY <1>3, <1>5, BecomesIs

\* The same as the caller's step.
LEMMA RequestRefusedStep ==
  ASSUME MachineInv, NEW c \in Correlations, NEW flawed \in BOOLEAN, RequestRefused(c, flawed)
  PROVE  MachineInv'
<1> DEFINE t == [Client EXCEPT !.requests = Append(requests, Asked(c, "refused"))]
<1>1. Becomes(t)
  BY DEF RequestRefused, Becomes, Client
<1>2. \E x : x = t
  OBVIOUS
<1> QED BY <1>1, <1>2, RefusedStep

\* request
LEMMA RequestStep ==
  ASSUME MachineInv, NEW c \in Correlations, Request(c)
  PROVE  MachineInv'
<1> DEFINE n == Len(requests) + 1
           asked == [Client EXCEPT
             !.requests = Append(requests, Asked(c, "waiting")), !.pending[c] = n]
           lines == <<Line("request", n)>>
           refused == [Client EXCEPT !.requests = Append(requests, Asked(c, "refused"))]
<1>1. PICK s \in Enqueue(asked, lines)
                  \cup (IF Overflows(asked, lines) THEN {refused} ELSE {}) : Becomes(s)
  BY DEF Request
<1>2. /\ ~flow.closed /\ ~flow.eof /\ pending[c] = None /\ Cardinality(Active) < MaxActive
  BY DEF Request
<1>3. asked = Asking(Client, c) /\ lines = <<Line("request", Len(Client.requests) + 1)>>
  BY ClientGood DEF Asking
<1>4. s \in Enqueue(asked, lines) \/ s = refused
  <2> HIDE DEF asked, lines, refused
  <2> QED BY <1>1
<1>5. CASE s \in Enqueue(asked, lines)
  <2> HIDE DEF asked, lines
  <2> DEFINE x == Client
  <2>1. /\ Good(x) /\ ~x.flow.closed /\ ~x.flow.eof /\ x.pending[c] = None
        /\ Cardinality({x.pending[d] : d \in Correlations} \ {None}) < MaxActive
    BY <1>2, ClientGood
  <2>2. s \in Enqueue(Asking(x, c), <<Line("request", Len(x.requests) + 1)>>)
    BY <1>3, <1>5
  <2> HIDE DEF x
  <2>3. Good(s)
    BY ONLY c \in Correlations, <2>1, <2>2, AskKeeps
  <2>4. s \in ClientSet
    BY <2>3 DEF Good, Sound
  <2> QED BY <1>1, <2>3, <2>4, BecomesIs
<1>6. CASE s = refused
  BY <1>1, <1>6, RefusedStep
<1> QED BY <1>4, <1>5, <1>6

\* abort
LEMMA AbortStep ==
  ASSUME MachineInv, NEW n, AbortRequest(n)
  PROVE  MachineInv'
<1>1. n \in DOMAIN requests /\ requests[n].promise = "waiting"
  BY DEF AbortRequest, Numbers
<1>2. PICK x \in Cancel(Client, {n}) : Becomes([x EXCEPT !.requests[n].promise = "aborted"])
  BY DEF AbortRequest, Aborted
<1> DEFINE s == Client
<1>3. /\ Good(s) /\ n \in DOMAIN s.requests /\ s.requests[n].promise = "waiting"
  BY <1>1, ClientGood
<1>4. x \in Cancel(s, {n})
  BY <1>2
<1>5. s \in ClientSet
  BY ClientGood
<1> HIDE DEF s
<1>6. /\ Sound(s) /\ FewOf(s) /\ FlowsOf(s) /\ {n} \in SUBSET (DOMAIN s.requests)
      /\ s.requests[n].id \in Correlations /\ s.pending[s.requests[n].id] = n
  <2>1. AnswersOf(s) /\ s.requests \in Seq(Made)
    BY <1>3, <1>5, ClientShape DEF Good, Sound
  <2>2. s.requests[n] \in Made
    BY <1>3, <2>1, LenProperties
  <2> QED BY <1>3, <2>1, <2>2 DEF Good, AnswersOf, Made
<1>7. Canceled(s, {n}, x)
  BY <1>4, <1>6, CancelKeeps
<1>8. /\ Good([x EXCEPT !.requests[n].promise = "aborted"])
      /\ [x EXCEPT !.requests[n].promise = "aborted"] \in ClientSet
  BY <1>3, <1>7, AbortKeeps
<1> QED BY <1>2, <1>8, BecomesIs

\* Who is looked up.
LookedUp(s) == {s.pending[c] : c \in Correlations} \ {None}

\* Everything that is looked up is canceled (close, and the end of the output).
LEMMA ActiveCanceled ==
  ASSUME NEW s, Sound(s), FewOf(s), FlowsOf(s), NEW x \in Cancel(s, LookedUp(s))
  PROVE  Good(x)
<1>1. LookupsOf(s) /\ s \in ClientSet
  BY DEF Sound
<1>2. LookedUp(s) \in SUBSET (DOMAIN s.requests)
  BY <1>1 DEF LookupsOf, LookedUp
<1>3. \A n \in LookedUp(s) :
        s.requests[n].id \in Correlations /\ s.pending[s.requests[n].id] = n
  BY <1>1 DEF LookupsOf, LookedUp
<1>4. Canceled(s, LookedUp(s), x)
  BY <1>2, <1>3, CancelKeeps
<1>5. CASE Over(x)
  BY <1>5 DEF Over, Good
<1>6. CASE ~Over(x)
  BY <1>4, <1>6, <1>2 DEF Canceled, LookedUp, EndsOf, FewOf, Good
<1> QED BY <1>5, <1>6

\* close
LEMMA CloseStep ==
  ASSUME MachineInv, Close
  PROVE  MachineInv'
<1>1. PICK x \in Cancel(Client, Active) : Becomes(Fail(x, TRUE))
  BY DEF Close
<1>2. Active = LookedUp(Client)
  BY ClientGood DEF LookedUp
<1>3. Sound(Client) /\ FewOf(Client) /\ FlowsOf(Client)
  BY DEF MachineInv
<1> DEFINE s == Client
<1>4. Sound(s) /\ FewOf(s) /\ FlowsOf(s) /\ x \in Cancel(s, LookedUp(s))
  BY <1>1, <1>2, <1>3
<1> HIDE DEF s
<1>5. Good(x)
  BY <1>4, ActiveCanceled
<1>6. Good(Fail(x, TRUE))
  BY <1>5, GoodFails
<1>7. Fail(x, TRUE) \in ClientSet
  BY <1>6 DEF Good, Sound
<1> QED BY <1>1, <1>6, <1>7, BecomesIs

\* A client with another flow, field by field.
LEMMA FlowSet ==
  ASSUME NEW s \in ClientSet,
         NEW fl \in [blocked : BOOLEAN, eof : BOOLEAN, draining : BOOLEAN, closed : BOOLEAN]
  PROVE  LET t == [s EXCEPT !.flow = fl] IN
         /\ t \in ClientSet /\ t.flow = fl
         /\ t.requests = s.requests /\ t.pending = s.pending /\ t.writes = s.writes
         /\ t.cancels = s.cancels /\ t.child = s.child /\ t.written = s.written
         /\ Due(t) = Due(s)
<1> DEFINE t == [s EXCEPT !.flow = fl]
<1>1. /\ t.flow = fl
      /\ t.requests = s.requests /\ t.pending = s.pending /\ t.writes = s.writes
      /\ t.cancels = s.cancels /\ t.child = s.child /\ t.written = s.written
  BY ClientShape
<1>2. t \in ClientSet
  BY DEF ClientSet
<1> HIDE DEF t
<1>3. Due(t) = Due(s)
  BY <1>1 DEF Due
<1> QED BY <1>1, <1>2, <1>3 DEF t

\* The output ends.
LEMMA OutputEndsStep ==
  ASSUME MachineInv, OutputEnds
  PROVE  MachineInv'
<1> DEFINE s == Client
           fl == [s.flow EXCEPT !.eof = TRUE]
           u == [s EXCEPT !.flow = fl]
<1>1. PICK x \in Cancel(u, Active) :
        Becomes(IF x.flow.closed THEN x ELSE FinishEof([x EXCEPT !.flow.draining = TRUE]))
  BY DEF OutputEnds
<1>2. Active = LookedUp(s) /\ s \in ClientSet
  BY ClientGood DEF LookedUp
<1>3. Sound(s) /\ FewOf(s) /\ FlowsOf(s)
  BY DEF MachineInv
<1> HIDE DEF s
<1>4. /\ fl \in [blocked : BOOLEAN, eof : BOOLEAN, draining : BOOLEAN, closed : BOOLEAN]
      /\ fl.closed = s.flow.closed /\ fl.blocked = s.flow.blocked
  BY <1>2, ClientShape, ZenonT(60)
<1> HIDE DEF fl
<1>5. /\ u \in ClientSet /\ u.flow = fl
      /\ u.requests = s.requests /\ u.pending = s.pending /\ u.writes = s.writes
      /\ u.cancels = s.cancels /\ u.child = s.child /\ Due(u) = Due(s)
  BY ONLY <1>2, <1>4, FlowSet
<1> HIDE DEF u
<1>6. Sound(u)
  BY <1>3, <1>4, <1>5, SoundStays
<1>7. FewOf(u) /\ FlowsOf(u) /\ LookedUp(u) = LookedUp(s)
  BY <1>3, <1>4, <1>5 DEF FewOf, FlowsOf, LookedUp
<1>8. Good(x)
  BY <1>1, <1>2, <1>6, <1>7, ActiveCanceled
<1>9. x \in ClientSet
  BY <1>8 DEF Good, Sound
<1>10. CASE x.flow.closed
  BY <1>1, <1>8, <1>9, <1>10, BecomesIs
<1>11. CASE ~x.flow.closed
  <2> DEFINE drains == [x.flow EXCEPT !.draining = TRUE]
             y == [x EXCEPT !.flow = drains]
  <2>1. Becomes(FinishEof(y))
    BY <1>1, <1>11
  <2>2. /\ drains \in [blocked : BOOLEAN, eof : BOOLEAN, draining : BOOLEAN, closed : BOOLEAN]
        /\ drains.closed = x.flow.closed /\ drains.blocked = x.flow.blocked
        /\ drains.eof = x.flow.eof
    BY <1>9, ClientShape, ZenonT(60)
  <2> HIDE DEF drains
  <2>3. /\ y \in ClientSet /\ y.flow = drains
        /\ y.requests = x.requests /\ y.pending = x.pending /\ y.writes = x.writes
        /\ y.cancels = x.cancels /\ y.child = x.child /\ Due(y) = Due(x)
    BY ONLY <1>9, <2>2, FlowSet
  <2> HIDE DEF y
  <2>4. Sound(y)
    BY <1>8, <2>2, <2>3, SoundStays DEF Good
  <2>5. FlowsOf(y) /\ EndsOf(y) /\ FewOf(y)
    BY <1>8, <2>2, <2>3 DEF Good, FlowsOf, EndsOf, FewOf
  <2>6. Good(y)
    BY <2>4, <2>5 DEF Good
  <2>7. Good(FinishEof(y))
    BY <2>6, GoodFails DEF FinishEof
  <2>8. FinishEof(y) \in ClientSet
    BY <2>7 DEF Good, Sound
  <2> QED BY <2>1, <2>7, <2>8, BecomesIs
<1> QED BY <1>10, <1>11

\* The child's end is seen.
LEMMA ExitSeenStep ==
  ASSUME MachineInv, ExitSeen
  PROVE  MachineInv'
<1> DEFINE s == Client
           gone == [s.child EXCEPT !.exitSeen = TRUE]
           t == [s EXCEPT !.child = gone]
<1>1. Becomes(IF flow.eof THEN t ELSE Fail(t, FALSE))
  BY DEF ExitSeen
<1>2. Good(s) /\ s \in ClientSet
  BY ClientGood
<1> HIDE DEF s
<1>3. /\ gone \in [alive : BOOLEAN, exitSeen : BOOLEAN, stdin : {"open", "ended", "destroyed"}]
      /\ gone.stdin = s.child.stdin
  BY <1>2, ClientShape, ZenonT(60)
<1> HIDE DEF gone
<1>4. /\ t.requests = s.requests /\ t.pending = s.pending /\ t.writes = s.writes
      /\ t.cancels = s.cancels /\ t.child = gone /\ t.written = s.written /\ t.flow = s.flow
  BY <1>2, ClientShape
<1>5. t \in ClientSet
  BY <1>2, <1>3 DEF ClientSet
<1> HIDE DEF t
<1>6. Good(t)
  BY <1>2, <1>3, <1>4, <1>5, GoodStays
<1>7. Good(Fail(t, FALSE))
  BY <1>6, GoodFails
<1>8. Fail(t, FALSE) \in ClientSet
  BY <1>7 DEF Good, Sound
<1> QED BY <1>1, <1>5, <1>6, <1>7, <1>8, BecomesIs

\* The child's input takes lines again.
LEMMA InputDrainsStep ==
  ASSUME MachineInv, InputDrains
  PROVE  MachineInv'
<1> DEFINE s == Client
           u == [s EXCEPT !.flow.blocked = FALSE]
<1>1. PICK x \in Flush(u) : Becomes(x)
  BY DEF InputDrains
<1>2. s.child.stdin = "open" /\ s \in ClientSet /\ Good(s)
  BY ClientGood DEF InputDrains
<1> HIDE DEF s
<1>3. /\ u \in ClientSet /\ Due(u) = Due(s)
      /\ u.requests = s.requests /\ u.pending = s.pending /\ u.cancels = s.cancels
      /\ u.writes = s.writes /\ u.flow.closed = s.flow.closed /\ u.flow.eof = s.flow.eof
  BY <1>2, BlockedIs
<1> HIDE DEF u
<1>4. ~u.flow.closed
  BY <1>2, <1>3 DEF Good, FlowsOf
<1>5. Sound(u) /\ FewOf(u) /\ EndsOf(u)
  BY <1>2, <1>3, SoundStays DEF Good, FewOf, EndsOf
<1>6. Moved(u, x)
  BY <1>1, <1>4, <1>5, FlushKeeps
<1>7. Len(u.writes) <= MaxQueued
  BY <1>2, <1>3 DEF Good, FlowsOf
<1>8. Good(x)
  <2>1. CASE Over(x)
    BY <2>1 DEF Over, Good
  <2>2. CASE ~Over(x)
    <3>1. Len(x.writes) <= Len(u.writes) /\ Sound(x)
      BY <1>6, <2>2 DEF Moved
    <3>2. Len(x.writes) <= MaxQueued
      <4>1. x \in ClientSet
        BY <3>1 DEF Sound
      <4>2. x.writes \in Seq(Lines) /\ u.writes \in Seq(Lines)
        BY <1>3, <4>1, ClientShape
      <4>3. Len(x.writes) \in Nat /\ Len(u.writes) \in Nat
        BY <4>2, LenProperties
      <4> DEFINE a == Len(x.writes)
                 b == Len(u.writes)
      <4>4. a \in Nat /\ b \in Nat /\ a <= b /\ b <= MaxQueued
        BY <1>7, <3>1, <4>3
      <4> HIDE DEF a, b
      <4>5. a <= MaxQueued
        BY <4>4, MachineAssumption DEF MaxQueued
      <4> QED BY <4>5 DEF a
    <3> QED BY <1>4, <1>5, <1>6, <3>2, GoodMoves
  <2> QED BY <2>1, <2>2
<1>9. x \in ClientSet
  BY <1>8 DEF Good, Sound
<1> QED BY <1>1, <1>8, <1>9, BecomesIs

\* The machine answers a request it was sent (consumeLine).
LEMMA AnswerRequestStep ==
  ASSUME MachineInv, NEW n, AnswerRequest(n)
  PROVE  MachineInv'
<1> DEFINE s == Client
           c == requests[n].id
           looked == [s.pending EXCEPT ![c] = None]
           made == [s.requests EXCEPT
                     ![n] = IF s.requests[n].promise = "waiting"
                            THEN [s.requests[n] EXCEPT !.promise = "answered", !.answer = n]
                            ELSE [s.requests[n] EXCEPT !.answer = n]]
           u == [s EXCEPT !.pending = looked]
           t == [u EXCEPT !.requests = made]
<1>1. /\ Good(s) /\ s \in ClientSet /\ s.requests = requests /\ s.pending = pending
      /\ s.flow = flow /\ s.written = written
  BY ClientGood
<1>2. /\ ~s.flow.closed /\ n \in DOMAIN s.requests /\ Holds(s.written, Line("request", n))
      /\ \A m \in DOMAIN s.requests : s.requests[m].answer # n
  BY <1>1 DEF AnswerRequest, Sent, ToSet, Holds, Numbers
<1>3. Becomes(Resolve(s, n))
  BY DEF AnswerRequest
<1> HIDE DEF s
<1>4. /\ s.pending[c] = n /\ s.requests[n].answer = None
      /\ s.requests[n].promise \in {"waiting", "aborted"}
      /\ c \in Correlations /\ n # None
  BY <1>1, <1>2, OwnAnswer
<1>5. /\ s.requests \in Seq(Made) /\ Len(s.requests) \in Nat
      /\ DOMAIN s.requests = 1..Len(s.requests) /\ s.pending \in [Correlations -> Nat]
      /\ \A m \in DOMAIN s.requests : s.requests[m] \in Made
  BY <1>1, ClientShape, LenProperties
<1>6. looked \in [Correlations -> Nat]
  BY <1>5 DEF None
<1>7. /\ DOMAIN made = DOMAIN s.requests
      /\ \A m \in DOMAIN s.requests \ {n} : made[m] = s.requests[m]
      /\ made[n].id = s.requests[n].id /\ made[n].answer = n
      /\ made[n].canceled = s.requests[n].canceled
      /\ made[n].promise = IF s.requests[n].promise = "waiting" THEN "answered"
                           ELSE s.requests[n].promise
      /\ \A m \in DOMAIN s.requests : made[m] \in Made
  <2>1. /\ made[n] = (IF s.requests[n].promise = "waiting"
                      THEN [s.requests[n] EXCEPT !.promise = "answered", !.answer = n]
                      ELSE [s.requests[n] EXCEPT !.answer = n])
        /\ DOMAIN made = DOMAIN s.requests
        /\ \A m \in DOMAIN s.requests \ {n} : made[m] = s.requests[m]
    BY <1>2
  <2>2. s.requests[n] \in Made /\ n \in Nat
    BY <1>2, <1>5
  <2> DEFINE r == s.requests[n]
             a == [r EXCEPT !.promise = "answered", !.answer = n]
             b == [r EXCEPT !.answer = n]
  <2>3. r \in Made /\ made[n] = IF r.promise = "waiting" THEN a ELSE b
    BY <2>1, <2>2
  <2> HIDE DEF r, made
  <2>4. /\ a \in Made /\ a.id = r.id /\ a.answer = n /\ a.canceled = r.canceled
        /\ a.promise = "answered"
    BY <2>2, <2>3 DEF Made, Promises
  <2>5. /\ b \in Made /\ b.id = r.id /\ b.answer = n /\ b.canceled = r.canceled
        /\ b.promise = r.promise
    BY <2>2, <2>3 DEF Made
  <2> HIDE DEF a, b
  <2>6. /\ made[n] \in Made /\ made[n].id = r.id /\ made[n].answer = n
        /\ made[n].canceled = r.canceled
        /\ made[n].promise = IF r.promise = "waiting" THEN "answered" ELSE r.promise
    BY <2>3, <2>4, <2>5
  <2> QED BY <1>5, <2>1, <2>6 DEF r
<1>8. made \in Seq(Made)
  <2>1. made = [m \in 1..Len(s.requests) |-> made[m]]
    BY <1>5
  <2> HIDE DEF made
  <2>2. made \in [1..Len(s.requests) -> Made]
    BY <1>5, <1>7, <2>1
  <2> QED BY <1>5, <2>2, SeqDef
<1>9. Resolve(s, n) = t
  BY <1>1, <1>4, ClientShape DEF Resolve
<1> HIDE DEF made, looked
<1>10. /\ u \in ClientSet /\ u.pending = looked
       /\ u.requests = s.requests /\ u.writes = s.writes /\ u.cancels = s.cancels
       /\ u.flow = s.flow /\ u.child = s.child /\ u.written = s.written
  BY ONLY <1>1, <1>6, LookupsSet
<1> HIDE DEF u
<1>11. /\ t \in ClientSet /\ t.requests = made
       /\ t.pending = u.pending /\ t.writes = u.writes /\ t.cancels = u.cancels
       /\ t.flow = u.flow /\ t.child = u.child /\ t.written = u.written
  BY ONLY <1>8, <1>10, RequestsSet
<1> HIDE DEF t
<1>12. t.pending = [s.pending EXCEPT ![s.requests[n].id] = None]
  BY <1>1, <1>10, <1>11 DEF looked
<1>13. /\ DOMAIN t.requests = DOMAIN s.requests
       /\ \A m \in DOMAIN s.requests \ {n} : t.requests[m] = s.requests[m]
       /\ t.requests[n].id = s.requests[n].id /\ t.requests[n].answer = n
       /\ t.requests[n].canceled = s.requests[n].canceled
       /\ t.requests[n].promise = IF s.requests[n].promise = "waiting" THEN "answered"
                                 ELSE s.requests[n].promise
       /\ t.writes = s.writes /\ t.cancels = s.cancels /\ t.flow = s.flow
       /\ t.child = s.child /\ t.written = s.written /\ t \in ClientSet
  BY ONLY <1>7, <1>10, <1>11
<1>14. Good(t)
  BY ONLY <1>1, <1>2, <1>12, <1>13, ResolveKeeps
<1> QED BY <1>3, <1>9, <1>11, <1>14, BecomesIs

\* The machine answers a cancel (consumeLine).
LEMMA AnswerCancelStep ==
  ASSUME MachineInv, NEW n, AnswerCancel(n)
  PROVE  MachineInv'
<1> DEFINE s == Client
           all == cancels \ {n}
           t == [s EXCEPT !.cancels = all]
<1>1. Good(s) /\ s \in ClientSet /\ s.cancels = cancels
  BY ClientGood
<1>2. Becomes(t)
  BY DEF AnswerCancel, Becomes, Client
<1> HIDE DEF s
<1>3. all \in SUBSET Nat /\ all \subseteq s.cancels
  BY <1>1, ClientShape
<1> HIDE DEF all
<1>4. /\ t.requests = s.requests /\ t.pending = s.pending /\ t.writes = s.writes
      /\ t.cancels = all /\ t.child = s.child /\ t.written = s.written /\ t.flow = s.flow
  BY <1>1, ClientShape
<1>5. t \in ClientSet
  BY <1>1, <1>3 DEF ClientSet
<1> HIDE DEF t
<1>6. Due(t) = Due(s)
  BY <1>4 DEF Due
<1>7. /\ OnceIn(Due(s)) /\ KnownIn(Due(s), s.requests)
      /\ AnswersOf(s) /\ LookupsOf(s) /\ HeardOf(s)
  BY <1>1 DEF Good, Sound
<1>8. AnswersOf(t) /\ LookupsOf(t)
  BY <1>4, <1>7 DEF AnswersOf, LookupsOf
<1>9. HeardOf(t)
  BY <1>3, <1>4, <1>6, <1>7 DEF HeardOf
<1>10. FlowsOf(t) /\ EndsOf(t) /\ FewOf(t)
  BY <1>1, <1>4 DEF Good, FlowsOf, EndsOf, FewOf
<1>11. Good(t)
  BY <1>4, <1>5, <1>6, <1>7, <1>8, <1>9, <1>10 DEF Good, Sound
<1> QED BY <1>2, <1>5, <1>11, BecomesIs

\* Every step of the client.
LEMMA MachineNextKeeps ==
  ASSUME MachineInv, MachineNext
  PROVE  MachineInv'
<1>1. ASSUME NEW c \in Correlations, Request(c) PROVE MachineInv'
  BY <1>1, RequestStep
<1>2. ASSUME NEW c \in Correlations, NEW flawed \in BOOLEAN, RequestRefused(c, flawed)
      PROVE  MachineInv'
  BY <1>2, RequestRefusedStep
<1>3. ASSUME NEW n, AbortRequest(n) PROVE MachineInv'
  BY <1>3, AbortStep
<1>4. ASSUME NEW n, AnswerRequest(n) PROVE MachineInv'
  BY <1>4, AnswerRequestStep
<1>5. ASSUME NEW n, AnswerCancel(n) PROVE MachineInv'
  BY <1>5, AnswerCancelStep
<1>6. ASSUME NEW f \in Oddities, Odd(f) PROVE MachineInv'
  BY <1>6, FailsStep DEF Odd
<1>7. CASE Close
  BY <1>7, CloseStep
<1>8. CASE InputDrains
  BY <1>8, InputDrainsStep
<1>9. CASE Breaks \/ Deadline
  BY <1>9, FailsStep DEF Breaks, Deadline
<1>10. CASE Dies \/ ForceKill
  <2>1. child \in [alive : BOOLEAN, exitSeen : BOOLEAN, stdin : {"open", "ended", "destroyed"}]
    BY ClientGood, ClientShape
  <2>2. child' = [child EXCEPT !.alive = FALSE]
        /\ UNCHANGED <<requests, pending, writes, cancels, flow, written>>
    BY <1>10 DEF Dies, ForceKill
  <2>3. /\ child'.stdin = child.stdin
        /\ child' \in [alive : BOOLEAN, exitSeen : BOOLEAN, stdin : {"open", "ended", "destroyed"}]
    BY <2>1, <2>2
  <2> QED BY <2>2, <2>3, ChildStep
<1>11. CASE ExitSeen
  BY <1>11, ExitSeenStep
<1>12. CASE OutputEnds
  BY <1>12, OutputEndsStep
<1> QED
  BY <1>1, <1>2, <1>3, <1>4, <1>5, <1>6, <1>7, <1>8, <1>9, <1>10, <1>11, <1>12 DEF MachineNext

\* Nothing was asked yet.
LEMMA MachineInitGood ==
  ASSUME MachineInit
  PROVE  MachineInv
<1> DEFINE s == Client
<1>1. /\ s.requests = <<>> /\ s.pending = [c \in Correlations |-> None] /\ s.writes = <<>>
      /\ s.cancels = {} /\ s.written = <<>>
      /\ s.flow = [blocked |-> FALSE, eof |-> FALSE, draining |-> FALSE, closed |-> FALSE]
      /\ s.child = [alive |-> TRUE, exitSeen |-> FALSE, stdin |-> "open"]
  BY DEF MachineInit, Client
<1>2. s \in ClientSet
  BY DEF MachineInit, None, Client, ClientSet
<1> HIDE DEF s
<1>3. Due(s) = <<>>
  BY <1>1, <1>2, DueIs
<1>4. OnceIn(Due(s)) /\ KnownIn(Due(s), s.requests) /\ AnswersOf(s)
  BY <1>1, <1>3 DEF OnceIn, KnownIn, AnswersOf
<1>5. LookupsOf(s) /\ HeardOf(s) /\ EndsOf(s)
  BY <1>1, <1>3 DEF LookupsOf, HeardOf, EndsOf
<1>6. FlowsOf(s)
  BY <1>1, MachineAssumption DEF FlowsOf, MaxQueued
<1>7. FewOf(s)
  <2>1. {s.pending[c] : c \in Correlations} \ {None} = {}
    BY <1>1
  <2> QED BY <2>1, FS_EmptySet, MachineAssumption DEF FewOf
<1> QED BY <1>2, <1>4, <1>5, <1>6, <1>7 DEF MachineInv, Sound, s

\* Of the numbers of a sequence where one line stands there is at most one, when every
\* line is there once.
LEMMA AtMostOnce ==
  ASSUME NEW q, OnceIn(q), NEW line
  PROVE  Cardinality({i \in DOMAIN q : q[i] = line}) <= 1
<1> DEFINE P == {i \in DOMAIN q : q[i] = line}
<1>1. CASE P = {}
  BY <1>1, FS_EmptySet
<1>2. CASE P # {}
  <2>1. PICK i : i \in P
    BY <1>2
  <2>2. P = {i}
    BY <2>1 DEF OnceIn
  <2> QED BY <2>2, FS_Singleton
<1> QED BY <1>1, <1>2

\* What the invariant says to the caller and of the child.
LEMMA MachineIsHonest ==
  ASSUME MachineInv
  PROVE  MachineHonest
<1> DEFINE s == Client
<1>1. /\ s.requests = requests /\ s.pending = pending /\ s.writes = writes
      /\ s.cancels = cancels /\ s.flow = flow /\ s.child = child /\ s.written = written
      /\ s \in ClientSet /\ Good(s)
      /\ Active = {s.pending[c] : c \in Correlations} \ {None}
  BY ClientGood
<1> HIDE DEF s
<1>2. /\ OnceIn(Due(s)) /\ KnownIn(Due(s), s.requests)
      /\ AnswersOf(s) /\ LookupsOf(s) /\ HeardOf(s)
      /\ FlowsOf(s) /\ EndsOf(s) /\ FewOf(s)
  BY <1>1 DEF Good, Sound
<1>3. AnsweredForItself
  BY <1>1, <1>2 DEF AnsweredForItself, AnswersOf, Numbers
<1>4. StillPending
  BY <1>1, <1>2 DEF StillPending, AnswersOf, Numbers
<1>5. OnceIn(written) /\ KnownIn(written, requests)
  <2>1. /\ written \in Seq(Lines) /\ Due(s) \in Seq(Lines) /\ Len(written) <= Len(Due(s))
        /\ \A i \in DOMAIN written : written[i] = Due(s)[i]
    <3> DEFINE a == Len(s.written)
               b == Len(s.writes)
               d == Len(Due(s))
    <3>1. /\ s.written \in Seq(Lines) /\ Due(s) \in Seq(Lines)
          /\ a \in Nat /\ b \in Nat /\ d = a + b
          /\ \A i \in DOMAIN s.written : Due(s)[i] = s.written[i]
      BY <1>1, DueIs
    <3> HIDE DEF a, b, d
    <3>2. a <= d
      BY <3>1
    <3> QED BY <1>1, <3>1, <3>2 DEF a, d
  <2> QED BY <1>1, <1>2, <2>1, PrefixFine
<1>6. WrittenOnce
  <2> SUFFICES ASSUME NEW n \in Numbers
               PROVE  /\ Cardinality({i \in DOMAIN written : written[i] = Line("request", n)}) <= 1
                      /\ Cardinality({i \in DOMAIN written : written[i] = Line("cancel", n)}) <= 1
                      /\ \A i \in {k \in DOMAIN written : written[k] = Line("cancel", n)} :
                           \E j \in {k \in DOMAIN written : written[k] = Line("request", n)} : j < i
                      /\ requests[n].promise = "refused" => n \notin Sent("request")
    BY DEF WrittenOnce
  <2>1. \A i \in DOMAIN written : written[i] = Line("cancel", n) =>
          \E j \in DOMAIN written : j < i /\ written[j] = Line("request", n)
    BY <1>5 DEF KnownIn, Line
  <2>2. requests[n].promise = "refused" => n \notin Sent("request")
    <3>1. SUFFICES ASSUME n \in Sent("request") PROVE requests[n].promise # "refused"
      OBVIOUS
    <3>2. PICK i \in DOMAIN written : written[i] = Line("request", n)
      BY <3>1 DEF Sent, ToSet
    <3> QED BY <1>5, <3>2 DEF KnownIn, Line
  <2> QED BY <1>5, <2>1, <2>2, AtMostOnce
<1>7. NothingDropped
  <2> SUFFICES ASSUME ~flow.closed
               PROVE  /\ \A n \in Active :
                           /\ Line("request", n) \in ToSet(writes) \cup ToSet(written)
                           /\ requests[n].promise = "aborted" \/ flow.eof => requests[n].canceled
                           /\ requests[n].canceled =>
                                Line("cancel", n) \in ToSet(writes) \cup ToSet(written)
                      /\ \A n \in cancels : Line("cancel", n) \in ToSet(writes) \cup ToSet(written)
                      /\ ~flow.blocked => writes = <<>>
    BY DEF NothingDropped
  <2>1. \A line : Holds(Due(s), line) => line \in ToSet(writes) \cup ToSet(written)
    <3> SUFFICES ASSUME NEW line, Holds(Due(s), line)
                 PROVE  line \in ToSet(writes) \cup ToSet(written)
      OBVIOUS
    <3>1. PICK i \in DOMAIN Due(s) : Due(s)[i] = line
      BY DEF Holds
    <3>2. written \in Seq(Lines) /\ writes \in Seq(Lines) /\ Due(s) = written \o writes
      BY <1>1, DueIs DEF Due
    <3> DEFINE a == Len(written)
               b == Len(writes)
    <3>3. /\ a \in Nat /\ b \in Nat /\ DOMAIN written = 1..a /\ DOMAIN writes = 1..b
          /\ i \in 1..(a + b)
          /\ line = IF i <= a THEN written[i] ELSE writes[i - a]
      BY <3>1, <3>2, ConcatProperties, LenProperties
    <3> HIDE DEF a, b
    <3>4. \/ i \in DOMAIN written /\ line = written[i]
          \/ i - a \in DOMAIN writes /\ line = writes[i - a]
      BY <3>3
    <3> QED BY <3>4 DEF ToSet
  <2>2. /\ \A n \in Active :
             /\ Holds(Due(s), Line("request", n))
             /\ requests[n].promise = "aborted" \/ flow.eof => requests[n].canceled
             /\ requests[n].canceled => Holds(Due(s), Line("cancel", n))
        /\ \A n \in cancels : Holds(Due(s), Line("cancel", n))
        /\ ~flow.blocked => writes = <<>>
    BY <1>1, <1>2 DEF HeardOf, EndsOf, FlowsOf
  <2> QED BY <2>1, <2>2
<1>8. flow.closed => Active = {} /\ writes = <<>> /\ child.stdin # "open"
  BY <1>1, <1>2 DEF FlowsOf, LookupsOf
<1>9. Cardinality(Active) <= MaxActive /\ Len(writes) <= MaxQueued
  BY <1>1, <1>2 DEF FewOf, FlowsOf
<1> QED BY <1>3, <1>4, <1>6, <1>7, <1>8, <1>9 DEF MachineHonest

------------------------------------------------------------------------------
\* The places of the messages are numbers of events, and so are those before one.
LEMMA PlacesAre ==
  /\ MessagePlaces \in SUBSET Nat /\ MessagePlaces \subseteq 1..Len(Events)
  /\ Len(Events) \in Nat /\ DOMAIN Events = 1..Len(Events)
  /\ IsFiniteSet(MessagePlaces)
  /\ \A p : /\ IsFiniteSet(Before(p)) /\ Cardinality(Before(p)) \in Nat
            /\ Before(p) \subseteq MessagePlaces
  /\ \A p \in MessagePlaces : TargetOf(Events[p]) \in Conversations
<1>1. Len(Events) \in Nat /\ DOMAIN Events = 1..Len(Events)
  BY DeliveryAssumption
<1>2. MessagePlaces \subseteq 1..Len(Events) /\ MessagePlaces \in SUBSET Nat
  BY <1>1 DEF MessagePlaces
<1>3. IsFiniteSet(MessagePlaces)
  <2>1. IsFiniteSet(1..Len(Events))
    BY <1>1, FS_Interval
  <2> QED BY <1>2, <2>1, FS_Subset
<1>4. \A p : Before(p) \subseteq MessagePlaces
  BY DEF Before
<1>5. \A p : IsFiniteSet(Before(p)) /\ Cardinality(Before(p)) \in Nat
  BY <1>3, <1>4, FS_Subset, FS_CardinalityType
<1>6. \A p \in MessagePlaces : TargetOf(Events[p]) \in Conversations
  BY DEF MessagePlaces, Conversations
<1> QED BY <1>1, <1>2, <1>3, <1>4, <1>5, <1>6

\* A message more in one conversation.
LEMMA PostedIs ==
  ASSUME NEW m \in [Conversations -> Seq(Posted)], NEW c \in Conversations,
         NEW message \in Posted
  PROVE  LET added == [m EXCEPT ![c] = Append(@, message)] IN
         /\ added \in [Conversations -> Seq(Posted)]
         /\ \A d \in Conversations : \A k \in DOMAIN m[d] :
              k \in DOMAIN added[d] /\ added[d][k] = m[d][k]
         /\ \A d \in Conversations : \A k \in DOMAIN added[d] :
              \/ k \in DOMAIN m[d] /\ added[d][k] = m[d][k]
              \/ d = c /\ added[d][k] = message
         /\ \E k \in DOMAIN added[c] : added[c][k] = message
<1> DEFINE longer == Append(m[c], message)
           added == [m EXCEPT ![c] = longer]
<1>1. m[c] \in Seq(Posted)
  OBVIOUS
<1>2. /\ longer \in Seq(Posted) /\ DOMAIN longer = DOMAIN m[c] \cup {Len(m[c]) + 1}
      /\ \A k \in DOMAIN m[c] : longer[k] = m[c][k]
      /\ longer[Len(m[c]) + 1] = message
  <2> DEFINE s == m[c]
             n == Len(s)
  <2>1. s \in Seq(Posted) /\ n \in Nat /\ DOMAIN s = 1..n
    BY <1>1, LenProperties
  <2>2. /\ Append(s, message) \in Seq(Posted) /\ Len(Append(s, message)) = n + 1
        /\ \A k \in 1..n : Append(s, message)[k] = s[k]
        /\ Append(s, message)[n + 1] = message
    BY <2>1, AppendProperties
  <2>3. DOMAIN Append(s, message) = 1..(n + 1)
    BY <2>2, LenProperties
  <2> HIDE DEF s, n
  <2>4. DOMAIN Append(s, message) = DOMAIN s \cup {n + 1}
    BY <2>1, <2>3
  <2> QED BY <2>1, <2>2, <2>4 DEF s, n
<1>3. added[c] = longer /\ \A d \in Conversations \ {c} : added[d] = m[d]
  OBVIOUS
<1>4. added \in [Conversations -> Seq(Posted)]
  BY <1>2
<1> HIDE DEF longer, added
<1>5. \A d \in Conversations : \A k \in DOMAIN m[d] :
        k \in DOMAIN added[d] /\ added[d][k] = m[d][k]
  BY <1>2, <1>3
<1>6. \A d \in Conversations : \A k \in DOMAIN added[d] :
        \/ k \in DOMAIN m[d] /\ added[d][k] = m[d][k]
        \/ d = c /\ added[d][k] = message
  BY <1>2, <1>3
<1>7. \E k \in DOMAIN added[c] : added[c][k] = message
  BY <1>2, <1>3
<1> QED BY <1>4, <1>5, <1>6, <1>7 DEF added, longer

\* What Moltnet holds once the message of place p came: what it held, and that message.
LEMMA StoredIs ==
  ASSUME DeliveryTyped, OwnIn(moltnet), NEW p \in MessagePlaces,
         NEW m \in Stored(RequestFor(Events[p]))
  PROVE  /\ m \in [Conversations -> Seq(Posted)] /\ OwnIn(m)
         /\ LiesIn(m, p)
         /\ \A q \in MessagePlaces : LiesIn(m, q) <=> Lies(q) \/ q = p
<1> DEFINE c == TargetOf(Events[p])
           message == [event |-> Events[p].id]
           added == [moltnet EXCEPT ![c] = Append(@, message)]
<1>1. /\ p \in 1..Len(Events) /\ c \in Conversations
      /\ \A q \in MessagePlaces : TargetOf(Events[q]) \in Conversations
      /\ \A q \in MessagePlaces : Events[q].id = Events[p].id => q = p
      /\ \A q \in MessagePlaces : Events[q].id # NoEvent
  BY PlacesAre, DeliveryAssumption DEF MessagePlaces, NoEvent
<1>2. message \in Posted /\ moltnet \in [Conversations -> Seq(Posted)]
  BY <1>1, PlacesAre DEF Posted, DeliveryTyped
<1>3. RequestFor(Events[p]).target = c /\ RequestFor(Events[p]).event = Events[p].id
  BY DEF RequestFor
<1>4. \/ m = added
      \/ m = moltnet /\ \E i \in DOMAIN moltnet[c] : moltnet[c][i] = message
  BY <1>3 DEF Stored
<1> HIDE DEF c
<1>5. CASE m = moltnet /\ \E i \in DOMAIN moltnet[c] : moltnet[c][i] = message
  BY <1>5, <1>2 DEF LiesIn, c, Lies
<1>6. CASE m = added
  <2>1. /\ m \in [Conversations -> Seq(Posted)]
        /\ \A d \in Conversations : \A k \in DOMAIN moltnet[d] :
             k \in DOMAIN m[d] /\ m[d][k] = moltnet[d][k]
        /\ \A d \in Conversations : \A k \in DOMAIN m[d] :
             \/ k \in DOMAIN moltnet[d] /\ m[d][k] = moltnet[d][k]
             \/ d = c /\ m[d][k] = message
        /\ \E k \in DOMAIN m[c] : m[c][k] = message
    <3> HIDE DEF message
    <3>1. m = [moltnet EXCEPT ![c] = Append(@, message)]
      BY ONLY <1>6
    <3> QED BY ONLY <1>1, <1>2, <3>1, PostedIs
  <2>2. LiesIn(m, p)
    BY <2>1 DEF LiesIn, c
  <2>3. OwnIn(m)
    BY <2>1 DEF OwnIn, c
  <2>4. ASSUME NEW q \in MessagePlaces PROVE LiesIn(m, q) <=> Lies(q) \/ q = p
    <3>1. ASSUME LiesIn(m, q), ~Lies(q) PROVE q = p
      <4>1. PICK k \in DOMAIN m[TargetOf(Events[q])] : m[TargetOf(Events[q])][k].event = Events[q].id
        BY <3>1 DEF LiesIn
      <4>2. m[TargetOf(Events[q])][k] = message
        BY <1>1, <2>1, <3>1, <4>1 DEF Lies, LiesIn
      <4> QED BY <1>1, <4>1, <4>2
    <3>2. ASSUME Lies(q) PROVE LiesIn(m, q)
      BY <1>1, <2>1, <3>2 DEF Lies, LiesIn
    <3> QED BY <2>2, <3>1, <3>2
  <2> QED BY <2>1, <2>2, <2>3, <2>4
<1> QED BY <1>4, <1>5, <1>6

\* The places before the next one.
LEMMA BeforeNext ==
  ASSUME NEW p \in DOMAIN Events
  PROVE  /\ IsWorldMessage(Events[p]) =>
              /\ Before(p + 1) = Before(p) \cup {p} /\ p \notin Before(p)
              /\ Cardinality(Before(p + 1)) = Cardinality(Before(p)) + 1
         /\ ~IsWorldMessage(Events[p]) => Before(p + 1) = Before(p)
<1>1. p \in Nat /\ MessagePlaces \in SUBSET Nat
  BY PlacesAre
<1>2. \A q \in MessagePlaces : q < p + 1 <=> q < p \/ q = p
  BY <1>1
<1>3. p \notin Before(p)
  BY <1>1 DEF Before
<1>4. CASE IsWorldMessage(Events[p])
  <2>1. Before(p + 1) = Before(p) \cup {p}
    BY <1>2, <1>4 DEF Before, MessagePlaces
  <2>2. Cardinality(Before(p) \cup {p}) = Cardinality(Before(p)) + 1
    BY <1>3, PlacesAre, FS_AddElement
  <2> QED BY <1>3, <1>4, <2>1, <2>2
<1>5. CASE ~IsWorldMessage(Events[p])
  BY <1>2, <1>5 DEF Before, MessagePlaces
<1> QED BY <1>4, <1>5

------------------------------------------------------------------------------
\* No place comes before the first.
LEMMA BeforeFirst == Before(1) = {}
<1>1. \A q \in MessagePlaces : q \in 1..Len(Events) /\ Len(Events) \in Nat
  BY PlacesAre
<1>2. \A q \in MessagePlaces : ~(q < 1)
  BY <1>1
<1> QED BY <1>2 DEF Before

\* Nothing was posted yet.
LEMMA DeliveryInitGood ==
  ASSUME DeliveryInit
  PROVE  DeliveryInv
<1>1. DeliveryTyped
  BY PlacesAre DEF DeliveryInit, DeliveryTyped
<1>2. Before(1) = {} /\ delivery.at = 1 /\ delivery.results = <<>> /\ delivery.state = "idle"
  BY BeforeFirst DEF DeliveryInit
<1>3. ResultsInv
  BY <1>2, FS_EmptySet DEF ResultsInv
<1>4. MoltnetInv
  BY PlacesAre DEF DeliveryInit, MoltnetInv, OwnIn, Lies, LiesIn
<1> QED BY <1>1, <1>3, <1>4 DEF DeliveryInv

\* A delivery starts from the first event.
LEMMA StartDeliveryStep ==
  ASSUME DeliveryInv, StartDelivery
  PROVE  DeliveryInv'
<1>1. delivery' = [at |-> 1, results |-> <<>>, state |-> "sending",
                   started |-> delivery.started + 1] /\ moltnet' = moltnet
  BY DEF StartDelivery
<1>2. DeliveryTyped'
  BY PlacesAre, <1>1 DEF DeliveryInv, DeliveryTyped
<1>3. Before(1) = {} /\ delivery'.at = 1 /\ delivery'.results = <<>>
      /\ delivery'.state = "sending"
  BY <1>1, BeforeFirst
<1>4. ResultsInv'
  BY <1>3, FS_EmptySet DEF ResultsInv, Before, MessagePlaces
<1>5. MoltnetInv'
  BY <1>1 DEF DeliveryInv, MoltnetInv, OwnIn, Lies, LiesIn, MessagePlaces
<1> QED BY <1>2, <1>4, <1>5 DEF DeliveryInv

\* An event that is no message is passed over.
LEMMA SkipStep ==
  ASSUME DeliveryInv, Skip
  PROVE  DeliveryInv'
<1>1. /\ delivery.state = "sending" /\ delivery.at <= Len(Events)
      /\ ~IsWorldMessage(Events[delivery.at])
      /\ delivery' = [delivery EXCEPT !.at = @ + 1] /\ moltnet' = moltnet
  BY DEF Skip
<1>2. delivery.at \in DOMAIN Events /\ delivery.at + 1 \in 1..(Len(Events) + 1)
  BY <1>1, PlacesAre DEF DeliveryInv, DeliveryTyped
<1>3. /\ delivery'.at = delivery.at + 1 /\ delivery'.results = delivery.results
      /\ delivery'.state = "sending"
  BY <1>1 DEF DeliveryInv, DeliveryTyped
<1>4. DeliveryTyped'
  BY <1>1, <1>2 DEF DeliveryInv, DeliveryTyped
<1>5. Before(delivery'.at) = Before(delivery.at)
  BY <1>1, <1>2, <1>3, BeforeNext
<1>6. ResultsInv'
  BY <1>1, <1>3, <1>5 DEF DeliveryInv, ResultsInv, Lies
<1>7. MoltnetInv'
  BY <1>1 DEF DeliveryInv, MoltnetInv, OwnIn, Lies, LiesIn, MessagePlaces
<1> QED BY <1>4, <1>6, <1>7 DEF DeliveryInv

\* The next message comes to lie in Moltnet, behind the earlier ones, however the post is
\* answered.
LEMMA MoltnetGets ==
  ASSUME DeliveryInv, delivery.at \in MessagePlaces,
         moltnet' \in Stored(RequestFor(Events[delivery.at]))
  PROVE  /\ moltnet' \in [Conversations -> Seq(Posted)] /\ MoltnetInv'
         /\ \A q \in MessagePlaces : Lies(q)' <=> Lies(q) \/ q = delivery.at
<1> DEFINE p == delivery.at
<1>1. DeliveryTyped /\ OwnIn(moltnet) /\ p \in MessagePlaces
  BY DEF DeliveryInv, MoltnetInv
<1> HIDE DEF p
<1>2. PICK m : m = moltnet' /\ m \in Stored(RequestFor(Events[p]))
  BY DEF p
<1>3. /\ m \in [Conversations -> Seq(Posted)] /\ OwnIn(m)
      /\ \A q \in MessagePlaces : LiesIn(m, q) <=> Lies(q) \/ q = p
  BY <1>1, <1>2, StoredIs
<1>4. \A q \in MessagePlaces : Lies(q)' <=> Lies(q) \/ q = p
  BY <1>2, <1>3 DEF Lies, LiesIn
<1>5. \A q, r \in MessagePlaces : q < r /\ Lies(r) => Lies(q)
  BY DEF DeliveryInv, MoltnetInv
<1>6. \A q \in MessagePlaces : q < p => Lies(q)
  BY DEF DeliveryInv, ResultsInv, Before, p
<1>7. \A q, r \in MessagePlaces : q < r /\ Lies(r)' => Lies(q)'
  BY <1>4, <1>5, <1>6
<1>8. MoltnetInv'
  BY <1>2, <1>3, <1>7 DEF OwnIn, MessagePlaces, MoltnetInv
<1> QED BY <1>2, <1>3, <1>4, <1>8 DEF p

\* A post is accepted.
LEMMA AcceptedStep ==
  ASSUME DeliveryInv, Accepted
  PROVE  DeliveryInv'
<1>0. PICK p : p = delivery.at
  OBVIOUS
<1> DEFINE entry == [event |-> Events[p].id, request |-> RequestFor(Events[p])]
           results == delivery.results
<1>1. /\ delivery.state = "sending" /\ p <= Len(Events) /\ IsWorldMessage(Events[p])
      /\ moltnet' \in Stored(RequestFor(Events[p]))
      /\ delivery' = [delivery EXCEPT !.at = @ + 1, !.results = Append(@, entry)]
  BY <1>0 DEF Accepted, Posts
<1>2. p \in DOMAIN Events /\ p + 1 \in 1..(Len(Events) + 1) /\ p \in MessagePlaces /\ p \in Nat
  BY <1>0, <1>1, PlacesAre DEF DeliveryInv, DeliveryTyped, MessagePlaces
<1>3. /\ moltnet' \in [Conversations -> Seq(Posted)] /\ MoltnetInv'
      /\ \A q \in MessagePlaces : Lies(q)' <=> Lies(q) \/ q = p
  BY <1>0, <1>1, <1>2, MoltnetGets
<1>4. /\ delivery'.at = p + 1 /\ delivery'.results = Append(results, entry)
      /\ delivery'.state = "sending"
  BY <1>0, <1>1 DEF DeliveryInv, DeliveryTyped
<1>5. results \in Seq(Results) /\ entry \in Results
  BY <1>2 DEF DeliveryInv, DeliveryTyped, Results
<1>6. DeliveryTyped'
  BY <1>5, AppendProperties, <1>0, <1>1, <1>2, <1>3 DEF DeliveryInv,
     DeliveryTyped
<1>7. ResultsInv'
  <2> DEFINE n == Len(results)
             longer == Append(results, entry)
  <2>1. /\ n \in Nat /\ Len(longer) = n + 1 /\ longer[n + 1] = entry
        /\ \A k \in 1..n : longer[k] = results[k]
    BY <1>5, AppendProperties, LenProperties
  <2>2. n = Cardinality(Before(p))
    BY <1>0 DEF DeliveryInv, ResultsInv
  <2>3. /\ Before(p + 1) = Before(p) \cup {p} /\ p \notin Before(p)
        /\ Cardinality(Before(p + 1)) = Cardinality(Before(p)) + 1
    BY <1>1, <1>2, BeforeNext
  <2>4. \A q \in Before(p) : results[NumberOf(q)] = [event |-> Events[q].id,
                                                request |-> RequestFor(Events[q])] /\ Lies(q)
    BY <1>0 DEF DeliveryInv, ResultsInv
  <2>5. \A q \in Before(p) : NumberOf(q) \in 1..n
    <3> SUFFICES ASSUME NEW q \in Before(p) PROVE NumberOf(q) \in 1..n
      OBVIOUS
    <3>1. q \in MessagePlaces /\ q \in Nat /\ q < p
      BY PlacesAre DEF Before
    <3>2. Before(q) \cup {q} \subseteq Before(p) /\ q \notin Before(q)
      <4>1. \A k \in Before(q) : k \in Before(p)
        <5> SUFFICES ASSUME NEW k \in MessagePlaces, k < q PROVE k < p
          BY DEF Before
        <5>1. k \in Nat
          BY PlacesAre
        <5> QED BY <1>2, <3>1, <5>1
      <4>2. q \notin Before(q)
        BY <3>1 DEF Before
      <4> QED BY <4>1, <4>2
    <3>3. Cardinality(Before(q) \cup {q}) = Cardinality(Before(q)) + 1
          /\ Cardinality(Before(q)) \in Nat
      BY <3>2, PlacesAre, FS_AddElement
    <3>4. Cardinality(Before(q) \cup {q}) <= Cardinality(Before(p))
      BY PlacesAre, <3>2, FS_Subset
    <3> HIDE DEF n
    <3> QED BY <2>1, <2>2, <3>3, <3>4 DEF NumberOf
  <2>6. NumberOf(p) = n + 1
    BY <2>2 DEF NumberOf
  <2> HIDE DEF n, longer, entry
  <2>7. \A q \in Before(p + 1) :
          longer[NumberOf(q)] = [event |-> Events[q].id, request |-> RequestFor(Events[q])]
          /\ Lies(q)'
    <3>1. ASSUME NEW q \in Before(p)
          PROVE  longer[NumberOf(q)] = [event |-> Events[q].id, request |-> RequestFor(Events[q])]
                 /\ Lies(q)'
      BY <1>3, <2>1, <2>4, <2>5 DEF Before
    <3>2. longer[NumberOf(p)] = [event |-> Events[p].id, request |-> RequestFor(Events[p])]
          /\ Lies(p)'
      BY <1>2, <1>3, <2>1, <2>6 DEF entry
    <3> QED BY <2>3, <3>1, <3>2
  <2>8. Len(longer) = Cardinality(Before(p + 1))
    BY <2>1, <2>2, <2>3
  <2>9. delivery'.results = longer /\ delivery'.at = p + 1 /\ delivery'.state = "sending"
    BY <1>4 DEF longer
  <2> QED BY <2>7, <2>8, <2>9 DEF ResultsInv, Before, NumberOf, MessagePlaces
<1> QED BY <1>3, <1>6, <1>7 DEF DeliveryInv

\* A post fails; it may have arrived.
LEMMA FailedStep ==
  ASSUME DeliveryInv, Failed
  PROVE  DeliveryInv'
<1> DEFINE p == delivery.at
<1>1. /\ delivery.state = "sending" /\ p <= Len(Events) /\ IsWorldMessage(Events[p])
      /\ moltnet' = moltnet \/ moltnet' \in Stored(RequestFor(Events[p]))
      /\ delivery' = [delivery EXCEPT !.state = "failed"]
  BY DEF Failed
<1>2. p \in MessagePlaces
  BY <1>1, PlacesAre DEF DeliveryInv, DeliveryTyped, MessagePlaces
<1>3. /\ moltnet' \in [Conversations -> Seq(Posted)] /\ MoltnetInv'
      /\ \A q \in MessagePlaces : Lies(q) => Lies(q)'
  <2>1. CASE moltnet' = moltnet
    BY <2>1 DEF DeliveryInv, DeliveryTyped, MoltnetInv, OwnIn, Lies, LiesIn, MessagePlaces
  <2>2. CASE moltnet' \in Stored(RequestFor(Events[p]))
    BY <1>2, <2>2, MoltnetGets
  <2> QED BY <1>1, <2>1, <2>2
<1>4. /\ delivery'.at = p /\ delivery'.results = delivery.results
      /\ delivery'.state = "failed"
  BY <1>1 DEF DeliveryInv, DeliveryTyped
<1>5. DeliveryTyped'
  BY <1>1, <1>3 DEF DeliveryInv, DeliveryTyped
<1>6. ResultsInv'
  BY <1>3, <1>4 DEF DeliveryInv, ResultsInv, Before, NumberOf, MessagePlaces
<1> QED BY <1>3, <1>5, <1>6 DEF DeliveryInv

\* Every event was seen to.
LEMMA DeliveredStep ==
  ASSUME DeliveryInv, Delivered
  PROVE  DeliveryInv'
<1>1. /\ delivery.at > Len(Events) /\ delivery' = [delivery EXCEPT !.state = "delivered"]
      /\ moltnet' = moltnet
  BY DEF Delivered
<1>2. delivery.at = Len(Events) + 1
  BY <1>1, PlacesAre DEF DeliveryInv, DeliveryTyped
<1>3. /\ delivery'.at = delivery.at /\ delivery'.results = delivery.results
  BY <1>1 DEF DeliveryInv, DeliveryTyped
<1>4. DeliveryTyped'
  BY <1>1 DEF DeliveryInv, DeliveryTyped
<1>5. ResultsInv'
  BY <1>1, <1>2, <1>3 DEF DeliveryInv, ResultsInv, Lies
<1>6. MoltnetInv'
  BY <1>1 DEF DeliveryInv, MoltnetInv, OwnIn, Lies, LiesIn, MessagePlaces
<1> QED BY <1>4, <1>5, <1>6 DEF DeliveryInv

\* An agent says something of its own: no event's message is touched.
LEMMA SpeakStep ==
  ASSUME DeliveryInv, NEW c \in Conversations, Speak(c)
  PROVE  DeliveryInv'
<1> DEFINE message == [event |-> NoEvent]
<1>1. moltnet' = [moltnet EXCEPT ![c] = Append(@, message)] /\ delivery' = delivery
  BY DEF Speak
<1>2. message \in Posted /\ moltnet \in [Conversations -> Seq(Posted)]
  BY DEF Posted, DeliveryInv, DeliveryTyped
<1>3. message.event = NoEvent
  OBVIOUS
<1> HIDE DEF message
<1>4. PICK m : m = moltnet'
  OBVIOUS
<1>5. /\ m \in [Conversations -> Seq(Posted)]
      /\ \A d \in Conversations : \A k \in DOMAIN moltnet[d] :
           k \in DOMAIN m[d] /\ m[d][k] = moltnet[d][k]
      /\ \A d \in Conversations : \A k \in DOMAIN m[d] :
           \/ k \in DOMAIN moltnet[d] /\ m[d][k] = moltnet[d][k]
           \/ d = c /\ m[d][k] = message
  BY <1>1, <1>2, <1>4, PostedIs
<1>6. \A q \in MessagePlaces : TargetOf(Events[q]) \in Conversations /\ Events[q].id # NoEvent
  BY PlacesAre, DeliveryAssumption DEF NoEvent, MessagePlaces
<1>7. \A q \in MessagePlaces : LiesIn(m, q) <=> Lies(q)
  BY <1>3, <1>5, <1>6 DEF Lies, LiesIn
<1>8. OwnIn(m)
  BY <1>3, <1>5 DEF DeliveryInv, MoltnetInv, OwnIn
<1>9. \A q \in MessagePlaces : Lies(q)' <=> Lies(q)
  BY <1>4, <1>7 DEF Lies, LiesIn
<1>10. DeliveryTyped'
  BY <1>1, <1>4, <1>5 DEF DeliveryInv, DeliveryTyped
<1>11. ResultsInv'
  BY <1>9, <1>1 DEF DeliveryInv, ResultsInv, Before
<1>12. MoltnetInv'
  BY <1>9, <1>4, <1>8 DEF DeliveryInv, MoltnetInv, OwnIn
<1> QED BY <1>10, <1>11, <1>12 DEF DeliveryInv

\* Every step of the world's posts.
LEMMA DeliveryNextKeeps ==
  ASSUME DeliveryInv, DeliveryNext
  PROVE  DeliveryInv'
<1>1. ASSUME NEW c \in Conversations, Speak(c) PROVE DeliveryInv'
  BY <1>1, SpeakStep
<1> QED BY <1>1, StartDeliveryStep, SkipStep, AcceptedStep, FailedStep, DeliveredStep
        DEF DeliveryNext

\* The messages of a run, by number: the i-th stands at a place with i - 1 before it.
LEMMA WorldMessagesAre ==
  /\ DOMAIN WorldMessages = 1..Cardinality(MessagePlaces)
  /\ Len(WorldMessages) = Cardinality(MessagePlaces)
  /\ \A i \in DOMAIN WorldMessages : \E q \in MessagePlaces :
       WorldMessages[i] = Events[q] /\ NumberOf(q) = i /\ q = Ordered(MessagePlaces)[i]
  /\ \A q \in MessagePlaces : NumberOf(q) \in DOMAIN WorldMessages /\ WorldMessages[NumberOf(q)] = Events[q]
  /\ \A i, j \in DOMAIN WorldMessages :
       i < j => Ordered(MessagePlaces)[i] < Ordered(MessagePlaces)[j]
<1> DEFINE S == MessagePlaces
           n == Cardinality(S)
<1>1. /\ S \in SUBSET Nat /\ IsFiniteSet(S)
  BY PlacesAre
<1>2. /\ n \in Nat
      /\ \A i \in 1..n : Ordered(S)[i] \in S /\ Cardinality({m \in S : m < Ordered(S)[i]}) = i - 1
      /\ \A q \in S : /\ Cardinality({m \in S : m < q}) + 1 \in 1..n
                      /\ Ordered(S)[Cardinality({m \in S : m < q}) + 1] = q
      /\ \A i, j \in 1..n : i < j => Ordered(S)[i] < Ordered(S)[j]
  <2> HIDE DEF S
  <2> QED BY <1>1, OrderedIs DEF n
<1>3. DOMAIN WorldMessages = 1..n /\ Len(WorldMessages) = n
      /\ \A i \in 1..n : WorldMessages[i] = Events[Ordered(S)[i]]
  <2>1. WorldMessages = [i \in 1..n |-> Events[Ordered(S)[i]]]
    BY DEF WorldMessages
  <2> HIDE DEF n, S
  <2> QED BY <1>2, <2>1
<1>4. \A q : Cardinality({m \in S : m < q}) = Cardinality(Before(q))
  BY DEF Before
<1> HIDE DEF n, S
<1>5. ASSUME NEW i \in 1..n
      PROVE  \E q \in S : WorldMessages[i] = Events[q] /\ NumberOf(q) = i /\ q = Ordered(S)[i]
  <2>1. NumberOf(Ordered(S)[i]) = (i - 1) + 1
    BY <1>2, <1>4 DEF NumberOf
  <2>2. (i - 1) + 1 = i
    BY <1>2
  <2> QED BY <1>2, <1>3, <2>1, <2>2
<1>6. ASSUME NEW q \in S
      PROVE  NumberOf(q) \in 1..n /\ WorldMessages[NumberOf(q)] = Events[q]
  BY <1>2, <1>3, <1>4 DEF NumberOf
<1> QED BY <1>2, <1>3, <1>5, <1>6 DEF n, S

\* The results are of the first messages of the run.
LEMMA ResultsAre ==
  ASSUME DeliveryInv
  PROVE  /\ delivery.results \in Seq(Results)
         /\ \A i \in DOMAIN delivery.results : i \in DOMAIN WorldMessages /\
              \E q \in Before(delivery.at) : WorldMessages[i] = Events[q] /\ NumberOf(q) = i
<1> DEFINE p == delivery.at
           n == Len(delivery.results)
<1>1. /\ delivery.results \in Seq(Results) /\ DOMAIN delivery.results = 1..n /\ n \in Nat
      /\ n = Cardinality(Before(p)) /\ p \in Nat
  BY PlacesAre, LenProperties DEF DeliveryInv, DeliveryTyped, ResultsInv
<1>2. n <= Cardinality(MessagePlaces) /\ Cardinality(MessagePlaces) \in Nat
  BY <1>1, PlacesAre, FS_Subset, FS_CardinalityType
<1> HIDE DEF n, p
<1>3. ASSUME NEW i \in 1..n
      PROVE  i \in DOMAIN WorldMessages /\
             \E q \in Before(p) : WorldMessages[i] = Events[q] /\ NumberOf(q) = i
  <2>1. i \in DOMAIN WorldMessages
    BY <1>1, <1>2, WorldMessagesAre
  <2>2. PICK q \in MessagePlaces : WorldMessages[i] = Events[q] /\ NumberOf(q) = i
    BY <2>1, WorldMessagesAre
  <2>3. q \in Nat
    BY PlacesAre
  <2>4. q < p
    <3>1. SUFFICES ASSUME ~(q < p) PROVE FALSE
      OBVIOUS
    <3>2. Before(p) \subseteq Before(q)
      <4> SUFFICES ASSUME NEW k \in MessagePlaces, k < p PROVE k < q
        BY DEF Before
      <4>1. k \in Nat
        BY PlacesAre
      <4> QED BY <1>1, <2>3, <3>1, <4>1
    <3>3. Cardinality(Before(p)) <= Cardinality(Before(q)) /\ Cardinality(Before(q)) \in Nat
      BY PlacesAre, <3>2, FS_Subset
    <3> DEFINE a == Cardinality(Before(q))
    <3>4. a \in Nat /\ n <= a /\ a + 1 = i
      BY <1>1, <2>2, <3>3 DEF NumberOf
    <3> HIDE DEF a
    <3> QED BY <1>1, <3>4
  <2>5. q \in Before(p)
    BY <2>4 DEF Before
  <2> QED BY <2>1, <2>2, <2>5
<1> QED BY <1>1, <1>3 DEF p, n

\* A page that has room for a conversation holds all of it, and never anything else.
LEMMA NewestIs ==
  ASSUME NEW s \in Seq(Posted)
  PROVE  /\ \A x \in ToSet(Newest(s)) : \E k \in DOMAIN s : s[k] = x
         /\ Len(s) <= Limit => \A k \in DOMAIN s : s[k] \in ToSet(Newest(s))
<1> DEFINE n == Len(s)
           from == IF n > Limit THEN n - Limit + 1 ELSE 1
           t == SubSeq(s, from, n)
<1>1. n \in Nat /\ DOMAIN s = 1..n /\ Limit \in Nat
  BY LenProperties, DeliveryAssumption
<1>2. from \in Nat \ {0} /\ (n <= Limit => from = 1)
  <2> HIDE DEF n
  <2> QED BY <1>1
<1>3. Newest(s) = t
  BY DEF Newest
<1>4. /\ DOMAIN t = 1..(IF from <= n THEN n - from + 1 ELSE 0)
      /\ \A i \in DOMAIN t : t[i] = s[from + i - 1] /\ from + i - 1 \in 1..n
  <2> HIDE DEF from, n
  <2>1. n \in Int /\ from \in Int /\ from > 0 /\ \A i \in from..n : s[i] \in Posted
    BY <1>1, <1>2
  <2>2. /\ SubSeq(s, from, n) \in Seq(Posted)
        /\ Len(SubSeq(s, from, n)) = IF from <= n THEN n - from + 1 ELSE 0
        /\ \A i \in 1..(n - from + 1) : SubSeq(s, from, n)[i] = s[from + i - 1]
    BY ONLY <2>1, SubSeqProperties
  <2>3. DOMAIN t = 1..Len(t)
    BY <2>2, LenProperties
  <2> HIDE DEF t
  <2>4. DOMAIN t = 1..(IF from <= n THEN n - from + 1 ELSE 0)
    BY <2>2, <2>3 DEF t
  <2>5. \A i \in 1..(IF from <= n THEN n - from + 1 ELSE 0) :
          i \in 1..(n - from + 1) /\ from + i - 1 \in 1..n
    BY <2>1
  <2> QED BY <2>2, <2>4, <2>5 DEF t
<1> HIDE DEF n, t, from
<1>5. \A x \in ToSet(t) : \E i \in DOMAIN t : t[i] = x
  BY DEF ToSet
<1>6. \A i \in DOMAIN t : t[i] \in ToSet(t)
  BY DEF ToSet
<1>7. \A x \in ToSet(Newest(s)) : \E k \in DOMAIN s : s[k] = x
  BY <1>1, <1>3, <1>4, <1>5
<1>8. ASSUME n <= Limit, NEW k \in 1..n PROVE s[k] \in ToSet(Newest(s))
  BY <1>1, <1>2, <1>4, <1>8, <1>3, <1>6
<1> QED BY <1>1, <1>7, <1>8 DEF n

\* What the invariant says to the world's agents.
LEMMA DeliveryIsHonest ==
  ASSUME DeliveryInv
  PROVE  DeliveryHonest
<1> DEFINE message(i) == WorldMessages[i]
           lies(e) == \E k \in DOMAIN moltnet[TargetOf(e)] :
                        moltnet[TargetOf(e)][k].event = e.id
           results == delivery.results
<1>1. \A q \in MessagePlaces : Lies(q) <=> lies(Events[q])
  BY DEF Lies, LiesIn
<1>2. /\ \A q \in Before(delivery.at) :
           /\ q \in MessagePlaces /\ lies(Events[q])
           /\ results[NumberOf(q)].event = Events[q].id
  <2> SUFFICES ASSUME NEW q \in Before(delivery.at)
               PROVE  /\ q \in MessagePlaces /\ lies(Events[q])
                      /\ results[NumberOf(q)].event = Events[q].id
    OBVIOUS
  <2>1. q \in MessagePlaces
    BY DEF Before
  <2>2. Lies(q) /\ results[NumberOf(q)] = [event |-> Events[q].id, request |-> RequestFor(Events[q])]
    BY DEF DeliveryInv, ResultsInv
  <2> HIDE DEF results, lies
  <2>3. results[NumberOf(q)].event = Events[q].id
    BY <2>2
  <2> QED BY <1>1, <2>1, <2>2, <2>3
<1>3. /\ \A i, j \in MessagePlaces : i < j /\ lies(Events[j]) => lies(Events[i])
      /\ OwnIn(moltnet) /\ moltnet \in [Conversations -> Seq(Posted)]
  BY <1>1 DEF DeliveryInv, DeliveryTyped, MoltnetInv
<1>4. \A i \in DOMAIN results : /\ i \in DOMAIN WorldMessages
                                /\ results[i].event = message(i).id /\ lies(message(i))
  BY <1>2, ResultsAre
<1>5. delivery.state = "delivered" => Len(results) = Len(WorldMessages)
  <2> SUFFICES ASSUME delivery.state = "delivered" PROVE Len(results) = Len(WorldMessages)
    OBVIOUS
  <2>1. delivery.at = Len(Events) + 1
    BY DEF DeliveryInv, ResultsInv
  <2>2. \A q \in MessagePlaces : q < Len(Events) + 1
    BY PlacesAre
  <2>3. Before(delivery.at) = MessagePlaces
    BY <2>1, <2>2 DEF Before
  <2> QED BY <2>3, WorldMessagesAre DEF DeliveryInv, ResultsInv
<1>6. \A i, j \in DOMAIN WorldMessages : i < j /\ lies(message(j)) => lies(message(i))
  <2> SUFFICES ASSUME NEW i \in DOMAIN WorldMessages, NEW j \in DOMAIN WorldMessages,
                      i < j, lies(message(j))
               PROVE  lies(message(i))
    OBVIOUS
  <2> HIDE DEF lies
  <2> DEFINE p == Ordered(MessagePlaces)[i]
             q == Ordered(MessagePlaces)[j]
  <2>1. /\ p \in MessagePlaces /\ q \in MessagePlaces /\ p < q
        /\ WorldMessages[i] = Events[p] /\ WorldMessages[j] = Events[q]
    BY WorldMessagesAre
  <2> QED BY <1>3, <2>1
<1>7. \A entry \in Transcript : \E i \in DOMAIN WorldMessages :
        message(i).id = entry.event /\ TargetOf(message(i)) = entry.target
  <2> SUFFICES ASSUME NEW entry \in Transcript
               PROVE  \E i \in DOMAIN WorldMessages :
                        WorldMessages[i].id = entry.event
                        /\ TargetOf(WorldMessages[i]) = entry.target
    OBVIOUS
  <2>1. PICK c \in Targets : \E x \in ToSet(Newest(moltnet[c])) :
          x.event # NoEvent /\ entry = [event |-> x.event, target |-> c]
    BY DEF Transcript
  <2>2. PICK x \in ToSet(Newest(moltnet[c])) :
          x.event # NoEvent /\ entry = [event |-> x.event, target |-> c]
    BY <2>1
  <2>3. c \in Conversations
    <3>1. PICK i \in DOMAIN WorldMessages : c = RequestFor(WorldMessages[i]).target
      BY DEF Targets
    <3>2. PICK q \in MessagePlaces : WorldMessages[i] = Events[q]
      BY WorldMessagesAre
    <3> QED BY <3>1, <3>2, PlacesAre DEF RequestFor
  <2>4. PICK k \in DOMAIN moltnet[c] : moltnet[c][k] = x
    BY <1>3, <2>3, NewestIs
  <2>5. PICK q \in MessagePlaces : Events[q].id = x.event /\ TargetOf(Events[q]) = c
    BY <1>3, <2>2, <2>3, <2>4 DEF OwnIn
  <2> QED BY <2>2, <2>5, WorldMessagesAre
<1>8. \A i \in DOMAIN results :
        Len(moltnet[TargetOf(message(i))]) <= Limit =>
          [event |-> message(i).id, target |-> TargetOf(message(i))] \in Transcript
  <2> SUFFICES ASSUME NEW i \in DOMAIN results, Len(moltnet[TargetOf(message(i))]) <= Limit
               PROVE  [event |-> message(i).id, target |-> TargetOf(message(i))] \in Transcript
    OBVIOUS
  <2> DEFINE c == TargetOf(WorldMessages[i])
  <2>1. i \in DOMAIN WorldMessages /\ lies(WorldMessages[i])
    BY <1>4
  <2>2. PICK q \in MessagePlaces : WorldMessages[i] = Events[q]
    BY <2>1, WorldMessagesAre
  <2>3. PICK k \in DOMAIN moltnet[c] : moltnet[c][k].event = WorldMessages[i].id
    BY <2>1
  <2>4. c \in Conversations /\ WorldMessages[i].id # NoEvent
    BY <2>2, PlacesAre, DeliveryAssumption DEF MessagePlaces, NoEvent
  <2>5. c \in Targets
    BY <2>1 DEF Targets, RequestFor
  <2>6. Len(moltnet[c]) <= Limit
    OBVIOUS
  <2> HIDE DEF c
  <2>7. moltnet[c][k] \in ToSet(Newest(moltnet[c]))
    BY <1>3, <2>4, <2>6, NewestIs
  <2>8. [event |-> WorldMessages[i].id, target |-> c] \in Transcript
    BY <2>3, <2>4, <2>5, <2>7 DEF Transcript
  <2> QED BY <2>8 DEF c
<1> QED BY <1>4, <1>5, <1>6, <1>7, <1>8 DEF DeliveryHonest

------------------------------------------------------------------------------
\* What world and machine tell each other over Moltnet is honest, for every set of
\* correlations, every limit on the requests that are active, every sequence of events
\* with identities of their own, every limit of a page, and however often posts fail and
\* deliveries are started again (client.ts, world-participant.ts, transcript-export.ts).
THEOREM MessagesHonestAlways == MessagesSpec => []MessagesHonest
<1> DEFINE Both == MachineInv /\ DeliveryInv
<1>1. MessagesInit => Both
  BY MachineInitGood, DeliveryInitGood DEF MessagesInit
<1>2. Both /\ [MessagesNext]_<<machineVars, deliveryVars>> => Both'
  <2> SUFFICES ASSUME MachineInv, DeliveryInv, [MessagesNext]_<<machineVars, deliveryVars>>
               PROVE  MachineInv' /\ DeliveryInv'
    OBVIOUS
  <2>1. ASSUME UNCHANGED machineVars PROVE MachineInv'
    BY <2>1 DEF machineVars, Client, MachineInv
  <2>2. ASSUME UNCHANGED deliveryVars PROVE DeliveryInv'
    BY <2>2 DEF deliveryVars, DeliveryInv, DeliveryTyped, ResultsInv, MoltnetInv, OwnIn,
       Lies, LiesIn, MessagePlaces
  <2>3. CASE MachineNext /\ UNCHANGED deliveryVars
    BY <2>2, <2>3, MachineNextKeeps
  <2>4. CASE DeliveryNext /\ UNCHANGED machineVars
    BY <2>1, <2>4, DeliveryNextKeeps
  <2>5. CASE UNCHANGED <<machineVars, deliveryVars>>
    BY <2>1, <2>2, <2>5
  <2> QED BY <2>3, <2>4, <2>5 DEF MessagesNext
<1>3. Both => MessagesHonest
  BY MachineIsHonest, DeliveryIsHonest DEF MessagesHonest
<1> QED BY <1>1, <1>2, <1>3, PTL DEF MessagesSpec

(* A set of natural numbers that is not empty has a smallest element. *)
LEMMA SmallestExists ==
  ASSUME NEW T, T \subseteq Nat, T # {}
  PROVE  \E x \in T : \A y \in T : x <= y
<1> DEFINE R == {p \in Nat \X Nat : p[1] < p[2]}
<1>1. IsWellFoundedOn(R, Nat)
  BY NatLessThanWellFounded DEF OpToRel
<1>2. \E x \in T : \A y \in T : ~ (<<y, x>> \in R)
  <2> HIDE DEF R
  <2> QED BY <1>1, WFMin
<1>3. \A x, y \in Nat : y < x => <<y, x>> \in R
  OBVIOUS
<1>4. \A x, y \in Nat : y < x \/ x <= y
  OBVIOUS
<1> HIDE DEF R
<1> QED BY <1>2, <1>3, <1>4

Panels == {"none", "map", "conversation"}
Stages == {"start", "opening", "streaming", "fetching", "refreshing", "loaded", "failed"}

\* No two places of a list have the same.
NoRepeats(s) == \A i, j \in DOMAIN s : s[i] = s[j] => i = j

StoreFields == {"timeline", "cursor", "playing", "speed", "selection", "panel", "portals"}

ShellTypes ==
  /\ recording \in [record : Runs, frames : Nat, sealed : BOOLEAN]
  /\ recording.frames <= Len(recording.record.samples)
  /\ page \in [stage : Stages, error : BOOLEAN, applied : BOOLEAN]
  /\ DOMAIN store = StoreFields
  /\ store.cursor \in Nat /\ store.playing \in BOOLEAN /\ store.speed \in Nat \ {0}
  /\ store.panel \in Panels /\ store.portals \in Seq(STRING)
  /\ address.panel \in Panels /\ address.portals \in Seq(STRING)
  /\ mirror \in BOOLEAN
  /\ pacer \in [on : BOOLEAN, anchor : Nat, total : Nat, written : Nat]
  /\ DOMAIN story = {"kept", "touched", "troubles", "touches", "reloads"}
  /\ story.touched \in BOOLEAN

\* What the page has been told of the run.
TimelineTold ==
  \/ store.timeline = NoTimeline /\ ~page.applied /\ store = EmptyStore
       /\ page.stage \in {"start", "fetching", "failed"}
  \/ /\ page.applied /\ store.panel # "none"
     /\ page.stage \in {"opening", "streaming", "refreshing", "failed"}
     /\ \E k \in 0..recording.frames : store.timeline = LiveTimeline(k)
  \/ /\ page.applied /\ store.panel # "none" /\ recording.sealed
     /\ page.stage = "loaded"
     /\ store.timeline = SealedTimeline(recording.record)

ViewHeld ==
  /\ page.stage \in {"fetching", "refreshing"} => recording.sealed
  /\ page.error <=> page.stage = "failed"
  /\ page.stage \in {"start", "fetching"} => ~mirror
  /\ store.cursor <= MaxCursor(store.timeline)
  /\ NoRepeats(store.portals)
  /\ Loaded /\ ~mirror
       => <<address.at, address.sel, address.portals, address.panel>> = View(store)
  /\ ~story.touched => ~store.playing
  /\ ~story.touched /\ page.stage \in {"opening", "streaming"}
       => store.cursor = MaxCursor(store.timeline)

\* What the page showed when it was reloaded can be shown again.
Showable(view) ==
  /\ \E c \in 0..MaxCursor(SealedTimeline(recording.record)) :
       view[1] = IdAt(SealedTimeline(recording.record), c)
  /\ NoRepeats(view[3]) /\ view[4] # "none"

KeptHeld ==
  \A view \in story.kept :
    /\ recording.sealed /\ page.stage \in {"start", "fetching", "loaded", "failed"}
    /\ page.stage \in {"start", "fetching"}
         => /\ Showable(view)
            /\ view = <<address.at, address.sel, address.portals, address.panel>>
    /\ page.stage = "loaded" /\ ~story.touched => View(store) = view

ClockHeld ==
  LET tl == store.timeline
      r  == recording.record
  IN  /\ pacer.on =>
           /\ ScrubBarShown /\ store.playing
           /\ pacer.anchor <= MaxCursor(tl) /\ pacer.written < MaxCursor(tl)
           /\ pacer.written = CursorAtElapsed(tl, r, store.speed, pacer.anchor, pacer.total)
           /\ mapTick = TickAtElapsed(tl, r, store.speed, pacer.anchor, pacer.total)
      /\ ScrubBarShown /\ ~store.playing => mapTick = TickAtCursor(tl, r, store.cursor)

ShellInv == ShellTypes /\ TimelineTold /\ ViewHeld /\ KeptHeld /\ ClockHeld

-----------------------------------------------------------------------------
\* Products of natural numbers.
LEMMA TimesNat == \A a, b \in Nat : a * b \in Nat
OBVIOUS

\* A product of two that are not zero is not zero.
LEMMA TimesPositive == \A a, b \in Nat \ {0} : a * b \in Nat \ {0}
OBVIOUS

\* A product grows with its first factor.
LEMMA TimesLe == \A a, b, c \in Nat : a <= b => a * c <= b * c
OBVIOUS

\* A product grows with its first factor when the second is not zero.
LEMMA TimesLt == \A a, b \in Nat, c \in Nat \ {0} : a < b <=> a * c < b * c
OBVIOUS

\* A product of a difference.
LEMMA TimesMinus == \A a, b, c \in Nat : a * c = b * c + (a - b) * c
OBVIOUS

\* A quotient is the whole part of a fraction.
LEMMA DivIs ==
  \A a \in Nat, d \in Nat \ {0} :
    a \div d \in Nat /\ d * (a \div d) <= a /\ a < d * (a \div d) + d
OBVIOUS

\* Numbers of which none is larger than the next are sorted.
LEMMA SortedIs ==
  ASSUME NEW n \in Nat, NEW f \in [1..n -> Nat], \A i \in 1..(n - 1) : f[i] <= f[i + 1]
  PROVE  \A i, j \in 1..n : i <= j => f[i] <= f[j]
<1> SUFFICES ASSUME NEW i \in 1..n, NEW k \in 1..n, i <= k, ~(f[i] <= f[k]) PROVE FALSE
  OBVIOUS
<1> DEFINE T == {j \in 1..n : i <= j /\ ~(f[i] <= f[j])}
<1>1. T \subseteq Nat /\ T # {}
  <2>1. k \in T
    OBVIOUS
  <2>2. T \subseteq 1..n /\ 1..n \subseteq Nat
    OBVIOUS
  <2> HIDE DEF T
  <2> QED BY <2>1, <2>2
<1>2. PICK j \in T : \A m \in T : j <= m
  <2> HIDE DEF T
  <2> QED BY <1>1, SmallestExists
<1>3. j # i /\ j \in 2..n /\ j - 1 \in 1..(n - 1) /\ i <= j - 1 /\ j - 1 \in 1..n
  OBVIOUS
<1>4. f[i] <= f[j - 1]
  BY <1>2, <1>3
<1>5. f[j - 1] <= f[j]
  BY <1>3
<1>6. f[i] \in Nat /\ f[j] \in Nat /\ f[j - 1] \in Nat /\ ~(f[i] <= f[j])
  BY <1>3
<1> QED BY <1>4, <1>5, <1>6

\* Of sorted numbers, those that are not larger than another come first.
LEMMA FirstOnes ==
  ASSUME NEW n \in Nat, NEW f \in [1..n -> Nat], \A i, j \in 1..n : i <= j => f[i] <= f[j],
         NEW d \in Nat, NEW x \in Nat, NEW a \in 1..n, f[a] * d <= x
  PROVE  \E k \in a..n : /\ Cardinality({i \in 1..n : f[i] * d <= x}) = k
                         /\ f[k] * d <= x
                         /\ k < n => x < f[k + 1] * d
<1> DEFINE S == {i \in 1..n : f[i] * d <= x}
           T == {i \in 1..n : ~(f[i] * d <= x)}
<1>1. \A i \in 1..n : f[i] * d \in Nat
  BY TimesNat
<1>2. \A i, j \in 1..n : i <= j => f[i] * d <= f[j] * d
  BY TimesLe
<1>3. CASE T = {}
  <2>1. S = 1..n /\ n \in a..n
    BY <1>3
  <2>2. Cardinality(1..n) = n
    BY FS_Interval
  <2>3. f[n] * d <= x
    <3>1. n \in S
      <4> HIDE DEF S
      <4> QED BY <2>1
    <3> QED BY <3>1
  <2>4. Cardinality(S) = n
    BY <2>1, <2>2
  <2>5. Cardinality(S) = n /\ f[n] * d <= x /\ (n < n => x < f[n + 1] * d)
    BY <2>3, <2>4
  <2> HIDE DEF S
  <2> QED BY <2>1, <2>5 DEF S
<1>4. CASE T # {}
  <2>1. PICK m \in T : \A i \in T : m <= i
    <3>1. T \subseteq Nat
      OBVIOUS
    <3> HIDE DEF T
    <3> QED BY <1>4, <3>1, SmallestExists
  <2>2. m \in 1..n /\ ~(f[m] * d <= x) /\ a < m
    BY <1>2, <1>1
  <2>3. \A i \in 1..n : i \in S <=> i < m
    <3> SUFFICES ASSUME NEW i \in 1..n PROVE i \in S <=> i < m
      OBVIOUS
    <3>1. CASE i < m
      BY <2>1, <3>1
    <3>2. CASE ~(i < m)
      <4>1. f[m] * d <= f[i] * d
        BY <1>2, <2>2, <3>2
      <4>2. f[m] * d \in Nat /\ f[i] * d \in Nat
        BY <1>1
      <4> QED BY <2>2, <3>2, <4>1, <4>2
    <3> QED BY <3>1, <3>2
  <2>4. S = 1..(m - 1)
    <3>1. m \in 1..n /\ S \subseteq 1..n
      OBVIOUS
    <3> HIDE DEF S, T
    <3>2. \A i : i \in S <=> i \in 1..n /\ i < m
      BY <2>3, <3>1
    <3>3. \A i : i \in 1..n /\ i < m <=> i \in 1..(m - 1)
      BY <3>1
    <3> QED BY <3>2, <3>3
  <2>5. m - 1 \in Nat /\ Cardinality(1..(m - 1)) = m - 1
    BY <2>2, FS_Interval
  <2>6. m - 1 \in a..n /\ (m - 1) + 1 = m /\ m - 1 \in S
    <3> HIDE DEF S, T
    <3> QED BY <2>2, <2>4
  <2>7. x < f[m] * d
    BY <1>1, <2>2
  <2>8. f[m - 1] * d <= x
    BY <2>6
  <2>9. Cardinality(S) = m - 1
    BY <2>4, <2>5
  <2> HIDE DEF S
  <2> QED BY <2>6, <2>7, <2>8, <2>9 DEF S
<1> QED BY <1>3, <1>4

-----------------------------------------------------------------------------
\* What is kept of a list, in its order: each of the places once.
LEMMA AtPlacesIs ==
  ASSUME NEW s \in Seq(STRING), NEW T \in SUBSET DOMAIN s
  PROVE  /\ AtPlaces(s, T) \in Seq(STRING)
         /\ (\A p, q \in T : s[p] = s[q] => p = q) => NoRepeats(AtPlaces(s, T))
         /\ T = DOMAIN s => AtPlaces(s, T) = s
<1> DEFINE n == Cardinality(T)
           o == Ordered(T)
           kept == AtPlaces(s, T)
<1>1. T \in SUBSET Nat /\ IsFiniteSet(T)
  <2>1. DOMAIN s = 1..Len(s) /\ Len(s) \in Nat
    BY SeqDef
  <2>2. IsFiniteSet(1..Len(s))
    BY <2>1, FS_Interval
  <2> QED BY <2>1, <2>2, FS_Subset
<1>2. /\ n \in Nat
      /\ \A i \in 1..n : o[i] \in T
      /\ \A p \in T : /\ Cardinality({m \in T : m < p}) + 1 \in 1..n
                      /\ o[Cardinality({m \in T : m < p}) + 1] = p
      /\ \A i, j \in 1..n : i < j => o[i] < o[j]
  BY <1>1, OrderedIs
<1>3. kept = [i \in 1..n |-> s[o[i]]]
  BY DEF AtPlaces, Ordered
<1>4. kept \in Seq(STRING)
  <2>1. \A i \in 1..n : s[o[i]] \in STRING
    BY <1>2
  <2> HIDE DEF n, o, kept
  <2> QED BY <1>2, <1>3, <2>1
<1>5. ASSUME \A p, q \in T : s[p] = s[q] => p = q
      PROVE  NoRepeats(kept)
  <2> SUFFICES ASSUME NEW i \in 1..n, NEW j \in 1..n, kept[i] = kept[j] PROVE i = j
    BY <1>2, <1>3 DEF NoRepeats
  <2>1. s[o[i]] = s[o[j]]
    BY <1>3
  <2>2. o[i] = o[j] /\ o[i] \in Nat
    BY <1>1, <1>2, <1>5, <2>1
  <2> HIDE DEF n, o
  <2>3. ~(o[i] < o[j]) /\ ~(o[j] < o[i])
    BY <2>2
  <2> QED BY <1>2, <2>3
<1>6. ASSUME T = DOMAIN s
      PROVE  kept = s
  <2>1. T = 1..Len(s) /\ Len(s) \in Nat
    BY <1>6
  <2>2. n = Len(s)
    <3>1. \A k \in Nat : Cardinality(1..k) = k
      BY FS_Interval
    <3> QED BY <2>1, <3>1
  <2>3. ASSUME NEW i \in 1..Len(s)
        PROVE  o[i] = i
    <3>1. {m \in T : m < i} = 1..(i - 1)
      BY <2>1
    <3>2. Cardinality(1..(i - 1)) = i - 1
      BY <2>1, FS_Interval
    <3>3. i - 1 + 1 = i
      BY <2>1
    <3> QED BY <1>2, <2>1, <3>1, <3>2, <3>3
  <2>4. kept = [i \in 1..Len(s) |-> s[i]]
    BY <1>3, <2>2, <2>3
  <2> QED BY <2>4
<1> QED BY <1>4, <1>5, <1>6

\* A list without a repetition is kept as it is.
LEMMA OnceIs ==
  ASSUME NEW s \in Seq(STRING)
  PROVE  Once(s) \in Seq(STRING) /\ NoRepeats(Once(s)) /\ (NoRepeats(s) => Once(s) = s)
<1> DEFINE T == {i \in DOMAIN s : \A j \in 1..(i - 1) : s[j] # s[i]}
<1>1. DOMAIN s = 1..Len(s) /\ Len(s) \in Nat
  BY SeqDef
<1>2. T \in SUBSET DOMAIN s
  OBVIOUS
<1>3. \A p, q \in T : s[p] = s[q] => p = q
  <2> SUFFICES ASSUME NEW p \in T, NEW q \in T, s[p] = s[q], p < q \/ q < p PROVE FALSE
    BY <1>1
  <2>1. p \in 1..(q - 1) \/ q \in 1..(p - 1)
    BY <1>1
  <2> QED BY <2>1
<1>4. NoRepeats(s) => T = DOMAIN s
  <2> SUFFICES ASSUME NoRepeats(s), NEW i \in DOMAIN s, NEW j \in 1..(i - 1) PROVE s[j] # s[i]
    OBVIOUS
  <2>1. j \in DOMAIN s /\ j # i
    BY <1>1
  <2> QED BY <2>1 DEF NoRepeats
<1>5. Once(s) = AtPlaces(s, T)
  BY DEF Once
<1> HIDE DEF T
<1> QED BY <1>2, <1>3, <1>4, <1>5, AtPlacesIs

-----------------------------------------------------------------------------
\* A timeline a run can have: of some of its frames, or of its record.
Timelined(tl, r) ==
  \/ \E k \in 0..Len(r.samples) : tl = LiveTimeline(k)
  \/ tl = SealedTimeline(r)

\* What a timeline's samples and times are.
LEMMA TimelineIs ==
  ASSUME ShellAssumption, NEW r \in Runs, NEW tl, Timelined(tl, r)
  PROVE  /\ tl = [kind |-> tl.kind, size |-> tl.size]
         /\ tl.size \in Nat /\ tl.kind \in {"live", "event", "sample"} /\ MaxCursor(tl) \in Nat
         /\ Span(tl, r) \in Seq(Nat) /\ TimesOf(tl, r) \in [1..tl.size -> Nat]
         /\ r.samples \in Seq(Nat) /\ r.unit \in Nat
         /\ \A i, j \in 1..Len(r.samples) : i <= j => r.samples[i] <= r.samples[j]
         /\ tl.kind = "sample" => Span(tl, r) = r.samples /\ tl.size = Len(r.samples)
<1>1. /\ r.times \in Seq(Nat) /\ r.samples \in Seq(Nat) /\ r.unit \in Nat
      /\ \A i, j \in 1..Len(r.samples) : i < j => r.samples[i] < r.samples[j]
  BY DEF ShellAssumption
<1>2. Len(r.samples) \in Nat /\ Len(r.times) \in Nat /\ DOMAIN r.times = 1..Len(r.times)
      /\ \A i \in 1..Len(r.samples) : r.samples[i] \in Nat
  BY <1>1
<1>3. \A i, j \in 1..Len(r.samples) : i <= j => r.samples[i] <= r.samples[j]
  <2> SUFFICES ASSUME NEW i \in 1..Len(r.samples), NEW j \in 1..Len(r.samples), i <= j
               PROVE  r.samples[i] <= r.samples[j]
    OBVIOUS
  <2>1. i < j \/ i = j
    BY <1>2
  <2>2. r.samples[i] \in Nat /\ r.samples[j] \in Nat
    BY <1>2
  <2>3. CASE i < j
    BY <1>1, <2>3, <2>2
  <2>4. CASE i = j
    BY <2>2, <2>4
  <2> QED BY <2>1, <2>3, <2>4
<1>4. CASE \E k \in 0..Len(r.samples) : tl = LiveTimeline(k)
  <2>1. PICK k \in 0..Len(r.samples) : tl = [kind |-> "live", size |-> k]
    BY <1>4 DEF LiveTimeline
  <2>2. k \in Nat /\ tl.kind = "live" /\ tl.size = k
    BY <1>2, <2>1
  <2>3. SubSeq(r.samples, 1, k) \in Seq(Nat)
    BY <1>1, <1>2, SubSeqProperties
  <2>4. TimesOf(tl, r) = [i \in 1..k |-> 0]
    BY <2>2 DEF TimesOf
  <2> QED BY <1>1, <1>3, <2>1, <2>2, <2>3, <2>4 DEF Span, MaxCursor
<1>5. CASE tl = [kind |-> "sample", size |-> Len(r.samples)]
  BY <1>5, <1>1, <1>2, <1>3 DEF TimesOf, Span, MaxCursor
<1>6. CASE tl = [kind |-> "event", size |-> Len(r.times)]
  BY <1>6, <1>1, <1>2, <1>3 DEF TimesOf, Span, MaxCursor
<1> QED BY <1>4, <1>5, <1>6 DEF Timelined, SealedTimeline

\* A clock that is trusted never goes back.
LEMMA IndexIs ==
  ASSUME ShellAssumption, NEW r \in Runs, NEW tl, Timelined(tl, r), Indexed(tl, r)
  PROVE  /\ tl.size \in Nat \ {0} /\ MaxCursor(tl) = tl.size - 1 /\ r.unit \in Nat \ {0}
         /\ \A i \in 1..tl.size : IndexTimes(tl, r)[i] \in Nat
         /\ \A i, j \in 1..tl.size : i <= j => IndexTimes(tl, r)[i] <= IndexTimes(tl, r)[j]
         /\ tl.kind = "sample"
              => IndexTimes(tl, r)[tl.size] = IndexTimes(tl, r)[1] + Duration(tl, r)
<1> DEFINE index == IndexTimes(tl, r)
           span == Span(tl, r)
           times == TimesOf(tl, r)
           n == tl.size
<1>1. /\ n \in Nat /\ tl.kind \in {"live", "event", "sample"} /\ span \in Seq(Nat)
      /\ times \in [1..n -> Nat] /\ r.samples \in Seq(Nat) /\ r.unit \in Nat
      /\ \A i, j \in 1..Len(r.samples) : i <= j => r.samples[i] <= r.samples[j]
      /\ tl.kind = "sample" => span = r.samples /\ n = Len(r.samples)
  BY TimelineIs
<1>2. DeclaredTiming(tl, r) /\ n > 0
  BY DEF Indexed
<1>3. /\ n \in Nat \ {0} /\ MaxCursor(tl) = n - 1 /\ r.unit \in Nat \ {0}
      /\ span # <<>> /\ span[Len(span)] >= span[1] + 1
  BY <1>1, <1>2 DEF DeclaredTiming, MaxCursor
<1>4. CASE tl.kind = "sample"
  <2>1. index = [i \in 1..n |-> r.samples[i] * r.unit]
    BY <1>4 DEF IndexTimes
  <2>2. \A i \in 1..n : r.samples[i] \in Nat
    BY <1>1, <1>4
  <2>3. \A i \in 1..n : index[i] = r.samples[i] * r.unit /\ index[i] \in Nat
    <3> SUFFICES ASSUME NEW i \in 1..n PROVE index[i] = r.samples[i] * r.unit /\ index[i] \in Nat
      OBVIOUS
    <3>1. index[i] = r.samples[i] * r.unit
      BY <2>1
    <3>2. r.samples[i] * r.unit \in Nat
      BY <1>3, <2>2, TimesNat
    <3> QED BY <3>1, <3>2
  <2>4. ASSUME NEW i \in 1..n, NEW j \in 1..n, i <= j
        PROVE  index[i] <= index[j]
    <3>1. r.samples[i] <= r.samples[j]
      BY <1>1, <1>4, <2>4
    <3>2. r.samples[i] * r.unit <= r.samples[j] * r.unit
      BY <1>3, <2>2, <3>1, TimesLe
    <3> QED BY <2>3, <3>2
  <2>5. index[n] = index[1] + Duration(tl, r)
    <3>1. Duration(tl, r) = (r.samples[n] - r.samples[1]) * r.unit
      BY <1>1, <1>4 DEF Duration
    <3>2. 1 \in 1..n /\ n \in 1..n
      BY <1>3
    <3>3. r.samples[n] \in Nat /\ r.samples[1] \in Nat
      BY <2>2, <3>2
    <3>4. r.samples[n] * r.unit = r.samples[1] * r.unit + (r.samples[n] - r.samples[1]) * r.unit
      BY <1>3, <3>3, TimesMinus, ZenonT(60)
    <3> QED BY <2>3, <3>1, <3>2, <3>4
  <2> HIDE DEF index, n
  <2> QED BY <1>3, <2>3, <2>4, <2>5 DEF index, n
<1>5. CASE tl.kind # "sample"
  <2>1. /\ RealTime(tl, r)
        /\ \A i \in 1..(n - 1) : times[i] <= times[i + 1]
    BY <1>5 DEF Indexed
  <2>2. \A i, j \in 1..n : i <= j => times[i] <= times[j]
    <3> HIDE DEF times, n
    <3> QED BY <1>1, <1>3, <2>1, SortedIs
  <2>3. index = [i \in 1..n |-> span[1] * r.unit + times[i] - times[1]]
    BY <1>5 DEF IndexTimes
  <2>4. span[1] \in Nat
    BY <1>1, <1>3
  <2>5. PICK b \in Nat : b = span[1] * r.unit
    BY <1>3, <2>4, TimesNat
  <2>6. 1 \in 1..n /\ times[1] \in Nat /\ \A i \in 1..n : times[i] \in Nat /\ times[1] <= times[i]
    <3> HIDE DEF times, n
    <3> QED BY <1>1, <1>3, <2>2
  <2>7. \A i \in 1..n : index[i] = b + times[i] - times[1]
    BY <2>3, <2>5
  <2> HIDE DEF index, times
  <2>8. \A i \in 1..n : index[i] \in Nat
    BY <2>6, <2>7
  <2>9. \A i, j \in 1..n : i <= j => index[i] <= index[j]
    <3> SUFFICES ASSUME NEW i \in 1..n, NEW j \in 1..n, i <= j PROVE index[i] <= index[j]
      OBVIOUS
    <3>1. times[i] \in Nat /\ times[j] \in Nat /\ times[i] <= times[j]
      BY <2>2, <2>6
    <3>2. index[i] = b + times[i] - times[1] /\ index[j] = b + times[j] - times[1]
      BY <2>7
    <3> QED BY <2>6, <3>1, <3>2
  <2> QED BY <1>3, <1>5, <2>8, <2>9 DEF index
<1> QED BY <1>4, <1>5

\* The time axis that is declared takes some time.
LEMMA DurationIs ==
  ASSUME ShellAssumption, NEW r \in Runs, NEW tl, Timelined(tl, r), DeclaredTiming(tl, r)
  PROVE  Duration(tl, r) \in Nat \ {0}
<1>1. Span(tl, r) \in Seq(Nat) /\ r.unit \in Nat
  BY TimelineIs
<1>2. PICK span : span = Span(tl, r)
  OBVIOUS
<1>3. r.unit \in Nat \ {0} /\ span # <<>> /\ span[Len(span)] >= span[1] + 1
  BY <1>1, <1>2 DEF DeclaredTiming
<1>4. span[1] \in Nat /\ span[Len(span)] \in Nat
  BY <1>1, <1>2, <1>3
<1>5. span[Len(span)] - span[1] \in Nat \ {0}
  BY <1>3, <1>4
<1>6. Duration(tl, r) = (span[Len(span)] - span[1]) * r.unit
  BY <1>2 DEF Duration
<1> QED BY <1>3, <1>5, <1>6, TimesPositive

\* The pace of the cursor, and of the clock.
LEMMA RateIs ==
  ASSUME ShellAssumption, NEW r \in Runs, NEW tl, Timelined(tl, r), NEW speed \in Nat \ {0}
  PROVE  Rate(tl, r, speed)[1] \in Nat /\ Rate(tl, r, speed)[2] \in Nat \ {0}
<1>1. Second \in Nat \ {0} /\ tl.size \in Nat
  BY TimelineIs DEF ShellAssumption
<1>2. CASE RealTime(tl, r)
  <2>1. Duration(tl, r) \in Nat \ {0} /\ tl.size - 1 \in Nat
    BY <1>1, <1>2, DurationIs DEF RealTime
  <2>2. (tl.size - 1) * speed \in Nat
    BY <2>1, TimesNat
  <2>3. Rate(tl, r, speed) = <<(tl.size - 1) * speed, Duration(tl, r)>>
    BY <1>2 DEF Rate
  <2> QED BY <2>1, <2>2, <2>3
<1>3. CASE ~RealTime(tl, r)
  BY <1>1, <1>3 DEF Rate
<1> QED BY <1>2, <1>3

\* The pace of a trusted clock.
LEMMA PaceIs ==
  ASSUME ShellAssumption, NEW r \in Runs, NEW tl, Timelined(tl, r), Indexed(tl, r),
         NEW speed \in Nat \ {0}
  PROVE  IndexSpeed(tl, r, speed)[1] \in Nat /\ IndexSpeed(tl, r, speed)[2] \in Nat
<1>1. Second \in Nat \ {0} /\ tl.size \in Nat \ {0}
  BY IndexIs DEF ShellAssumption
<1>2. CASE tl.kind = "sample" /\ ~RealTime(tl, r)
  <2>1. Duration(tl, r) \in Nat \ {0} /\ tl.size - 1 \in Nat
    BY <1>1, DurationIs DEF Indexed
  <2>2. speed * Duration(tl, r) \in Nat /\ Second * (tl.size - 1) \in Nat
    BY <1>1, <2>1, TimesNat
  <2>3. IndexSpeed(tl, r, speed) = <<speed * Duration(tl, r), Second * (tl.size - 1)>>
    BY <1>2 DEF IndexSpeed
  <2> QED BY <2>2, <2>3
<1>3. CASE ~(tl.kind = "sample" /\ ~RealTime(tl, r))
  BY <1>3 DEF IndexSpeed
<1> QED BY <1>2, <1>3

-----------------------------------------------------------------------------
\* Where the clock stands when the cursor has been played for a while.
LEMMA ClockIs ==
  ASSUME ShellAssumption, NEW r \in Runs, NEW tl, Timelined(tl, r), Indexed(tl, r),
         NEW speed \in Nat \ {0}, NEW anchor \in 0..MaxCursor(tl), NEW total \in Nat
  PROVE  LET now == Clock(tl, r, speed, anchor, total)
         IN  /\ now[1] \in Nat /\ now[2] \in Nat /\ now[2] = IndexSpeed(tl, r, speed)[2]
             /\ now[1] = IndexTimes(tl, r)[anchor + 1] * now[2]
                           + total * IndexSpeed(tl, r, speed)[1]
             /\ anchor + 1 \in 1..tl.size
             /\ IndexTimes(tl, r)[anchor + 1] * now[2] <= now[1]
<1>1. PICK pace : pace = IndexSpeed(tl, r, speed)
  OBVIOUS
<1>2. PICK index : index = IndexTimes(tl, r)
  OBVIOUS
<1>3. pace[1] \in Nat /\ pace[2] \in Nat
  BY <1>1, PaceIs
<1>4. /\ tl.size \in Nat \ {0} /\ MaxCursor(tl) = tl.size - 1
      /\ \A i \in 1..tl.size : index[i] \in Nat
  BY <1>2, IndexIs
<1>5. anchor + 1 \in 1..tl.size
  BY <1>4
<1>6. index[anchor + 1] * pace[2] \in Nat /\ total * pace[1] \in Nat
  BY <1>3, <1>4, <1>5, TimesNat
<1>7. Clock(tl, r, speed, anchor, total)
        = <<index[anchor + 1] * pace[2] + total * pace[1], pace[2]>>
  BY <1>1, <1>2 DEF Clock
<1> QED BY <1>1, <1>2, <1>3, <1>5, <1>6, <1>7

\* The cursor is moved on along the trusted clock, to the last event it has come to.
LEMMA CursorOnClock ==
  ASSUME ShellAssumption, NEW r \in Runs, NEW tl, Timelined(tl, r), Indexed(tl, r),
         NEW speed \in Nat \ {0}, NEW anchor \in 0..MaxCursor(tl), NEW total \in Nat
  PROVE  LET now   == Clock(tl, r, speed, anchor, total)
             index == IndexTimes(tl, r)
             c     == CursorAtElapsed(tl, r, speed, anchor, total)
         IN  /\ c \in anchor..MaxCursor(tl)
             /\ index[c + 1] * now[2] <= now[1]
             /\ c < MaxCursor(tl) /\ total > 0 => now[1] < index[c + 2] * now[2]
<1>1. PICK now : now = Clock(tl, r, speed, anchor, total)
  OBVIOUS
<1>2. PICK index : index = IndexTimes(tl, r)
  OBVIOUS
<1>3. PICK n : n = tl.size
  OBVIOUS
<1>4. PICK c : c = CursorAtElapsed(tl, r, speed, anchor, total)
  OBVIOUS
<1>5. /\ now[1] \in Nat /\ now[2] \in Nat /\ anchor + 1 \in 1..n
      /\ index[anchor + 1] * now[2] <= now[1]
  BY <1>1, <1>2, <1>3, ClockIs
<1>6. /\ n \in Nat \ {0} /\ MaxCursor(tl) = n - 1
      /\ \A i \in 1..n : index[i] \in Nat
      /\ \A i, j \in 1..n : i <= j => index[i] <= index[j]
  BY <1>2, <1>3, IndexIs
<1>7. CASE total = 0
  BY <1>4, <1>7, <1>1, <1>2, <1>5, <1>6 DEF CursorAtElapsed
<1>8. CASE total # 0
  <2>1. PICK k \in (anchor + 1)..n :
             /\ Cardinality({i \in 1..n : index[i] * now[2] <= now[1]}) = k
             /\ index[k] * now[2] <= now[1]
             /\ k < n => now[1] < index[k + 1] * now[2]
    <3>1. PICK f \in [1..n -> Nat] : \A i \in 1..n : f[i] = index[i]
      <4>1. [i \in 1..n |-> index[i]] \in [1..n -> Nat]
        BY <1>6
      <4> QED BY <4>1
    <3>2. \A i, j \in 1..n : i <= j => f[i] <= f[j]
      BY <1>6, <3>1
    <3>3. f[anchor + 1] * now[2] <= now[1]
      BY <1>5, <3>1
    <3>4. \E k \in (anchor + 1)..n :
             /\ Cardinality({i \in 1..n : f[i] * now[2] <= now[1]}) = k
             /\ f[k] * now[2] <= now[1]
             /\ k < n => now[1] < f[k + 1] * now[2]
      BY <1>5, <1>6, <3>2, <3>3, FirstOnes
    <3>5. PICK k \in (anchor + 1)..n :
             /\ Cardinality({i \in 1..n : f[i] * now[2] <= now[1]}) = k
             /\ f[k] * now[2] <= now[1]
             /\ k < n => now[1] < f[k + 1] * now[2]
      BY <3>4
    <3>6. {i \in 1..n : f[i] * now[2] <= now[1]} = {i \in 1..n : index[i] * now[2] <= now[1]}
      BY <3>1
    <3>7. k \in 1..n /\ (k < n => k + 1 \in 1..n)
      BY <1>5, <1>6
    <3> QED BY <3>1, <3>5, <3>6, <3>7
  <2>2. c = Larger(anchor, Smaller(n - 1, k - 1))
    BY <1>3, <2>1, <1>1, <1>2, <1>4, <1>6, <1>8 DEF CursorAtElapsed
  <2>3. c = k - 1 /\ c + 1 = k /\ c + 2 = k + 1 /\ c \in anchor..(n - 1)
    BY <1>6, <2>1, <2>2 DEF Larger, Smaller
  <2>4. c < n - 1 => k < n
    BY <1>6, <2>1, <2>3
  <2> QED BY <1>1, <1>2, <1>4, <1>6, <2>1, <2>3, <2>4
<1> QED BY <1>7, <1>8

\* A cursor that is played is never moved back, nor past the last event.
LEMMA CursorIs ==
  ASSUME ShellAssumption, NEW r \in Runs, NEW tl, Timelined(tl, r),
         NEW speed \in Nat \ {0}, NEW anchor \in 0..MaxCursor(tl), NEW total \in Nat
  PROVE  /\ CursorAtElapsed(tl, r, speed, anchor, total) \in anchor..MaxCursor(tl)
         /\ total = 0 => CursorAtElapsed(tl, r, speed, anchor, total) = anchor
<1>1. MaxCursor(tl) \in Nat /\ anchor \in Nat
  BY TimelineIs
<1>2. CASE total = 0
  BY <1>2, <1>1 DEF CursorAtElapsed
<1>3. CASE total # 0 /\ Indexed(tl, r)
  BY <1>3, CursorOnClock
<1>4. CASE total # 0 /\ ~Indexed(tl, r)
  <2>1. PICK rate : rate = Rate(tl, r, speed)
    OBVIOUS
  <2>2. rate[1] \in Nat /\ rate[2] \in Nat \ {0}
    BY <2>1, RateIs
  <2>3. PICK q : q = (total * rate[1]) \div rate[2]
    OBVIOUS
  <2>4. q \in Nat
    BY <2>2, TimesNat, <2>3, DivIs
  <2>5. CursorAtElapsed(tl, r, speed, anchor, total)
          = Larger(anchor, Smaller(MaxCursor(tl), anchor + q))
    BY <1>4, <2>1, <2>3 DEF CursorAtElapsed
  <2> QED BY <1>1, <1>4, <2>4, <2>5 DEF Larger, Smaller
<1> QED BY <1>2, <1>3, <1>4

-----------------------------------------------------------------------------
\* A cursor at rest shows its own tick, to half a tick.
LEMMA TickAtRest ==
  ASSUME ShellAssumption, NEW r \in Runs, NEW tl, Timelined(tl, r), Indexed(tl, r),
         NEW c \in 0..MaxCursor(tl)
  PROVE  LET m == TickAtCursor(tl, r, c)
         IN  Distance(2 * m[1], 2 * IndexTimes(tl, r)[c + 1] * m[2]) <= m[2] * r.unit
<1>1. PICK x : x = IndexTimes(tl, r)[c + 1]
  OBVIOUS
<1>2. PICK u : u = r.unit
  OBVIOUS
<1>3. x \in Nat /\ u \in Nat \ {0}
  BY IndexIs, <1>1, <1>2
<1>4. PICK q : q = (2 * x + u) \div (2 * u)
  OBVIOUS
<1>5. q \in Nat /\ (2 * u) * q <= 2 * x + u /\ 2 * x + u < (2 * u) * q + 2 * u
  <2>1. 2 * x + u \in Nat /\ 2 * u \in Nat \ {0}
    BY <1>3
  <2> QED BY <1>4, <2>1, DivIs
<1>6. (2 * u) * q = 2 * (q * u) /\ q * u \in Nat
  BY <1>3, <1>5
<1>7. PICK p \in Nat : p = q * u
  BY <1>6
<1>8. TickAtCursor(tl, r, c) = <<p, 1>>
  BY <1>1, <1>2, <1>4, <1>7 DEF TickAtCursor
<1>9. Distance(2 * p, 2 * x * 1) <= 1 * u
  BY <1>3, <1>5, <1>6, <1>7 DEF Distance
<1> QED BY <1>1, <1>2, <1>8, <1>9

\* A cursor that is played shows a tick it has come to and not left.
LEMMA TickPlayed ==
  ASSUME ShellAssumption, NEW r \in Runs, NEW tl, Timelined(tl, r), Indexed(tl, r),
         NEW speed \in Nat \ {0}, NEW anchor \in 0..MaxCursor(tl), NEW total \in Nat,
         NEW c, c = CursorAtElapsed(tl, r, speed, anchor, total),
         NEW m, m = TickAtElapsed(tl, r, speed, anchor, total)
  PROVE  /\ IndexTimes(tl, r)[c + 1] * m[2] <= m[1]
         /\ c < MaxCursor(tl) /\ total > 0 => m[1] < IndexTimes(tl, r)[c + 2] * m[2]
<1>1. PICK now : now = Clock(tl, r, speed, anchor, total)
  OBVIOUS
<1>2. PICK index : index = IndexTimes(tl, r)
  OBVIOUS
<1>3. PICK n : n = tl.size
  OBVIOUS
<1>4. /\ c \in anchor..MaxCursor(tl) /\ now[1] \in Nat /\ now[2] \in Nat
      /\ index[c + 1] * now[2] <= now[1]
      /\ c < MaxCursor(tl) /\ total > 0 => now[1] < index[c + 2] * now[2]
  BY <1>1, <1>2, CursorOnClock, ClockIs
<1>5. /\ n \in Nat \ {0} /\ MaxCursor(tl) = n - 1
      /\ \A i \in 1..n : index[i] \in Nat
      /\ \A i, j \in 1..n : i <= j => index[i] <= index[j]
  BY <1>2, <1>3, IndexIs
<1>6. c + 1 \in 1..n /\ n \in 1..n /\ c + 1 <= n
  BY <1>4, <1>5
<1>7. index[c + 1] * now[2] <= index[n] * now[2]
  BY <1>4, <1>5, <1>6, TimesLe
<1>8. m = <<Smaller(now[1], index[n] * now[2]), now[2]>>
  BY <1>1, <1>2, <1>3 DEF TickAtElapsed
<1>9. PICK e \in Nat : e = index[n] * now[2]
  BY <1>4, <1>5, <1>6, TimesNat
<1>10. m[1] = Smaller(now[1], e) /\ m[2] = now[2]
  BY <1>8, <1>9
<1>11. m[1] \in Nat /\ m[1] <= now[1] /\ (m[1] = now[1] \/ m[1] = e)
  BY <1>4, <1>9, <1>10 DEF Smaller
<1>12. index[c + 1] * now[2] <= m[1]
  BY <1>4, <1>7, <1>9, <1>11
<1>13. c < MaxCursor(tl) /\ total > 0 => m[1] < index[c + 2] * now[2]
  <2> SUFFICES ASSUME c < MaxCursor(tl), total > 0 PROVE m[1] < index[c + 2] * now[2]
    OBVIOUS
  <2>1. c + 2 \in 1..n
    BY <1>4, <1>5
  <2>2. index[c + 2] * now[2] \in Nat
    BY <1>4, <1>5, <2>1, TimesNat
  <2> QED BY <1>4, <1>11, <2>2
<1> QED BY <1>2, <1>10, <1>12, <1>13

\* Played from the first event, the cursor is on its way no longer than its pace says.
LEMMA PaceKept ==
  ASSUME ShellAssumption, NEW r \in Runs, NEW tl, Timelined(tl, r),
         Indexed(tl, r) => tl.kind = "sample",
         NEW speed \in Nat \ {0}, NEW total \in Nat,
         NEW c, c = CursorAtElapsed(tl, r, speed, 0, total), c < MaxCursor(tl)
  PROVE  total * Rate(tl, r, speed)[1] < MaxCursor(tl) * Rate(tl, r, speed)[2]
<1>1. PICK rate : rate = Rate(tl, r, speed)
  OBVIOUS
<1>2. rate[1] \in Nat /\ rate[2] \in Nat \ {0}
  BY <1>1, RateIs
<1>3. PICK max : max = MaxCursor(tl)
  OBVIOUS
<1>4. max \in Nat /\ 0 \in 0..max
  BY <1>3, TimelineIs
<1>5. c \in 0..max /\ max \in Nat \ {0}
  <2>1. 0 \in 0..MaxCursor(tl)
    BY <1>3, <1>4
  <2>2. CursorAtElapsed(tl, r, speed, 0, total) \in 0..MaxCursor(tl)
    BY <2>1, CursorIs
  <2> QED BY <1>3, <1>4, <2>2
<1>6. CASE total = 0
  BY <1>2, <1>5, TimesPositive, <1>6, <1>1, <1>3
<1>7. CASE total # 0 /\ ~Indexed(tl, r)
  <2>1. PICK q : q = (total * rate[1]) \div rate[2]
    OBVIOUS
  <2>2. total * rate[1] \in Nat
    BY <1>2, TimesNat
  <2>3. q \in Nat /\ total * rate[1] < rate[2] * q + rate[2]
    BY <1>2, <2>1, <2>2, DivIs
  <2>4. c = Larger(0, Smaller(max, 0 + q))
    BY <1>1, <1>3, <1>7, <2>1 DEF CursorAtElapsed
  <2>5. q < max
    BY <1>3, <1>4, <2>3, <2>4 DEF Larger, Smaller
  <2>6. (q + 1) * rate[2] <= max * rate[2]
    <3>1. q + 1 \in Nat /\ q + 1 <= max
      BY <1>4, <2>3, <2>5
    <3> QED BY <1>2, <1>4, <3>1, TimesLe
  <2>7. (q + 1) * rate[2] = rate[2] * q + rate[2] /\ (q + 1) * rate[2] \in Nat
    BY <1>2, <2>3
  <2>8. max * rate[2] \in Nat
    BY <1>2, <1>4, TimesNat
  <2>9. total * rate[1] < (q + 1) * rate[2]
    BY <2>3, <2>7
  <2>10. total * rate[1] < max * rate[2]
    BY <2>2, <2>6, <2>7, <2>8, <2>9
  <2> QED BY <1>1, <1>3, <2>10
<1>8. CASE total # 0 /\ Indexed(tl, r)
  <2>1. PICK now : now = Clock(tl, r, speed, 0, total)
    OBVIOUS
  <2>2. PICK index : index = IndexTimes(tl, r)
    OBVIOUS
  <2>3. PICK n : n = tl.size
    OBVIOUS
  <2>4. PICK pace : pace = IndexSpeed(tl, r, speed)
    OBVIOUS
  <2>5. PICK d : d = Duration(tl, r)
    OBVIOUS
  <2>6. /\ n \in Nat \ {0} /\ max = n - 1
        /\ \A i \in 1..n : index[i] \in Nat
        /\ \A i, j \in 1..n : i <= j => index[i] <= index[j]
        /\ index[n] = index[1] + d
    BY <1>3, <1>8, <2>2, <2>3, <2>5, IndexIs
  <2>7. /\ now[1] \in Nat /\ now[2] \in Nat /\ now[2] = pace[2]
        /\ now[1] = index[1] * now[2] + total * pace[1]
    BY <1>3, <1>4, <1>8, ClockIs, <2>1, <2>2, <2>4
  <2>8. pace[1] \in Nat /\ pace[2] \in Nat
    BY <1>8, <2>4, PaceIs
  <2>9. d \in Nat \ {0}
    BY <1>8, <2>5, DurationIs DEF Indexed
  <2>10. now[1] < index[n] * now[2]
    <3>1. now[1] < index[c + 2] * now[2]
      <4>1. 0 \in 0..MaxCursor(tl) /\ c < MaxCursor(tl) /\ total > 0
        BY <1>3, <1>4, <1>8
      <4> QED BY <1>8, <2>1, <2>2, <4>1, CursorOnClock
    <3>2. c + 2 \in 1..n /\ n \in 1..n /\ c + 2 <= n
      BY <1>3, <1>5, <2>6
    <3>3. index[c + 2] * now[2] <= index[n] * now[2]
      BY <2>6, <2>7, <3>2, TimesLe
    <3>4. index[c + 2] * now[2] \in Nat /\ index[n] * now[2] \in Nat
      BY <2>6, <2>7, <3>2, TimesNat
    <3> QED BY <2>7, <3>1, <3>3, <3>4
  <2>11. total * pace[1] < d * pace[2]
    <3>1. 1 \in 1..n /\ index[1] \in Nat
      BY <2>6
    <3>2. index[n] * now[2] = index[1] * now[2] + d * now[2]
      BY <2>6, <2>7, <2>9, <3>1
    <3>3. index[1] * now[2] \in Nat /\ d * now[2] \in Nat /\ total * pace[1] \in Nat
      BY <2>7, <2>8, <2>9, <3>1, TimesNat
    <3> QED BY <2>7, <2>10, <3>2, <3>3
  <2>12. total * rate[1] < max * rate[2]
    <3>1. CASE RealTime(tl, r)
      <4>1. pace = <<speed, 1>>
        BY <2>4, <3>1 DEF IndexSpeed
      <4>2. rate = <<max * speed, d>>
        BY <1>1, <2>3, <2>5, <2>6, <3>1 DEF Rate
      <4>3. total * speed < d
        BY <2>9, <2>11, <4>1
      <4>4. (total * speed) * max < d * max
        BY TimesNat, <1>5, <2>9, <4>3, TimesLt
      <4>5. (total * speed) * max = total * (max * speed) /\ d * max = max * d
        BY <1>5, <2>9
      <4> QED BY <4>2, <4>4, <4>5
    <3>2. CASE ~RealTime(tl, r)
      <4>0. tl.kind = "sample" /\ Second \in Nat \ {0}
        BY <1>8 DEF ShellAssumption
      <4>1. pace = <<speed * d, Second * max>>
        BY <2>3, <2>4, <2>5, <2>6, <3>2, <4>0 DEF IndexSpeed
      <4>2. rate = <<speed, Second>>
        BY <1>1, <3>2 DEF Rate
      <4>3. total * (speed * d) < d * (Second * max)
        BY <2>11, <4>1
      <4>4. total * (speed * d) = (total * speed) * d /\ d * (Second * max) = (max * Second) * d
        BY <1>5, <2>9, <4>0
      <4>5. total * speed \in Nat /\ max * Second \in Nat
        BY <1>5, <4>0, TimesNat
      <4>6. total * speed < max * Second
        BY <2>9, <4>3, <4>4, <4>5, TimesLt
      <4> QED BY <4>2, <4>6
    <3> QED BY <3>1, <3>2
  <2> QED BY <1>1, <1>3, <2>12
<1> QED BY <1>6, <1>7, <1>8

-----------------------------------------------------------------------------
\* The timeline the page has is one of its run.
LEMMA ToldTimeline ==
  ASSUME ShellTypes, TimelineTold, Loaded
  PROVE  recording.record \in Runs /\ Timelined(store.timeline, recording.record)
<1>1. recording.record \in Runs /\ recording.frames \in Nat
      /\ recording.frames <= Len(recording.record.samples)
  BY DEF ShellTypes
<1>2. store.timeline # NoTimeline
  BY DEF Loaded, NoTimeline
<1>3. CASE \E k \in 0..recording.frames : store.timeline = LiveTimeline(k)
  <2>1. PICK k \in 0..recording.frames : store.timeline = LiveTimeline(k)
    BY <1>3
  <2>2. k \in 0..Len(recording.record.samples)
    BY <1>1, ShellAssumption DEF ShellAssumption
  <2> QED BY <1>1, <2>1, <2>2 DEF Timelined
<1>4. CASE store.timeline = SealedTimeline(recording.record)
  BY <1>1, <1>4 DEF Timelined
<1> QED BY <1>2, <1>3, <1>4 DEF TimelineTold

\* The invariant says all that the page promises.
LEMMA InvExact ==
  ASSUME ShellInv
  PROVE  ShellExact
<1>0. ShellTypes /\ TimelineTold /\ ViewHeld /\ KeptHeld /\ ClockHeld
  BY DEF ShellInv
<1>1. ViewIsValue
  BY <1>0 DEF ViewHeld, KeptHeld, ViewIsValue, NoRepeats
<1>2. FollowsTheEnd
  <2>1. page.stage = "streaming" /\ ~story.touched => store.cursor = MaxCursor(store.timeline)
    BY <1>0 DEF ViewHeld
  <2>2. ASSUME page.stage = "loaded", recording.record.samples # <<>>
        PROVE  store.timeline.size > 0
    <3>1. store.timeline = SealedTimeline(recording.record)
      BY <1>0, <2>2 DEF TimelineTold
    <3>2. /\ recording.record.samples \in Seq(Nat) /\ recording.record.times \in Seq(Nat)
      BY <1>0, ShellAssumption DEF ShellTypes, ShellAssumption
    <3>3. /\ Len(recording.record.samples) > 0
          /\ recording.record.times # <<>> => Len(recording.record.times) > 0
      BY <2>2, <3>2
    <3> QED BY <2>2, <3>1, <3>3 DEF SealedTimeline
  <2> QED BY <2>1, <2>2 DEF FollowsTheEnd
<1>3. OneClock
  <2> SUFFICES ASSUME ScrubBarShown
               PROVE  OneClock
    BY DEF OneClock
  <2> DEFINE tl == store.timeline
             r == recording.record
             c == store.cursor
  <2>1. r \in Runs /\ Timelined(tl, r) /\ MaxCursor(tl) \in Nat
    BY <1>0, ToldTimeline, ShellAssumption, TimelineIs DEF ScrubBarShown
  <2>2. store.speed \in Nat \ {0} /\ c \in 0..MaxCursor(tl)
    BY <1>0, <2>1 DEF ShellTypes, ViewHeld
  <2>3. ASSUME Indexed(tl, r), ~store.playing
        PROVE  Distance(2 * mapTick[1], 2 * IndexTimes(tl, r)[c + 1] * mapTick[2])
                 <= mapTick[2] * r.unit
    <3>1. mapTick = TickAtCursor(tl, r, c)
      BY <1>0, <2>3 DEF ClockHeld
    <3> HIDE DEF tl, r, c
    <3> QED BY <2>1, <2>2, <2>3, <3>1, ShellAssumption, TickAtRest
  <2>4. ASSUME pacer.on
        PROVE  /\ pacer.anchor \in 0..MaxCursor(tl) /\ pacer.total \in Nat
               /\ pacer.written = CursorAtElapsed(tl, r, store.speed, pacer.anchor, pacer.total)
               /\ pacer.written < MaxCursor(tl)
               /\ mapTick = TickAtElapsed(tl, r, store.speed, pacer.anchor, pacer.total)
    BY <1>0, <2>1, <2>4 DEF ClockHeld, ShellTypes
  <2>5. ASSUME Indexed(tl, r), pacer.on, pacer.written = c
        PROVE  /\ IndexTimes(tl, r)[c + 1] * mapTick[2] <= mapTick[1]
               /\ c < MaxCursor(tl) /\ pacer.total > 0
                    => mapTick[1] < IndexTimes(tl, r)[c + 2] * mapTick[2]
    <3> HIDE DEF tl, r, c
    <3> QED BY <2>1, <2>2, <2>4, <2>5, ShellAssumption, TickPlayed
  <2>6. ASSUME pacer.on, pacer.anchor = 0, pacer.written = c, Indexed(tl, r) => tl.kind = "sample"
        PROVE  pacer.total * Rate(tl, r, store.speed)[1] < MaxCursor(tl) * Rate(tl, r, store.speed)[2]
    <3> HIDE DEF tl, r, c
    <3> QED BY <2>1, <2>2, <2>4, <2>6, ShellAssumption, PaceKept
  <2> QED BY <2>3, <2>5, <2>6 DEF OneClock
<1> QED BY <1>1, <1>2, <1>3 DEF ShellExact

-----------------------------------------------------------------------------
\* A store with another timeline is taken to its first event.
LEMMA WithTimelineIs ==
  ASSUME NEW s, DOMAIN s = StoreFields, NEW tl
  PROVE  LET z == WithTimeline(s, tl)
         IN  /\ DOMAIN z = StoreFields /\ z.timeline = tl /\ z.cursor = 0
             /\ z.playing = s.playing /\ z.speed = s.speed /\ z.selection = s.selection
             /\ z.panel = s.panel /\ z.portals = s.portals
BY DEF WithTimeline, StoreFields

\* The store a page begins with.
LEMMA EmptyIs ==
  /\ DOMAIN EmptyStore = StoreFields /\ EmptyStore.timeline = NoTimeline
  /\ EmptyStore.cursor = 0 /\ EmptyStore.playing \in BOOLEAN /\ ~EmptyStore.playing
  /\ EmptyStore.speed \in Nat \ {0} /\ EmptyStore.selection = "none"
  /\ EmptyStore.panel = "none" /\ EmptyStore.portals = <<>>
<1>1. /\ DOMAIN EmptyStore = StoreFields /\ EmptyStore.timeline = NoTimeline
      /\ EmptyStore.cursor = 0 /\ EmptyStore.speed = 1 /\ EmptyStore.selection = "none"
      /\ EmptyStore.panel = "none" /\ EmptyStore.portals = <<>>
  BY DEF EmptyStore, StoreFields
<1>2. EmptyStore.playing \in BOOLEAN /\ ~EmptyStore.playing
  BY DEF EmptyStore
<1> QED BY <1>1, <1>2

\* The store of a page that was opened at a link, with its first timeline.
Opened(tl, link, r) == Restored(WithTimeline(EmptyStore, tl), link, r)

Shows(z, tl, link) ==
  /\ DOMAIN z = StoreFields /\ z.timeline = tl /\ z.playing \in BOOLEAN /\ ~z.playing
  /\ z.speed \in Nat \ {0} /\ z.selection = link.sel
  /\ z.cursor \in Nat /\ z.cursor <= MaxCursor(tl)
  /\ z.panel \in Panels \ {"none"} /\ (link.panel # "none" => z.panel = link.panel)
  /\ z.portals \in Seq(STRING) /\ NoRepeats(z.portals)
  /\ NoRepeats(link.portals) => z.portals = link.portals
  /\ \A c \in 0..MaxCursor(tl) : link.at = IdAt(tl, c) => IdAt(tl, z.cursor) = link.at

\* A page that is opened is taken to what its link names.
LEMMA RestoredIs ==
  ASSUME ShellAssumption, NEW r \in Runs, NEW tl, Timelined(tl, r),
         NEW link, link.portals \in Seq(STRING), link.panel \in Panels
  PROVE  Shows(Opened(tl, link, r), tl, link)
<1>0. PICK z : z = Opened(tl, link, r)
  OBVIOUS
<1>1. PICK hits : hits = {t \in 0..MaxCursor(tl) : IdAt(tl, t) = link.at}
  OBVIOUS
<1>2. PICK cursor : cursor = IF link.at = NoId \/ hits = {} THEN 0 ELSE CHOOSE t \in hits : TRUE
  OBVIOUS
<1>3. PICK panel : panel = IF link.panel # "none" THEN link.panel ELSE DefaultPanel(tl, r)
  OBVIOUS
<1>4. PICK portals : portals = IF link.portals = <<>> THEN <<>> ELSE Once(link.portals)
  OBVIOUS
<1>5. PICK s : s = WithTimeline(EmptyStore, tl)
  OBVIOUS
<1>6. /\ DOMAIN z = StoreFields /\ z.timeline = tl /\ z.playing \in BOOLEAN /\ ~z.playing
      /\ z.speed \in Nat \ {0} /\ z.selection = link.sel /\ z.cursor = cursor /\ z.panel = panel /\ z.portals = portals
  <2>1. /\ DOMAIN s = StoreFields /\ s.timeline = tl /\ s.cursor = 0
        /\ s.playing \in BOOLEAN /\ ~s.playing /\ s.speed \in Nat \ {0}
        /\ s.selection = "none" /\ s.panel = "none" /\ s.portals = <<>>
    BY <1>5, WithTimelineIs, EmptyIs
  <2>2. PICK sel : sel = IF link.sel = "none" THEN s.selection ELSE link.sel
    OBVIOUS
  <2>3. sel = link.sel
    BY <2>1, <2>2
  <2>4. z = [s EXCEPT !.cursor = cursor, !.selection = sel, !.portals = portals, !.panel = panel]
    BY <1>1, <1>2, <1>3, <1>4, <1>5, <1>0, <2>1, <2>2 DEF Restored, Opened
  <2> QED BY <2>1, <2>3, <2>4 DEF StoreFields
<1>7. MaxCursor(tl) \in Nat /\ tl.size \in Nat
  BY TimelineIs
<1>8. cursor \in 0..MaxCursor(tl)
  BY <1>1, <1>2, <1>7
<1>9. panel \in Panels \ {"none"} /\ (link.panel # "none" => panel = link.panel)
  BY <1>3 DEF DefaultPanel, Panels
<1>10. /\ portals \in Seq(STRING) /\ NoRepeats(portals)
       /\ NoRepeats(link.portals) => portals = link.portals
  <2>1. CASE link.portals = <<>>
    BY <1>4, <2>1 DEF NoRepeats
  <2>2. CASE link.portals # <<>>
    BY <1>4, <2>2, OnceIs
  <2> QED BY <2>1, <2>2
<1>11. ASSUME NEW c \in 0..MaxCursor(tl), link.at = IdAt(tl, c)
       PROVE  IdAt(tl, cursor) = link.at
  <2>1. CASE tl.size = 0
    BY <1>8, <2>1, <1>11 DEF MaxCursor
  <2>2. CASE tl.size # 0
    <3>1. c < tl.size /\ c + 1 # 0
      BY <1>7, <2>2 DEF MaxCursor
    <3>2. link.at # NoId
      BY <1>11, <3>1 DEF IdAt, NoId
    <3>3. c \in hits
      BY <1>1, <1>11
    <3>4. cursor \in hits
      BY <1>2, <3>2, <3>3
    <3> QED BY <1>1, <3>4
  <2> QED BY <2>1, <2>2
<1>12. cursor \in Nat /\ cursor <= MaxCursor(tl)
  BY <1>7, <1>8
<1> QED BY <1>0, <1>6, <1>9, <1>10, <1>11, <1>12 DEF Shows

\* Whoever sets the store keeps the map and the scrub bar right.
LEMMA PutClock ==
  ASSUME ShellTypes, ClockHeld, NEW s, NEW error \in BOOLEAN, s.playing \in BOOLEAN,
         Put(s, error), page'.error = error, recording'.record = recording.record
  PROVE  /\ ClockHeld' /\ store' = s /\ mirror' = TRUE
         /\ pacer' \in [on : BOOLEAN, anchor : Nat, total : Nat, written : Nat]
<1>1. PICK bar : bar = (s.timeline.kind # "none" /\ ~error)
  OBVIOUS
<1>2. PICK same : same = (/\ bar /\ ScrubBarShown /\ s.playing = store.playing
                          /\ s.speed = store.speed /\ s.timeline = store.timeline
                          /\ s.selection = store.selection)
  OBVIOUS
<1>3. /\ store' = s /\ mirror' = TRUE
      /\ pacer' = IF same THEN pacer ELSE NotPacing
      /\ mapTick' = IF bar /\ ~s.playing
                    THEN TickAtCursor(s.timeline, recording.record, s.cursor) ELSE mapTick
  BY <1>1, <1>2 DEF Put
<1>4. ScrubBarShown' <=> bar
  BY <1>1, <1>3 DEF ScrubBarShown, Loaded
<1>5. pacer' \in [on : BOOLEAN, anchor : Nat, total : Nat, written : Nat]
  BY <1>3 DEF ShellTypes, NotPacing
<1>6. ASSUME pacer'.on
      PROVE  /\ ScrubBarShown' /\ s.playing
             /\ pacer'.anchor <= MaxCursor(s.timeline)
             /\ pacer'.written < MaxCursor(s.timeline)
             /\ pacer'.written = CursorAtElapsed(s.timeline, recording.record, s.speed,
                                                 pacer'.anchor, pacer'.total)
             /\ mapTick' = TickAtElapsed(s.timeline, recording.record, s.speed,
                                         pacer'.anchor, pacer'.total)
  BY <1>3, <1>6, <1>2, <1>4 DEF NotPacing, ClockHeld
<1>7. ScrubBarShown' /\ ~s.playing
        => mapTick' = TickAtCursor(s.timeline, recording.record, s.cursor)
  BY <1>3, <1>4
<1>8. ClockHeld'
  BY <1>3, <1>6, <1>7 DEF ClockHeld
<1> QED BY <1>3, <1>5, <1>8

\* Whoever leaves the store alone leaves them right.
LEMMA StillClock ==
  ASSUME ClockHeld, UNCHANGED <<store, pacer, mapTick>>, page'.error = page.error,
         recording'.record = recording.record
  PROVE  ClockHeld'
<1>1. ScrubBarShown' <=> ScrubBarShown
  BY DEF ScrubBarShown, Loaded
<1>2. store' = store /\ pacer' = pacer /\ mapTick' = mapTick
  OBVIOUS
<1> QED BY <1>1, <1>2 DEF ClockHeld

-----------------------------------------------------------------------------
\* What the user does keeps the invariant.
LEMMA TouchKeeps ==
  ASSUME ShellInv, NEW s, Touch(s), DOMAIN s = StoreFields, s.timeline = store.timeline,
         s.cursor \in Nat, s.cursor <= MaxCursor(s.timeline), s.playing \in BOOLEAN,
         s.speed \in Nat \ {0}, s.panel \in Panels \ {"none"},
         s.portals \in Seq(STRING), NoRepeats(s.portals)
  PROVE  ShellInv'
<1>0. ShellTypes /\ TimelineTold /\ ViewHeld /\ KeptHeld /\ ClockHeld
  BY DEF ShellInv
<1>1. /\ ScrubBarShown /\ Put(s, FALSE) /\ UNCHANGED <<recording, page, address>>
      /\ story' = [story EXCEPT !.touches = @ - 1, !.touched = TRUE]
  BY DEF Touch
<1>2. Loaded /\ page.error = FALSE
  BY <1>0, <1>1 DEF ScrubBarShown, ShellTypes
<1>3. /\ ClockHeld' /\ store' = s /\ mirror' = TRUE
      /\ pacer' \in [on : BOOLEAN, anchor : Nat, total : Nat, written : Nat]
  BY <1>1, <1>2, <1>0, PutClock
<1>4. /\ DOMAIN story' = {"kept", "touched", "troubles", "touches", "reloads"}
      /\ story'.touched = TRUE /\ story'.kept = story.kept
  BY <1>0, <1>1 DEF ShellTypes
<1>5. ShellTypes'
  BY <1>0, <1>1, <1>3, <1>4 DEF ShellTypes
<1>6. TimelineTold'
  BY <1>0, <1>1, <1>2, <1>3 DEF TimelineTold, Loaded, NoTimeline
<1>7. ViewHeld'
  BY <1>0, <1>2, <1>1, <1>3, <1>4 DEF TimelineTold, Loaded, NoTimeline,
     LiveTimeline, ViewHeld
<1>8. KeptHeld'
  BY <1>0, <1>1, <1>2, <1>3, <1>4 DEF KeptHeld, TimelineTold, Showable, Loaded, NoTimeline
<1> QED BY <1>3, <1>5, <1>6, <1>7, <1>8 DEF ShellInv

\* A store that was set keeps what it was not set to.
LEMMA StoreIs ==
  ASSUME ShellInv, Loaded
  PROVE  /\ DOMAIN store = StoreFields /\ store.cursor \in Nat
         /\ store.cursor <= MaxCursor(store.timeline) /\ store.playing \in BOOLEAN
         /\ store.speed \in Nat \ {0}
         /\ store.panel \in Panels \ {"none"} /\ store.portals \in Seq(STRING)
         /\ NoRepeats(store.portals) /\ MaxCursor(store.timeline) \in Nat
<1>1. /\ recording.record \in Runs /\ Timelined(store.timeline, recording.record)
  BY ToldTimeline DEF ShellInv
<1>2. MaxCursor(store.timeline) \in Nat
  BY <1>1, ShellAssumption, TimelineIs
<1>3. store.timeline # NoTimeline
  BY DEF Loaded, NoTimeline
<1>4. store.panel # "none"
  BY <1>3 DEF ShellInv, TimelineTold
<1> QED BY <1>2, <1>4 DEF ShellInv, ShellTypes, ViewHeld

\* The slider and the jumps.
LEMMA MoveCursorKeeps == ShellInv /\ MoveCursor => ShellInv'
<1> SUFFICES ASSUME ShellInv, MoveCursor PROVE ShellInv'
  OBVIOUS
<1>1. PICK t \in 0..MaxCursor(store.timeline) : Touch([store EXCEPT !.cursor = t])
  BY DEF MoveCursor
<1>2. PICK s : s = [store EXCEPT !.cursor = t]
  OBVIOUS
<1>3. Loaded
  BY <1>1 DEF Touch, ScrubBarShown
<1>4. Touch(s)
  BY <1>1, <1>2
<1>5. /\ DOMAIN s = StoreFields /\ s.timeline = store.timeline /\ s.cursor = t
      /\ s.playing = store.playing /\ s.speed = store.speed /\ s.selection = store.selection
      /\ s.panel = store.panel /\ s.portals = store.portals
  BY <1>2, <1>3, StoreIs DEF StoreFields
<1>6. s.cursor \in Nat /\ s.cursor <= MaxCursor(s.timeline)
  BY <1>3, <1>5, StoreIs
<1> QED BY <1>3, <1>4, <1>5, <1>6, StoreIs, TouchKeeps

\* The play button.
LEMMA TogglePlayKeeps == ShellInv /\ TogglePlay => ShellInv'
<1> SUFFICES ASSUME ShellInv, TogglePlay PROVE ShellInv'
  OBVIOUS
<1>2. PICK s : s = [store EXCEPT !.playing = ~@]
  OBVIOUS
<1>3. Loaded
  BY DEF TogglePlay, Touch, ScrubBarShown
<1>4. Touch(s)
  BY <1>2 DEF TogglePlay
<1>5. /\ DOMAIN s = StoreFields /\ s.timeline = store.timeline /\ s.cursor = store.cursor
      /\ s.playing \in BOOLEAN /\ s.speed = store.speed /\ s.selection = store.selection
      /\ s.panel = store.panel /\ s.portals = store.portals
  BY <1>2, <1>3, StoreIs DEF StoreFields
<1> QED BY <1>3, <1>4, <1>5, StoreIs, TouchKeeps

\* The choice of a speed.
LEMMA ChooseSpeedKeeps == ShellInv /\ ChooseSpeed => ShellInv'
<1> SUFFICES ASSUME ShellInv, ChooseSpeed PROVE ShellInv'
  OBVIOUS
<1>1. PICK speed \in PlaySpeeds : Touch([store EXCEPT !.speed = speed])
  BY DEF ChooseSpeed
<1>2. PICK s : s = [store EXCEPT !.speed = speed]
  OBVIOUS
<1>3. Loaded
  BY <1>1 DEF Touch, ScrubBarShown
<1>4. Touch(s) /\ speed \in Nat \ {0}
  BY <1>1, <1>2, ShellAssumption DEF ShellAssumption
<1>5. /\ DOMAIN s = StoreFields /\ s.timeline = store.timeline /\ s.cursor = store.cursor
      /\ s.playing = store.playing /\ s.speed = speed /\ s.selection = store.selection
      /\ s.panel = store.panel /\ s.portals = store.portals
  BY <1>2, <1>3, StoreIs DEF StoreFields
<1> QED BY <1>3, <1>4, <1>5, StoreIs, TouchKeeps

\* What appending one name to a sequence of names makes of it.
LEMMA AppendedOne ==
  \A q \in Seq(STRING), e \in STRING :
     /\ Append(q, e) \in Seq(STRING) /\ Len(Append(q, e)) = Len(q) + 1
     /\ \A i \in 1..Len(q) : Append(q, e)[i] = q[i]
     /\ Append(q, e)[Len(q) + 1] = e
<1> SUFFICES ASSUME NEW q \in Seq(STRING), NEW e \in STRING
             PROVE  /\ Append(q, e) \in Seq(STRING) /\ Len(Append(q, e)) = Len(q) + 1
                    /\ \A i \in 1..Len(q) : Append(q, e)[i] = q[i]
                    /\ Append(q, e)[Len(q) + 1] = e
  OBVIOUS
<1>1. Append(q, e) \in Seq(STRING)
  BY AppendProperties
<1>2. Len(Append(q, e)) = Len(q) + 1
  OBVIOUS
<1>3. \A i \in 1..Len(q) : Append(q, e)[i] = q[i]
  OBVIOUS
<1>4. Append(q, e)[Len(q) + 1] = e
  BY AppendProperties
<1> QED BY <1>1, <1>2, <1>3, <1>4

\* The choice of an element.
LEMMA FocusKeeps == ShellInv /\ Focus => ShellInv'
<1> SUFFICES ASSUME ShellInv, Focus PROVE ShellInv'
  OBVIOUS
<1>1. PICK ref \in Refs :
        Touch([store EXCEPT !.selection = ref,
             !.portals = IF \E i \in DOMAIN @ : @[i] = ref THEN @ ELSE Append(@, ref)])
  BY DEF Focus
<1>2. PICK portals : portals = IF \E i \in DOMAIN store.portals : store.portals[i] = ref
                               THEN store.portals ELSE Append(store.portals, ref)
  OBVIOUS
<1>3. Loaded /\ ref \in STRING
  BY <1>1, ShellAssumption DEF Touch, ScrubBarShown, ShellAssumption
<1>4. PICK s : s = [store EXCEPT !.selection = ref, !.portals = portals]
  OBVIOUS
<1>5. /\ DOMAIN s = StoreFields /\ s.timeline = store.timeline /\ s.cursor = store.cursor
      /\ s.playing = store.playing /\ s.speed = store.speed /\ s.selection = ref
      /\ s.panel = store.panel /\ s.portals = portals
  BY <1>3, <1>4, StoreIs DEF StoreFields
<1>6. Touch(s)
  BY <1>2, <1>3, <1>4, StoreIs, <1>1 DEF StoreFields
<1>7. portals \in Seq(STRING) /\ NoRepeats(portals)
  <2>1. PICK old : old = store.portals
    OBVIOUS
  <2>2. old \in Seq(STRING) /\ NoRepeats(old)
    BY <1>3, <2>1, StoreIs
  <2>3. CASE portals = old
    BY <2>2, <2>3
  <2>4. CASE portals = Append(old, ref) /\ \A i \in DOMAIN old : old[i] # ref
    <3>1. /\ portals \in Seq(STRING) /\ Len(portals) = Len(old) + 1 /\ Len(old) \in Nat
          /\ \A i \in 1..Len(old) : portals[i] = old[i]
          /\ portals[Len(old) + 1] = ref
          /\ DOMAIN portals = 1..Len(portals) /\ DOMAIN old = 1..Len(old)
      <4>1. /\ portals \in Seq(STRING) /\ Len(portals) = Len(old) + 1
            /\ \A i \in 1..Len(old) : portals[i] = old[i]
            /\ portals[Len(old) + 1] = ref
        <5>1. portals = Append(old, ref)
          BY <2>4
        <5>2. old \in Seq(STRING)
          BY <2>2
        <5>3. ref \in STRING
          BY <1>3
        <5> QED BY ONLY <5>1, <5>2, <5>3, AppendedOne, Zenon
      <4>2. DOMAIN portals = 1..Len(portals) /\ DOMAIN old = 1..Len(old) /\ Len(old) \in Nat
        BY <2>2, <4>1
      <4> QED BY <4>1, <4>2
    <3>2. ASSUME NEW i \in 1..(Len(old) + 1), NEW j \in 1..(Len(old) + 1), portals[i] = portals[j]
          PROVE  i = j
      <4>1. CASE i \in 1..Len(old) /\ j \in 1..Len(old)
        BY <2>2, <3>1, <3>2, <4>1 DEF NoRepeats
      <4>2. CASE i = Len(old) + 1 /\ j \in 1..Len(old)
        BY <2>4, <3>1, <3>2, <4>2
      <4>3. CASE i \in 1..Len(old) /\ j = Len(old) + 1
        BY <2>4, <3>1, <3>2, <4>3
      <4>4. \/ i \in 1..Len(old) /\ j \in 1..Len(old)
            \/ i = Len(old) + 1 /\ j \in 1..Len(old)
            \/ i \in 1..Len(old) /\ j = Len(old) + 1
            \/ i = j
        BY <3>1
      <4> QED BY <4>1, <4>2, <4>3, <4>4
    <3> QED BY <3>1, <3>2 DEF NoRepeats
  <2> QED BY <1>2, <2>1, <2>3, <2>4
<1> QED BY <1>3, <1>5, <1>6, <1>7, StoreIs, TouchKeeps

\* The button that closes a portal.
LEMMA ClosePortalKeeps == ShellInv /\ ClosePortal => ShellInv'
<1> SUFFICES ASSUME ShellInv, ClosePortal PROVE ShellInv'
  OBVIOUS
<1>1. PICK i \in DOMAIN store.portals :
        LET others == {j \in DOMAIN store.portals : store.portals[j] # store.portals[i]}
        IN  Touch([store EXCEPT !.portals = AtPlaces(@, others)])
  BY DEF ClosePortal
<1>2. PICK others : others = {j \in DOMAIN store.portals : store.portals[j] # store.portals[i]}
  OBVIOUS
<1>3. Loaded
  BY <1>1 DEF Touch, ScrubBarShown
<1>4. PICK s : s = [store EXCEPT !.portals = AtPlaces(store.portals, others)]
  OBVIOUS
<1>5. /\ DOMAIN s = StoreFields /\ s.timeline = store.timeline /\ s.cursor = store.cursor
      /\ s.playing = store.playing /\ s.speed = store.speed /\ s.selection = store.selection
      /\ s.panel = store.panel /\ s.portals = AtPlaces(store.portals, others)
  BY <1>3, <1>4, StoreIs DEF StoreFields
<1>6. Touch(s)
  BY <1>1, <1>2, <1>4
<1>7. s.portals \in Seq(STRING) /\ NoRepeats(s.portals)
  <2>1. PICK old : old = store.portals
    OBVIOUS
  <2>2. old \in Seq(STRING) /\ NoRepeats(old) /\ others \in SUBSET DOMAIN old
    BY <1>2, <1>3, <2>1, StoreIs
  <2>3. \A p, q \in others : old[p] = old[q] => p = q
    BY <2>2 DEF NoRepeats
  <2>4. s.portals = AtPlaces(old, others)
    BY <1>5, <2>1
  <2> QED BY <2>2, <2>3, <2>4, AtPlacesIs
<1> QED BY <1>3, <1>5, <1>6, <1>7, StoreIs, TouchKeeps

\* The choice of a panel.
LEMMA ChoosePanelKeeps == ShellInv /\ ChoosePanel => ShellInv'
<1> SUFFICES ASSUME ShellInv, ChoosePanel PROVE ShellInv'
  OBVIOUS
<1>1. PICK panel \in {"map", "conversation"} : Touch([store EXCEPT !.panel = panel])
  BY DEF ChoosePanel
<1>2. PICK s : s = [store EXCEPT !.panel = panel]
  OBVIOUS
<1>3. Loaded
  BY <1>1 DEF Touch, ScrubBarShown
<1>4. Touch(s) /\ panel \in Panels \ {"none"}
  BY <1>1, <1>2 DEF Panels
<1>5. /\ DOMAIN s = StoreFields /\ s.timeline = store.timeline /\ s.cursor = store.cursor
      /\ s.playing = store.playing /\ s.speed = store.speed /\ s.selection = store.selection
      /\ s.panel = panel /\ s.portals = store.portals
  BY <1>2, <1>3, StoreIs DEF StoreFields
<1> QED BY <1>3, <1>4, <1>5, StoreIs, TouchKeeps

-----------------------------------------------------------------------------
\* A frame that is recorded changes nothing of the page.
LEMMA RecordFrameKeeps == ShellInv /\ RecordFrame => ShellInv'
<1> SUFFICES ASSUME ShellInv, RecordFrame PROVE ShellInv'
  OBVIOUS
<1>0. ShellTypes /\ TimelineTold /\ ViewHeld /\ KeptHeld /\ ClockHeld
  BY DEF ShellInv
<1>1. UNCHANGED <<page, store, address, mirror, pacer, mapTick, story>>
  BY DEF RecordFrame
<1>2. Len(recording.record.samples) \in Nat
  BY <1>0, ShellAssumption DEF ShellTypes, ShellAssumption
<1>3. /\ recording' \in [record : Runs, frames : Nat, sealed : BOOLEAN]
      /\ recording'.record = recording.record /\ recording'.frames >= recording.frames
      /\ recording'.frames <= Len(recording.record.samples)
      /\ recording.sealed => recording'.sealed
  <2>1. /\ recording \in [record : Runs, frames : Nat, sealed : BOOLEAN]
        /\ recording.frames <= Len(recording.record.samples)
    BY <1>0 DEF ShellTypes
  <2>2. CASE /\ recording.frames < Len(recording.record.samples)
             /\ recording' = [recording EXCEPT !.frames = @ + 1]
    BY <1>2, <2>1, <2>2
  <2>3. CASE recording' = [recording EXCEPT !.sealed = TRUE]
    <3>1. /\ recording' \in [record : Runs, frames : Nat, sealed : BOOLEAN]
          /\ recording'.record = recording.record /\ recording'.frames = recording.frames
          /\ recording'.sealed = TRUE
      BY <2>1, <2>3
    <3>2. recording.frames \in Nat
      BY <2>1
    <3> QED BY <2>1, <3>1, <3>2
  <2> QED BY <2>2, <2>3 DEF RecordFrame
<1>4. ShellTypes'
  BY <1>0, <1>1, <1>3 DEF ShellTypes
<1>5. TimelineTold'
  BY <1>0, <1>3, <1>1 DEF ShellTypes, TimelineTold
<1>6. ViewHeld'
  BY <1>0, <1>1, <1>3 DEF ViewHeld, Loaded, View
<1>7. KeptHeld'
  BY <1>3, <1>1, <1>0 DEF View, Showable, KeptHeld
<1>8. ClockHeld'
  BY <1>0, <1>1, <1>3, StillClock
<1> QED BY <1>4, <1>5, <1>6, <1>7, <1>8 DEF ShellInv

\* The first timeline a page has is shown where its link says.
LEMMA FirstLoad ==
  ASSUME ShellInv, ~page.applied, page.stage \in {"start", "fetching"},
         NEW tl, NEW stage, Timelined(tl, recording.record), Load(tl, stage)
  PROVE  /\ page' = [stage |-> stage, error |-> FALSE, applied |-> TRUE]
         /\ recording'.record = recording.record => ClockHeld'
         /\ Shows(store', tl, address) /\ MaxCursor(tl) \in Nat
         /\ mirror' = TRUE
         /\ pacer' \in [on : BOOLEAN, anchor : Nat, total : Nat, written : Nat]
<1>0. ShellTypes /\ TimelineTold /\ ViewHeld /\ KeptHeld /\ ClockHeld
  BY DEF ShellInv
<1>1. store = EmptyStore
  BY <1>0 DEF TimelineTold
<1>2. PICK z : z = Opened(tl, address, recording.record)
  OBVIOUS
<1>3. Put(z, FALSE) /\ page' = [stage |-> stage, error |-> FALSE, applied |-> TRUE]
  BY <1>1, <1>2 DEF Load, Opened
<1>4. Shows(z, tl, address)
  BY <1>0, <1>2, ShellAssumption, RestoredIs DEF ShellTypes
<1>5. /\ store' = z /\ mirror' = TRUE
      /\ pacer' \in [on : BOOLEAN, anchor : Nat, total : Nat, written : Nat]
  BY <1>0, <1>3 DEF Put, ShellTypes, NotPacing
<1>6. recording'.record = recording.record => ClockHeld'
  BY <1>3, <1>4, <1>0, PutClock DEF Shows
<1>7. MaxCursor(tl) \in Nat
  BY <1>0, ShellAssumption, TimelineIs DEF ShellTypes
<1> QED BY <1>3, <1>4, <1>5, <1>6, <1>7

\* The page asks what its run is.
LEMMA FetchStateKeeps == ShellInv /\ FetchState => ShellInv'
<1> SUFFICES ASSUME ShellInv, FetchState PROVE ShellInv'
  OBVIOUS
<1>0. ShellTypes /\ TimelineTold /\ ViewHeld /\ KeptHeld /\ ClockHeld
  BY DEF ShellInv
<1>1. page.stage = "start" /\ UNCHANGED <<recording, address, story>>
  BY DEF FetchState
<1>2. store = EmptyStore /\ store.timeline = NoTimeline /\ ~page.applied
  BY <1>0, <1>1 DEF TimelineTold
<1>3. CASE recording.sealed
  <2>1. page' = [page EXCEPT !.stage = "fetching"] /\ UNCHANGED <<store, mirror, pacer, mapTick>>
    BY <1>3 DEF FetchState
  <2>2. /\ page' \in [stage : Stages, error : BOOLEAN, applied : BOOLEAN]
        /\ page'.stage = "fetching" /\ page'.error = page.error /\ page'.applied = page.applied
    BY <1>0, <2>1 DEF ShellTypes, Stages
  <2>3. ShellTypes'
    BY <1>0, <1>1, <2>1, <2>2 DEF ShellTypes
  <2>4. TimelineTold'
    BY <1>2, <2>1, <2>2 DEF TimelineTold
  <2>5. ViewHeld'
    BY <1>0, <1>1, <1>3, <2>1, <2>2 DEF ViewHeld, Loaded, View
  <2>6. KeptHeld'
    BY <1>0, <1>1, <2>1, <2>2 DEF KeptHeld, Showable, View
  <2>7. ClockHeld'
    BY <1>0, <1>1, <2>1, <2>2, StillClock
  <2> QED BY <2>3, <2>4, <2>5, <2>6, <2>7 DEF ShellInv
<1>4. CASE ~recording.sealed
  <2> DEFINE tl == LiveTimeline(0)
  <2>1. Load(tl, "opening")
    BY <1>4 DEF FetchState
  <2>2. Timelined(tl, recording.record)
    BY <1>0, ShellAssumption DEF ShellTypes, ShellAssumption, Timelined
  <2>3. MaxCursor(tl) = 0 /\ tl.size = 0
    BY DEF MaxCursor, LiveTimeline
  <2> HIDE DEF tl
  <2>4. /\ page' = [stage |-> "opening", error |-> FALSE, applied |-> TRUE]
        /\ recording'.record = recording.record => ClockHeld'
        /\ Shows(store', tl, address)
        /\ mirror' = TRUE
        /\ pacer' \in [on : BOOLEAN, anchor : Nat, total : Nat, written : Nat]
    BY <1>1, <1>2, <2>1, <2>2, FirstLoad
  <2>5. story.kept = {}
    BY <1>0, <1>4 DEF KeptHeld
  <2>6. /\ DOMAIN store' = StoreFields /\ store'.timeline = tl /\ store'.playing \in BOOLEAN
        /\ ~store'.playing /\ store'.speed \in Nat \ {0} /\ store'.selection = address.sel
        /\ store'.cursor \in Nat /\ store'.cursor = 0 /\ store'.panel \in Panels \ {"none"}
        /\ store'.portals \in Seq(STRING) /\ NoRepeats(store'.portals)
    BY <2>3, <2>4 DEF Shows
  <2>7. ShellTypes'
    BY <2>4, <1>0, <1>1, <2>6 DEF Stages, ShellTypes
  <2>8. TimelineTold'
    BY <1>0, <1>1, <2>4, <2>6 DEF ShellTypes, TimelineTold, tl
  <2>9. ViewHeld'
    BY <1>0, <1>1, <2>3, <2>4, <2>6 DEF ViewHeld
  <2>10. KeptHeld'
    BY <1>1, <2>5 DEF KeptHeld
  <2>11. ClockHeld'
    BY <1>1, <2>4
  <2> QED BY <2>7, <2>8, <2>9, <2>10, <2>11 DEF ShellInv
<1> QED BY <1>3, <1>4

\* A load that fails leaves the page as it is, without its scrub bar.
LEMMA FailureKeeps ==
  ASSUME ShellInv, page' = [page EXCEPT !.stage = "failed", !.error = TRUE],
         Put(store, TRUE), UNCHANGED <<recording, address>>,
         page.stage \in Stages \ {"loaded"},
         DOMAIN story' = DOMAIN story, story'.kept = story.kept, story'.touched = story.touched
  PROVE  ShellInv'
<1>0. ShellTypes /\ TimelineTold /\ ViewHeld /\ KeptHeld /\ ClockHeld
  BY DEF ShellInv
<1>1. /\ page' \in [stage : Stages, error : BOOLEAN, applied : BOOLEAN]
      /\ page'.stage = "failed" /\ page'.error = TRUE /\ page'.applied = page.applied
  BY <1>0 DEF ShellTypes, Stages
<1>2. /\ ClockHeld' /\ store' = store /\ mirror' = TRUE
      /\ pacer' \in [on : BOOLEAN, anchor : Nat, total : Nat, written : Nat]
  BY <1>0, <1>1, PutClock DEF ShellTypes
<1>3. ShellTypes'
  BY <1>0, <1>1, <1>2 DEF ShellTypes
<1>4. TimelineTold'
  BY <1>0, <1>1, <1>2 DEF TimelineTold
<1>5. ViewHeld'
  BY <1>0, <1>1, <1>2 DEF ViewHeld
<1>6. KeptHeld'
  BY <1>0, <1>1, <1>2 DEF KeptHeld
<1> QED BY <1>2, <1>3, <1>4, <1>5, <1>6 DEF ShellInv

\* A stream that is opened, or is no longer there.
LEMMA OpenStreamKeeps == ShellInv /\ OpenStream => ShellInv'
<1> SUFFICES ASSUME ShellInv, OpenStream PROVE ShellInv'
  OBVIOUS
<1>0. ShellTypes /\ TimelineTold /\ ViewHeld /\ KeptHeld /\ ClockHeld
  BY DEF ShellInv
<1>1. page.stage = "opening" /\ UNCHANGED <<recording, address, story>>
  BY DEF OpenStream
<1>2. CASE recording.sealed
  BY <1>2, <1>1, FailureKeeps DEF OpenStream, Stages
<1>3. CASE ~recording.sealed
  <2>1. page' = [page EXCEPT !.stage = "streaming"] /\ UNCHANGED <<store, mirror, pacer, mapTick>>
    BY <1>3 DEF OpenStream
  <2>2. /\ page' \in [stage : Stages, error : BOOLEAN, applied : BOOLEAN]
        /\ page'.stage = "streaming" /\ page'.error = page.error /\ page'.applied = page.applied
    BY <1>0, <2>1 DEF ShellTypes, Stages
  <2>3. ShellTypes'
    BY <1>0, <1>1, <2>1, <2>2 DEF ShellTypes
  <2>4. TimelineTold'
    BY <1>0, <1>1, <2>1, <2>2 DEF TimelineTold
  <2>5. ViewHeld'
    BY <1>0, <1>1, <1>3, <2>1, <2>2 DEF ViewHeld, Loaded, View
  <2>6. KeptHeld'
    BY <1>0, <1>1, <1>3 DEF KeptHeld
  <2>7. ClockHeld'
    BY <1>0, <1>1, <2>1, <2>2, StillClock
  <2> QED BY <2>3, <2>4, <2>5, <2>6, <2>7 DEF ShellInv
<1> QED BY <1>2, <1>3

\* Any other failure.
LEMMA FetchFailsKeeps == ShellInv /\ FetchFails => ShellInv'
<1> SUFFICES ASSUME ShellInv, FetchFails PROVE ShellInv'
  OBVIOUS
<1>1. /\ page.stage \in Stages \ {"loaded"} /\ Put(store, TRUE)
      /\ page' = [page EXCEPT !.stage = "failed", !.error = TRUE]
      /\ UNCHANGED <<recording, address>>
      /\ story' = [story EXCEPT !.troubles = @ - 1]
  BY DEF FetchFails, Stages
<1>2. DOMAIN story' = DOMAIN story /\ story'.kept = story.kept /\ story'.touched = story.touched
  BY <1>1 DEF ShellInv, ShellTypes
<1> QED BY <1>1, <1>2, FailureKeeps

\* A frame that arrives takes every pane to the end of the run.
LEMMA FrameArrivesKeeps == ShellInv /\ FrameArrives => ShellInv'
<1> SUFFICES ASSUME ShellInv, FrameArrives PROVE ShellInv'
  OBVIOUS
<1>0. ShellTypes /\ TimelineTold /\ ViewHeld /\ KeptHeld /\ ClockHeld
  BY DEF ShellInv
<1>1. /\ page.stage = "streaming" /\ store.timeline.size < recording.frames
      /\ UNCHANGED <<recording, page, address, story>>
  BY DEF FrameArrives
<1>2. PICK tl : tl = LiveTimeline(store.timeline.size + 1)
  OBVIOUS
<1>3. PICK s : s = WithCursor(WithTimeline(store, tl), tl.size - 1)
  OBVIOUS
<1>4. Put(s, FALSE)
  BY <1>2, <1>3 DEF FrameArrives
<1>5. page.applied /\ store.panel # "none"
      /\ \E k \in 0..recording.frames : store.timeline = LiveTimeline(k)
  BY <1>0, <1>1 DEF TimelineTold
<1>6. PICK k \in 0..recording.frames : store.timeline = LiveTimeline(k)
  BY <1>5
<1>7. /\ store.timeline.size = k /\ tl.size = k + 1 /\ tl = LiveTimeline(k + 1)
      /\ k \in Nat /\ k + 1 \in 0..recording.frames
      /\ MaxCursor(tl) = k /\ tl.kind = "live"
  <2>1. recording.frames \in Nat
    BY <1>0 DEF ShellTypes
  <2>2. store.timeline.size = k /\ k \in Nat
    BY <1>6, <2>1 DEF LiveTimeline
  <2>3. tl = LiveTimeline(k + 1) /\ k + 1 \in 0..recording.frames
    BY <1>1, <1>2, <2>1, <2>2
  <2>4. tl.size = k + 1 /\ tl.kind = "live"
    BY <2>3 DEF LiveTimeline
  <2>5. MaxCursor(tl) = k
    BY <2>2, <2>4 DEF MaxCursor
  <2> QED BY <2>2, <2>3, <2>4, <2>5
<1>8. /\ DOMAIN s = StoreFields /\ s.timeline = tl /\ s.cursor = k
      /\ s.playing = store.playing /\ s.speed = store.speed /\ s.selection = store.selection
      /\ s.panel = store.panel /\ s.portals = store.portals
  <2>1. PICK z : z = WithTimeline(store, tl)
    OBVIOUS
  <2>2. /\ DOMAIN z = StoreFields /\ z.timeline = tl /\ z.cursor = 0
        /\ z.playing = store.playing /\ z.speed = store.speed /\ z.selection = store.selection
        /\ z.panel = store.panel /\ z.portals = store.portals
    BY <1>0, <2>1, WithTimelineIs DEF ShellTypes
  <2>3. Smaller(tl.size - 1, MaxCursor(z.timeline)) = k
    BY <1>7, <2>2 DEF Smaller
  <2>4. s = [z EXCEPT !.cursor = k]
    BY <1>3, <2>1, <2>3 DEF WithCursor
  <2> QED BY <2>2, <2>4 DEF StoreFields
<1>9. page'.error = FALSE /\ page.error = FALSE
  BY <1>0, <1>1 DEF ViewHeld, ShellTypes
<1>10. /\ ClockHeld' /\ store' = s /\ mirror' = TRUE
       /\ pacer' \in [on : BOOLEAN, anchor : Nat, total : Nat, written : Nat]
  BY <1>0, <1>1, <1>8, <1>4, <1>9, PutClock DEF ShellTypes
<1>11. ShellTypes'
  BY <1>0, <1>1, <1>7, <1>8, <1>10 DEF ShellTypes
<1>12. TimelineTold'
  BY <1>1, <1>5, <1>7, <1>8, <1>10 DEF TimelineTold
<1>13. ViewHeld'
  BY <1>0, <1>1, <1>7, <1>8, <1>10 DEF ViewHeld
<1>14. KeptHeld'
  BY <1>0, <1>1 DEF KeptHeld
<1> QED BY <1>10, <1>11, <1>12, <1>13, <1>14 DEF ShellInv

\* The end of the stream.
LEMMA StreamEndsKeeps == ShellInv /\ StreamEnds => ShellInv'
<1> SUFFICES ASSUME ShellInv, StreamEnds PROVE ShellInv'
  OBVIOUS
<1>0. ShellTypes /\ TimelineTold /\ ViewHeld /\ KeptHeld /\ ClockHeld
  BY DEF ShellInv
<1>1. /\ page.stage = "streaming" /\ recording.sealed
      /\ page' = [page EXCEPT !.stage = "refreshing"]
      /\ UNCHANGED <<recording, store, address, mirror, pacer, mapTick, story>>
  BY DEF StreamEnds
<1>2. /\ page' \in [stage : Stages, error : BOOLEAN, applied : BOOLEAN]
      /\ page'.stage = "refreshing" /\ page'.error = page.error /\ page'.applied = page.applied
  BY <1>0, <1>1 DEF ShellTypes, Stages
<1>3. ShellTypes'
  BY <1>0, <1>1, <1>2 DEF ShellTypes
<1>4. TimelineTold'
  BY <1>0, <1>1, <1>2 DEF TimelineTold
<1>5. ViewHeld'
  BY <1>0, <1>1, <1>2 DEF ViewHeld, Loaded, View
<1>6. KeptHeld'
  BY <1>0, <1>1 DEF KeptHeld
<1>7. ClockHeld'
  BY <1>0, <1>1, <1>2, StillClock
<1> QED BY <1>3, <1>4, <1>5, <1>6, <1>7 DEF ShellInv

\* The record is loaded: what was shown before a reload is shown again.
LEMMA LoadRecordKeeps == ShellInv /\ LoadRecord => ShellInv'
<1> SUFFICES ASSUME ShellInv, LoadRecord PROVE ShellInv'
  OBVIOUS
<1> DEFINE tl == SealedTimeline(recording.record)
<1>0. ShellTypes /\ TimelineTold /\ ViewHeld /\ KeptHeld /\ ClockHeld
  BY DEF ShellInv
<1>1. /\ page.stage \in {"fetching", "refreshing"} /\ Load(tl, "loaded")
      /\ UNCHANGED <<recording, address, story>>
  BY DEF LoadRecord
<1>2. recording.sealed
  BY <1>0, <1>1 DEF ViewHeld
<1>3. Timelined(tl, recording.record) /\ recording.record \in Runs
  BY <1>0 DEF Timelined, ShellTypes
<1>4. tl = SealedTimeline(recording'.record)
  BY <1>1
<1>5. MaxCursor(tl) \in Nat
  BY <1>3, ShellAssumption, TimelineIs
<1>6. CASE ~page.applied
  <2> HIDE DEF tl
  <2>1. page.stage = "fetching"
    BY <1>0, <1>1, <1>6 DEF TimelineTold
  <2>2. /\ page' = [stage |-> "loaded", error |-> FALSE, applied |-> TRUE]
        /\ recording'.record = recording.record => ClockHeld'
        /\ Shows(store', tl, address)
        /\ mirror' = TRUE
        /\ pacer' \in [on : BOOLEAN, anchor : Nat, total : Nat, written : Nat]
    BY <1>1, <1>3, <1>6, <2>1, FirstLoad
  <2>3. page' \in [stage : Stages, error : BOOLEAN, applied : BOOLEAN]
    BY <2>2 DEF Stages
  <2>4. /\ DOMAIN store' = StoreFields /\ store'.timeline = tl /\ store'.playing \in BOOLEAN
        /\ ~store'.playing /\ store'.speed \in Nat \ {0} /\ store'.selection = address.sel
        /\ store'.cursor \in Nat /\ store'.cursor <= MaxCursor(tl)
        /\ store'.panel \in Panels \ {"none"}
        /\ store'.portals \in Seq(STRING) /\ NoRepeats(store'.portals)
    BY <2>2 DEF Shows
  <2>5. ShellTypes'
    BY <1>0, <1>1, <2>2, <2>3, <2>4 DEF ShellTypes
  <2>6. TimelineTold'
    BY <1>1, <1>2, <1>4, <2>2, <2>4 DEF TimelineTold
  <2>7. ViewHeld'
    BY <1>1, <1>2, <2>2, <2>4 DEF ViewHeld
  <2>8. KeptHeld'
    <3> SUFFICES ASSUME NEW view \in story.kept
                 PROVE  View(store)' = view
      BY <1>1, <1>2, <2>2 DEF KeptHeld
    <3>1. /\ Showable(view)
          /\ view = <<address.at, address.sel, address.portals, address.panel>>
      BY <1>0, <2>1 DEF KeptHeld
    <3>2. \E c \in 0..MaxCursor(tl) : address.at = IdAt(tl, c)
      BY <3>1 DEF Showable, tl
    <3>3. NoRepeats(address.portals) /\ address.panel # "none"
      BY <3>1 DEF Showable
    <3>4. IdAt(store'.timeline, store'.cursor) = address.at
      BY <2>2, <3>2 DEF Shows
    <3>5. store'.portals = address.portals /\ store'.panel = address.panel
      BY <2>2, <3>3 DEF Shows
    <3> QED BY <2>4, <3>1, <3>4, <3>5 DEF View
  <2> QED BY <1>1, <2>2, <2>5, <2>6, <2>7, <2>8 DEF ShellInv
<1>7. CASE page.applied
  <2>1. page.stage = "refreshing" /\ store.panel # "none"
    BY <1>0, <1>1, <1>7 DEF TimelineTold
  <2>2. PICK s : s = WithTimeline(store, tl)
    OBVIOUS
  <2> HIDE DEF tl
  <2>3. Put(s, FALSE) /\ page' = [stage |-> "loaded", error |-> FALSE, applied |-> TRUE]
    BY <1>1, <1>7, <2>2 DEF Load
  <2>4. /\ DOMAIN s = StoreFields /\ s.timeline = tl /\ s.cursor = 0
        /\ s.playing = store.playing /\ s.speed = store.speed /\ s.selection = store.selection
        /\ s.panel = store.panel /\ s.portals = store.portals
    BY <1>0, <2>2, WithTimelineIs DEF ShellTypes
  <2>5. /\ ClockHeld' /\ store' = s /\ mirror' = TRUE
        /\ pacer' \in [on : BOOLEAN, anchor : Nat, total : Nat, written : Nat]
    BY <1>0, <1>1, <2>3, <2>4, PutClock DEF ShellTypes
  <2>6. page' \in [stage : Stages, error : BOOLEAN, applied : BOOLEAN]
    BY <2>3 DEF Stages
  <2>7. ShellTypes'
    BY <1>0, <1>1, <2>4, <2>5, <2>6 DEF ShellTypes
  <2>8. TimelineTold'
    BY <1>1, <1>2, <1>4, <2>1, <2>3, <2>4, <2>5 DEF TimelineTold
  <2>9. ViewHeld'
    BY <1>0, <1>1, <1>2, <1>5, <2>3, <2>4, <2>5 DEF ViewHeld
  <2>10. KeptHeld'
    BY <1>0, <1>1, <2>1 DEF KeptHeld
  <2> QED BY <2>5, <2>7, <2>8, <2>9, <2>10 DEF ShellInv
<1> QED BY <1>6, <1>7

\* A reload keeps what was shown, if the address has it.
LEMMA ReloadKeeps == ShellInv /\ Reload => ShellInv'
<1> SUFFICES ASSUME ShellInv, Reload PROVE ShellInv'
  OBVIOUS
<1>0. ShellTypes /\ TimelineTold /\ ViewHeld /\ KeptHeld /\ ClockHeld
  BY DEF ShellInv
<1>1. /\ page' = [stage |-> "start", error |-> FALSE, applied |-> FALSE]
      /\ store' = EmptyStore /\ mirror' = FALSE /\ pacer' = NotPacing /\ mapTick' = NoTick
      /\ UNCHANGED <<recording, address>>
  BY DEF Reload
<1>2. PICK kept : kept = IF page.stage = "loaded" /\ ~mirror THEN {View(store)} ELSE {}
  OBVIOUS
<1>3. /\ DOMAIN story' = {"kept", "touched", "troubles", "touches", "reloads"}
      /\ story'.touched = FALSE /\ story'.kept = kept
  BY <1>0, <1>2 DEF Reload, ShellTypes
<1>4. store'.timeline = NoTimeline /\ NoTimeline.kind = "none" /\ NoTimeline.size = 0
  BY <1>1, EmptyIs DEF NoTimeline
<1>5. ShellTypes'
  <2>1. page' \in [stage : Stages, error : BOOLEAN, applied : BOOLEAN]
    BY <1>1 DEF Stages
  <2>2. pacer' \in [on : BOOLEAN, anchor : Nat, total : Nat, written : Nat]
    BY <1>1 DEF NotPacing
  <2>3. /\ DOMAIN store' = StoreFields /\ store'.cursor \in Nat /\ store'.playing \in BOOLEAN
        /\ store'.speed \in Nat \ {0}
        /\ store'.panel \in Panels /\ store'.portals \in Seq(STRING)
    BY <1>1, EmptyIs DEF Panels
  <2> QED BY <1>0, <1>1, <1>3, <2>1, <2>2, <2>3 DEF ShellTypes
<1>6. TimelineTold'
  BY <1>1, <1>4 DEF TimelineTold
<1>7. ViewHeld'
  BY <1>1, <1>4, EmptyIs DEF MaxCursor, NoRepeats, Loaded, ViewHeld
<1>8. KeptHeld'
  <2> SUFFICES ASSUME NEW view \in kept
               PROVE  /\ recording.sealed /\ Showable(view)
                      /\ view = <<address.at, address.sel, address.portals, address.panel>>
    BY <1>1, <1>3 DEF KeptHeld, Showable
  <2>1. page.stage = "loaded" /\ ~mirror /\ view = View(store)
    BY <1>2
  <2>2. /\ recording.sealed /\ store.panel # "none"
        /\ store.timeline = SealedTimeline(recording.record)
    BY <1>0, <2>1 DEF TimelineTold
  <2>3. Loaded
    BY <2>2 DEF Loaded, SealedTimeline
  <2>4. view = <<address.at, address.sel, address.portals, address.panel>>
    BY <1>0, <2>1, <2>3 DEF ViewHeld
  <2>5. /\ view[1] = IdAt(store.timeline, store.cursor) /\ view[3] = store.portals
        /\ view[4] = store.panel
    BY <2>1 DEF View
  <2>6. store.cursor \in 0..MaxCursor(store.timeline) /\ NoRepeats(store.portals)
    BY <2>3, StoreIs
  <2> QED BY <2>2, <2>4, <2>5, <2>6 DEF Showable
<1>9. ClockHeld'
  BY <1>1, <1>4 DEF NotPacing, ScrubBarShown, Loaded, ClockHeld
<1> QED BY <1>5, <1>6, <1>7, <1>8, <1>9 DEF ShellInv

\* The address is written.
LEMMA WriteAddressKeeps == ShellInv /\ WriteAddress => ShellInv'
<1> SUFFICES ASSUME ShellInv, WriteAddress PROVE ShellInv'
  OBVIOUS
<1>0. ShellTypes /\ TimelineTold /\ ViewHeld /\ KeptHeld /\ ClockHeld
  BY DEF ShellInv
<1>1. /\ mirror /\ mirror' = FALSE /\ address' = CurrentDeepLink(store)
      /\ UNCHANGED <<recording, page, store, pacer, mapTick, story>>
  BY DEF WriteAddress
<1>2. /\ address'.at = IdAt(store.timeline, store.cursor) /\ address'.sel = store.selection
      /\ address'.portals = store.portals /\ address'.panel = store.panel
  BY <1>1 DEF CurrentDeepLink
<1>3. ShellTypes'
  BY <1>0, <1>1, <1>2 DEF ShellTypes
<1>4. TimelineTold'
  BY <1>0, <1>1 DEF TimelineTold
<1>5. ViewHeld'
  BY <1>0, <1>1, <1>2 DEF ViewHeld, View
<1>6. KeptHeld'
  BY <1>0, <1>1 DEF KeptHeld, View, ViewHeld
<1>7. ClockHeld'
  BY <1>0, <1>1, StillClock
<1> QED BY <1>3, <1>4, <1>5, <1>6, <1>7 DEF ShellInv

\* A frame of the browser moves the cursor on, or lets it rest.
LEMMA PlayFrameKeeps == ShellInv /\ PlayFrame => ShellInv'
<1> SUFFICES ASSUME ShellInv, PlayFrame PROVE ShellInv'
  OBVIOUS
<1>0. ShellTypes /\ TimelineTold /\ ViewHeld /\ KeptHeld /\ ClockHeld
  BY DEF ShellInv
<1>1. PICK tl : tl = store.timeline
  OBVIOUS
<1>2. PICK r : r = recording.record
  OBVIOUS
<1>3. PICK speed : speed = store.speed
  OBVIOUS
<1>4. PICK same : same = (pacer.on /\ pacer.written = store.cursor)
  OBVIOUS
<1>5. PICK anchor : anchor = IF same THEN pacer.anchor ELSE store.cursor
  OBVIOUS
<1>6. PICK elapsed \in FrameTimes :
       LET tl_     == store.timeline
           kept_   == pacer.on /\ pacer.written = store.cursor
           anchor_ == IF kept_ THEN pacer.anchor ELSE store.cursor
           total_  == IF kept_ THEN pacer.total + elapsed ELSE 0
           next_   == CursorAtElapsed(tl_, recording.record, store.speed, anchor_, total_)
           over_   == next_ >= MaxCursor(tl_)
       IN  /\ store' = [store EXCEPT !.cursor = next_, !.playing = ~over_]
           /\ mirror' = (mirror \/ over_ \/ ~pacer.on \/ next_ # pacer.written)
           /\ pacer' = IF over_ THEN NotPacing
                       ELSE [on |-> TRUE, anchor |-> anchor_, total |-> total_, written |-> next_]
           /\ mapTick' = IF over_ THEN TickAtCursor(tl_, recording.record, next_)
                         ELSE TickAtElapsed(tl_, recording.record, store.speed, anchor_, total_)
  BY DEF PlayFrame
<1> PICK total : total = IF same THEN pacer.total + elapsed ELSE 0
  OBVIOUS
<1> PICK next : next = CursorAtElapsed(tl, r, speed, anchor, total)
  OBVIOUS
<1> PICK over \in BOOLEAN : over <=> next >= MaxCursor(tl)
  OBVIOUS
<1>7. /\ total = IF same THEN pacer.total + elapsed ELSE 0
      /\ next = CursorAtElapsed(tl, r, speed, anchor, total)
      /\ over <=> next >= MaxCursor(tl)
      /\ store' = [store EXCEPT !.cursor = next, !.playing = ~over]
      /\ mirror' = (mirror \/ over \/ ~pacer.on \/ next # pacer.written)
      /\ pacer' = IF over THEN NotPacing
                  ELSE [on |-> TRUE, anchor |-> anchor, total |-> total, written |-> next]
      /\ mapTick' = IF over THEN TickAtCursor(tl, r, next)
                    ELSE TickAtElapsed(tl, r, speed, anchor, total)
  BY <1>1, <1>2, <1>3, <1>4, <1>5, <1>6
<1>8. /\ ScrubBarShown /\ store.playing /\ UNCHANGED <<recording, page, address, story>>
      /\ Loaded /\ page.error = FALSE
  BY <1>0 DEF PlayFrame, ScrubBarShown, ShellTypes
<1>9. /\ r \in Runs /\ Timelined(tl, r) /\ MaxCursor(tl) \in Nat /\ speed \in Nat \ {0}
      /\ store.cursor \in 0..MaxCursor(tl)
  BY <1>0, <1>1, <1>2, <1>3, <1>8, ToldTimeline, StoreIs
<1>10. elapsed \in Nat
  BY ShellAssumption DEF ShellAssumption
<1>11. total \in Nat /\ anchor \in 0..MaxCursor(tl)
  <2>1. CASE same
    BY <1>0, <1>1, <1>4, <2>1, <1>5, <1>7, <1>9, <1>10 DEF ClockHeld,
       ShellTypes
  <2>2. CASE ~same
    BY <1>5, <1>7, <1>9, <2>2
  <2> QED BY <2>1, <2>2
<1>12. next \in anchor..MaxCursor(tl) /\ (total = 0 => next = anchor)
  <2>1. /\ CursorAtElapsed(tl, r, speed, anchor, total) \in anchor..MaxCursor(tl)
        /\ total = 0 => CursorAtElapsed(tl, r, speed, anchor, total) = anchor
    <3>1. r \in Runs /\ Timelined(tl, r) /\ speed \in Nat \ {0}
      BY <1>9
    <3>2. anchor \in 0..MaxCursor(tl) /\ total \in Nat
      BY <1>11
    <3>3. CursorAtElapsed(tl, r, speed, anchor, total) \in anchor..MaxCursor(tl)
      BY ONLY <3>1, <3>2, ShellAssumption, CursorIs
    <3>4. total = 0 => CursorAtElapsed(tl, r, speed, anchor, total) = anchor
      BY ONLY <3>1, <3>2, ShellAssumption, CursorIs
    <3> QED BY <3>3, <3>4
  <2> QED BY <1>7, <2>1
<1>13. next \in Nat /\ next <= MaxCursor(tl)
  BY <1>9, <1>11, <1>12
<1>14. PICK moving \in BOOLEAN : moving = ~over
  BY <1>7
<1>15. /\ DOMAIN store' = StoreFields /\ store'.timeline = tl /\ store'.cursor = next
       /\ store'.playing = moving /\ store'.speed = speed /\ store'.selection = store.selection
       /\ store'.panel = store.panel /\ store'.portals = store.portals
  BY <1>7, <1>14, <1>0, <1>1, <1>3 DEF ShellTypes, StoreFields
<1>16. pacer' \in [on : BOOLEAN, anchor : Nat, total : Nat, written : Nat]
  BY <1>7, <1>9, <1>11, <1>13 DEF NotPacing
<1>17. ScrubBarShown'
  BY <1>1, <1>8, <1>15 DEF ScrubBarShown, Loaded
<1>18. ShellTypes'
  BY <1>0, <1>7, <1>3, <1>8, <1>9, <1>13, <1>14, <1>15, <1>16 DEF ShellTypes
<1>19. store.timeline # NoTimeline
  BY <1>8 DEF Loaded, NoTimeline
<1>20. TimelineTold'
  BY <1>0, <1>1, <1>8, <1>15, <1>19 DEF TimelineTold
<1>21. ASSUME ~mirror'
       PROVE  ~mirror /\ next = store.cursor
  <2>1. ~mirror /\ ~over /\ pacer.on /\ next = pacer.written
    BY <1>7, <1>21
  <2>2. CASE same
    BY <1>4, <2>1, <2>2
  <2>3. CASE ~same
    BY <1>5, <1>7, <2>3, <1>12, <2>1
  <2> QED BY <2>1, <2>2, <2>3
<1>22. ViewHeld'
  BY <1>0, <1>8, <1>19, <1>1, <1>15, <1>21, <1>13 DEF ViewHeld, TimelineTold,
     View
<1>23. KeptHeld'
  BY <1>0, <1>8, <1>19 DEF ViewHeld, TimelineTold, KeptHeld
<1>24. ClockHeld'
  <2>1. CASE over
    BY <1>7, <2>1, <1>2, <1>8, <1>15 DEF NotPacing, ClockHeld
  <2>2. CASE ~over
    <3>1. /\ pacer'.anchor = anchor /\ pacer'.total = total /\ pacer'.written = next
          /\ mapTick' = TickAtElapsed(tl, r, speed, anchor, total)
      BY <1>7, <2>2
    <3>2. next < MaxCursor(tl) /\ anchor <= MaxCursor(tl)
      BY <1>7, <1>9, <1>11, <1>13, <2>2
    <3>3. store'.playing
      BY <1>14, <1>15, <2>2
    <3>4. next = CursorAtElapsed(tl, r, speed, anchor, total)
      BY <1>7
    <3>5. recording'.record = r
      BY <1>2, <1>8
    <3> QED BY <1>15, <1>17, <3>1, <3>2, <3>3, <3>4, <3>5 DEF ClockHeld
  <2> QED BY <2>1, <2>2
<1> QED BY <1>18, <1>20, <1>22, <1>23, <1>24 DEF ShellInv

-----------------------------------------------------------------------------
\* The page begins with nothing.
LEMMA ShellInitInv == ShellInit => ShellInv
<1> SUFFICES ASSUME ShellInit PROVE ShellInv
  OBVIOUS
<1>1. /\ recording \in [record : Runs, frames : {0}, sealed : BOOLEAN]
      /\ page = [stage |-> "start", error |-> FALSE, applied |-> FALSE]
      /\ store = EmptyStore /\ address \in Links /\ mirror = FALSE /\ pacer = NotPacing
      /\ story = [kept |-> {}, touched |-> FALSE, troubles |-> MaxTroubles,
                  touches |-> MaxTouches, reloads |-> MaxReloads]
  BY DEF ShellInit
<1>2. store.timeline = NoTimeline /\ NoTimeline.kind = "none" /\ NoTimeline.size = 0
  BY <1>1, EmptyIs DEF NoTimeline
<1>3. ShellTypes
  <2>1. page \in [stage : Stages, error : BOOLEAN, applied : BOOLEAN]
    BY <1>1 DEF Stages
  <2>2. pacer \in [on : BOOLEAN, anchor : Nat, total : Nat, written : Nat]
    BY <1>1 DEF NotPacing
  <2>3. /\ DOMAIN store = StoreFields /\ store.cursor \in Nat /\ store.playing \in BOOLEAN
        /\ store.speed \in Nat \ {0}
        /\ store.panel \in Panels /\ store.portals \in Seq(STRING)
    BY <1>1, EmptyIs DEF Panels
  <2>4. /\ DOMAIN story = {"kept", "touched", "troubles", "touches", "reloads"}
        /\ story.touched \in BOOLEAN
    BY <1>1
  <2>5. address.panel \in Panels /\ address.portals \in Seq(STRING)
    BY <1>1, ShellAssumption DEF ShellAssumption, Panels
  <2>6. /\ recording \in [record : Runs, frames : Nat, sealed : BOOLEAN] /\ recording.frames = 0
    BY <1>1
  <2>7. 0 <= Len(recording.record.samples)
    BY <2>6, ShellAssumption DEF ShellAssumption
  <2> QED BY <1>1, <2>1, <2>2, <2>3, <2>4, <2>5, <2>6, <2>7 DEF ShellTypes
<1>4. TimelineTold
  BY <1>1, <1>2 DEF TimelineTold
<1>5. ViewHeld
  BY <1>1, <1>2, EmptyIs DEF MaxCursor, NoRepeats, Loaded, ViewHeld
<1>6. KeptHeld
  BY <1>1 DEF KeptHeld
<1>7. ClockHeld
  BY <1>1, <1>2 DEF NotPacing, ScrubBarShown, Loaded, ClockHeld
<1> QED BY <1>3, <1>4, <1>5, <1>6, <1>7 DEF ShellInv

\* A step that changes nothing.
LEMMA ShellStutter == ShellInv /\ UNCHANGED shellVars => ShellInv'
<1> SUFFICES ASSUME ShellInv, UNCHANGED shellVars PROVE ShellInv'
  OBVIOUS
<1>1. UNCHANGED <<recording, page, store, address, mirror, pacer, mapTick, story>>
  BY DEF shellVars
<1>2. ClockHeld'
  BY <1>1, StillClock DEF ShellInv
<1>3. ShellTypes'
  BY <1>1 DEF ShellInv, ShellTypes
<1>4. TimelineTold'
  BY <1>1 DEF ShellInv, TimelineTold
<1>5. ViewHeld'
  BY <1>1 DEF ShellInv, ViewHeld, Loaded, View
<1>6. KeptHeld'
  BY <1>1 DEF ShellInv, KeptHeld, Showable, View
<1> QED BY <1>2, <1>3, <1>4, <1>5, <1>6 DEF ShellInv

\* The page shows one view, follows its run to the end and has one clock,
\* whatever the run, the frames, the failures, the reloads and the user do.
THEOREM ShellExactAlways == ShellSpec => []ShellExact
<1>1. ShellInit => ShellInv
  BY ShellInitInv
<1>2. ShellInv /\ [ShellNext]_shellVars => ShellInv'
  BY RecordFrameKeeps, FetchStateKeeps, OpenStreamKeeps, FrameArrivesKeeps, StreamEndsKeeps,
     LoadRecordKeeps, FetchFailsKeeps, ReloadKeeps, WriteAddressKeeps, MoveCursorKeeps,
     TogglePlayKeeps, ChooseSpeedKeeps, FocusKeeps, ClosePortalKeeps, ChoosePanelKeeps,
     PlayFrameKeeps, ShellStutter DEF ShellNext
<1>3. ShellInv => ShellExact
  BY InvExact
<1> QED BY <1>1, <1>2, <1>3, PTL DEF ShellSpec

=============================================================================
