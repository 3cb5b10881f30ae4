----------------------------- MODULE ResultLedger -----------------------------
(***************************************************************************)
(* The ledger of action results (actionResultLedger.ts).                   *)
(*                                                                         *)
(* Each step of the world reserves a batch of results, and publishes or    *)
(* aborts it.  Of a principal's results only the newest are retained; each *)
(* has a page number of its own in its principal's lane.  A principal      *)
(* reads its lane with a cursor that says how far it has got; a cursor     *)
(* that is behind what was evicted is denied.  The ledger can be saved,    *)
(* and a fresh one restored from what was saved.                           *)
(*                                                                         *)
(* A result is identified by its number and by the action it settles; who  *)
(* caused which effect is left out.                                        *)
(***************************************************************************)
EXTENDS Integers, Sequences

CONSTANTS
    Principal,      \* the principals with a lane
    MaxEntries,     \* results retained for each of them
    Capacity,       \* results admitted altogether
    MaxBatch,       \* bound: actions of one step
    MaxAction,      \* bound: the last action's sequence number
    MaxRestores     \* bound: how often a saved ledger is restored

ASSUME ResultLedgerAssumption ==
    /\ MaxEntries \in Nat \ {0} /\ Capacity \in Nat \ {0}
    /\ MaxBatch \in Nat \ {0} /\ MaxAction \in Nat /\ MaxRestores \in Nat

VARIABLES
    ledger,     \* lanes and counters
    inFlight,   \* the batch that is reserved
    reader,     \* what each principal holds, and its cursor
    history,    \* every result of this timeline, by principal
    saved,      \* the checkpoint, if there is one
    restores

ledgerVars == << ledger, inFlight, reader, history, saved, restores >>

Result == [id : Nat, action : Nat]

Entry == [page : Nat, result : Result]

Ledger == [ entries : [Principal -> Seq(Entry)],
            pages : [Principal -> Nat], evicted : [Principal -> Nat],
            admitted : Nat, previous : Nat, nextResult : Nat ]

History == [Principal -> Seq(Result)]

Batch == Seq([principal : Principal, action : Nat])

LedgerTypeOK ==
    /\ ledger \in Ledger
    /\ inFlight \in [ stage : {"none", "reserved", "publishing"},
                  batch : Batch, done : Nat, start : Nat ]
    /\ reader \in [Principal -> [ held : BOOLEAN, after : Nat, from : Nat,
                                  got : SUBSET Entry, ahead : BOOLEAN ]]
    /\ history \in History
    /\ saved \subseteq [ledger : Ledger, history : History]
    /\ restores \in Nat

NoBatch == [stage |-> "none", batch |-> << >>, done |-> 0, start |-> 0]

NoCursor == [ held |-> FALSE, after |-> 0, from |-> 0, got |-> {},
              ahead |-> FALSE ]

LedgerInit ==
    /\ ledger = [ entries |-> [p \in Principal |-> << >>],
                  pages |-> [p \in Principal |-> 0],
                  evicted |-> [p \in Principal |-> 0],
                  admitted |-> 0, previous |-> 0, nextResult |-> 1 ]
    /\ inFlight = NoBatch
    /\ reader = [p \in Principal |-> NoCursor]
    /\ history = [p \in Principal |-> << >>]
    /\ saved = {}
    /\ restores = 0

-----------------------------------------------------------------------------
(* A batch.                                                                *)

Increasing(batch) ==
    \A i, j \in DOMAIN batch : i < j => batch[i].action < batch[j].action

ReserveBatch(batch) ==
    /\ inFlight.stage = "none" /\ batch # << >>
    /\ ledger.admitted <= Capacity - Len(batch)
    /\ Increasing(batch) /\ batch[1].action > ledger.previous
    /\ inFlight' = [ stage |-> "reserved", batch |-> batch, done |-> 0,
                 start |-> ledger.nextResult ]
    /\ UNCHANGED << ledger, reader, history, saved, restores >>

(* The step failed, or its results could not be prepared. *)
Abort ==
    /\ inFlight.stage = "reserved"
    /\ inFlight' = NoBatch
    /\ UNCHANGED << ledger, reader, history, saved, restores >>

(* publish() has compared every result with its reservation, and adds them *)
(* one after the other; nothing else runs until it is done.                *)
Publish ==
    /\ inFlight.stage = "reserved"
    /\ inFlight' = [inFlight EXCEPT !.stage = "publishing"]
    /\ UNCHANGED << ledger, reader, history, saved, restores >>

Published == inFlight.batch[inFlight.done + 1]

NewResult == [id |-> inFlight.start + inFlight.done, action |-> Published.action]

(* Faulty: what is evicted is not remembered. *)
FaultyGone(all, evicted) == evicted

(* The newest MaxEntries of a lane, and the page of the last one evicted.  *)
Kept(all) ==
    IF Len(all) > MaxEntries
    THEN SubSeq(all, Len(all) - MaxEntries + 1, Len(all)) ELSE all

Gone(all, evicted) ==
    IF Len(all) > MaxEntries THEN all[Len(all) - MaxEntries].page ELSE evicted

(* add: a result is the next page of its principal's lane. *)
Add(p, result) ==
    LET all == Append(ledger.entries[p],
                      [page |-> ledger.pages[p] + 1, result |-> result])
    IN  [ ledger EXCEPT !.entries[p] = Kept(all),
                        !.evicted[p] = Gone(all, @),
                        !.pages[p] = @ + 1,
                        !.admitted = @ + 1,
                        !.previous = result.action ]

PublishOne ==
    /\ inFlight.stage = "publishing" /\ inFlight.done < Len(inFlight.batch)
    /\ ledger' = Add(Published.principal, NewResult)
    /\ history' = [history EXCEPT ![Published.principal] =
                        Append(@, NewResult)]
    /\ inFlight' = [inFlight EXCEPT !.done = @ + 1]
    /\ UNCHANGED << reader, saved, restores >>

FinishPublish ==
    /\ inFlight.stage = "publishing" /\ inFlight.done = Len(inFlight.batch)
    /\ ledger' = [ledger EXCEPT !.nextResult = inFlight.start + Len(inFlight.batch)]
    /\ inFlight' = NoBatch
    /\ UNCHANGED << reader, history, saved, restores >>

-----------------------------------------------------------------------------
(* Reading.  A page is the first few entries after the cursor, as many as  *)
(* the request allows.                                                     *)

Idle == inFlight.stage # "publishing"

(* Faulty: what was evicted is not asked about. *)
FaultyServed(p) == reader[p].after <= ledger.pages[p]

Served(p) ==
    /\ reader[p].after <= ledger.pages[p]
    /\ reader[p].after >= ledger.evicted[p]

(* The entries from number i to number k of the lane. *)
Page(p, i, k) == {ledger.entries[p][n] : n \in i .. k}

Unread(p, i) ==
    /\ ledger.entries[p][i].page > reader[p].after
    /\ \A n \in DOMAIN ledger.entries[p] :
          n < i => ledger.entries[p][n].page <= reader[p].after

(* The first read, or one without the cursor: from the oldest retained. *)
ReadAfresh(p, k) ==
    /\ Idle
    /\ reader' = [reader EXCEPT ![p] =
                    [ held |-> TRUE, ahead |-> FALSE,
                      after |-> ledger.entries[p][k].page,
                      from |-> ledger.entries[p][1].page - 1,
                      got |-> Page(p, 1, k) ]]
    /\ UNCHANGED << ledger, inFlight, history, saved, restores >>

ReadOn(p, i, k) ==
    /\ Idle /\ reader[p].held /\ Served(p)
    /\ Unread(p, i) /\ i <= k
    /\ reader' = [reader EXCEPT ![p].after = ledger.entries[p][k].page,
                                ![p].got = @ \union Page(p, i, k)]
    /\ UNCHANGED << ledger, inFlight, history, saved, restores >>

-----------------------------------------------------------------------------
(* Checkpoints.                                                            *)

ExportState ==
    /\ inFlight.stage = "none"
    /\ saved' = {[ledger |-> ledger, history |-> history]}
    /\ UNCHANGED << ledger, inFlight, reader, history, restores >>

(* A fresh ledger takes over what was saved; cursors live on with their        *)
(* principals.  One that is ahead of the checkpoint belongs to a timeline  *)
(* that was given up.                                                      *)
ImportState(s) ==
    /\ s \in saved /\ inFlight.stage # "publishing" /\ restores < MaxRestores
    /\ ledger' = s.ledger /\ history' = s.history
    /\ inFlight' = NoBatch
    /\ reader' = [p \in Principal |-> [reader[p] EXCEPT
                    !.ahead = @ \/ reader[p].after > s.ledger.pages[p]]]
    /\ restores' = restores + 1
    /\ UNCHANGED saved

-----------------------------------------------------------------------------
Batches ==
    UNION {[1 .. n -> [principal : Principal, action : 1 .. MaxAction]] :
              n \in 1 .. MaxBatch}

LedgerNext ==
    \/ \E batch \in Batches : ReserveBatch(batch)
    \/ Abort \/ Publish \/ PublishOne \/ FinishPublish
    \/ \E p \in Principal, k \in 1 .. MaxEntries :
          k \in DOMAIN ledger.entries[p] /\ ReadAfresh(p, k)
    \/ \E p \in Principal, i, k \in 1 .. MaxEntries :
          i \in DOMAIN ledger.entries[p] /\ k \in DOMAIN ledger.entries[p]
            /\ ReadOn(p, i, k)
    \/ ExportState
    \/ \E s \in saved : ImportState(s)

LedgerSpec == LedgerInit /\ [][LedgerNext]_ledgerVars

-----------------------------------------------------------------------------
(* Properties.                                                             *)

(* Ledger l retains the newest results of timeline h. *)
Exact(l, h) ==
    \A p \in Principal :
        /\ Len(h[p]) = l.pages[p]
        /\ l.pages[p] = l.evicted[p] + Len(l.entries[p])
        /\ Len(l.entries[p]) <= MaxEntries
        /\ \A i \in DOMAIN l.entries[p] :
              l.entries[p][i] = [ page |-> l.evicted[p] + i,
                                  result |-> h[p][l.evicted[p] + i] ]

(* What is retained of a lane are its newest results, without a hole, and  *)
(* what the ledger says it evicted is exactly what is missing, whatever    *)
(* was published, aborted and restored (add, importState).                 *)
RetainedExact == Exact(ledger, history)

(* What a reader has collected with its cursor is every result from where  *)
(* it began to where the cursor is: it is denied before it could skip a    *)
(* result ("fails only after an unseen same-principal eviction",           *)
(* actionResultLedger.test.ts), and a cursor from before a checkpoint      *)
(* stays valid after a restore (actionResultLedgerRestore.test.ts).        *)
Gapless ==
    \A p \in Principal :
        reader[p].held /\ ~reader[p].ahead =>
            /\ reader[p].after <= Len(history[p])
            /\ reader[p].got = {[page |-> n, result |-> history[p][n]] :
                                   n \in reader[p].from + 1 .. reader[p].after}

(* Of two results the one with the later number settles the later action.  *)
NumbersFollowActions ==
    \A p, q \in Principal :
        \A i \in DOMAIN history[p], j \in DOMAIN history[q] :
            history[p][i].id < history[q][j].id =>
                history[p][i].action < history[q][j].action

(* Results are numbered in the order of their actions, without a gap and   *)
(* without repetition across all lanes, also when batches are aborted      *)
(* ("aborts without an id gap", actionResultLedger.test.ts).               *)
NumberedExactly ==
    /\ NumbersFollowActions
    /\ inFlight.stage # "publishing" =>
        /\ ledger.nextResult = ledger.admitted + 1
        /\ \A n \in 1 .. ledger.admitted :
              \E p \in Principal : \E i \in DOMAIN history[p] :
                 /\ history[p][i].id = n
                 /\ \A q \in Principal : \A j \in DOMAIN history[q] :
                       history[q][j].id = n => p = q /\ i = j
===============================================================================
