--------------------------- MODULE MCComposedCommand ---------------------------
(***************************************************************************)
(* Composed runs, in one run of TLC.  Either the commands of one run work, *)
(* one at a time, run or recover, through any few faults; or two runs on   *)
(* one target build their chains of receipts.  The two models look at the  *)
(* same phases from different sides and share no state: a behaviour uses   *)
(* one of them while the other is as it was created.                       *)
(***************************************************************************)
EXTENDS ComposedCommand, ReceiptChain

Commanding(A) == ChainInit /\ A /\ UNCHANGED chainVars
Chaining(A) == CommandInit /\ A /\ UNCHANGED allVars

ComposedInit == CommandInit /\ ChainInit

Composed ==
  /\ ComposedInit
  /\ [][Commanding(CommandNext) \/ Chaining(ChainNext)]_<<allVars, chainVars>>

(* The fairness of CommandFairSpec and of FairChain, for the one that runs. *)
FairComposed ==
  /\ Composed
  /\ \A p \in Procs : /\ WF_allVars(Commanding(RunStart(p)))
                      /\ WF_allVars(Commanding(RecoverStart(p)))
                      /\ WF_allVars(Commanding(CommandWork(p)))
  /\ \A op \in Operation :
       WF_allVars(Commanding(TakesEffect(op) /\ UNCHANGED commandVars))
  /\ WF_allVars(Commanding(WorldEnds /\ UNCHANGED commandVars))
  /\ WF_allVars(Commanding(BundleTakesEffect))
  /\ WF_allVars(Commanding(Provision))
  /\ WF_allVars(Commanding(ClockCatchesUp))
  /\ \A r \in Chain : /\ WF_chainVars(Chaining(Proceeds(r)))
                      /\ WF_chainVars(Chaining(Ticks(r)))

(* Whatever is begun ends: a run that is recovered as often as it takes,   *)
(* and a chain of receipts that is resumed as often, but for the ends both *)
(* of them name (recovery.ts).                                             *)
RunsEnd == CommandSettles /\ RunFinishes
================================================================================
