-------------------------- MODULE ActionService ---------------------------
(***************************************************************************)
(* What a world promises the agents that act on it: a request is accepted  *)
(* at most once, everything accepted is settled together when the world    *)
(* advances, a settled request never changes, and a world that has shut    *)
(* accepts and settles nothing more.  WorldRuntime implements it.          *)
(***************************************************************************)
CONSTANT Requests     \* the request identifiers agents may submit

VARIABLES
  status,   \* what became of each request
  open      \* whether the world still takes and settles requests

serviceVars == <<status, open>>

Outcomes == {"applied", "rejected"}
Queued == {r \in Requests : status[r] = "queued"}

ServiceInit ==
  /\ status = [r \in Requests |-> "new"]
  /\ open = TRUE

Accept(r) ==
  /\ open
  /\ status[r] = "new"
  /\ status' = [status EXCEPT ![r] = "queued"]
  /\ UNCHANGED open

(* The whole queue is settled in one step: no request is left for later. *)
Settle(outcome) ==
  /\ open
  /\ Queued # {}
  /\ status' = [r \in Requests |->
                  IF r \in Queued THEN outcome[r] ELSE status[r]]
  /\ UNCHANGED open

Shut ==
  /\ open' = FALSE
  /\ UNCHANGED status

ServiceNext ==
  \/ \E r \in Requests : Accept(r)
  \/ \E outcome \in [Requests -> Outcomes] : Settle(outcome)
  \/ Shut

ServiceSpec == ServiceInit /\ [][ServiceNext]_serviceVars
=============================================================================
