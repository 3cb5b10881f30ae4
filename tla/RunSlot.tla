------------------------------- MODULE RunSlot -------------------------------
(***************************************************************************)
(* What a run record promises of its output directory: a directory is      *)
(* taken by one run at a time; a run that has taken it either seals its    *)
(* record there, once and for good, or gives the directory back; and a run *)
(* that finds the directory taken is refused and leaves it as it was.      *)
(***************************************************************************)
CONSTANT Run

VARIABLES
    place,      \* "free", "taken", or the run whose record is sealed there
    status      \* what each run has made of it

Init ==
    /\ place = "free"
    /\ status = [r \in Run |-> "none"]

Become(r, old, new) ==
    /\ status[r] = old
    /\ status' = [status EXCEPT ![r] = new]

Take(r) ==
    /\ place = "free"
    /\ place' = "taken"
    /\ Become(r, "none", "holds")

Refuse(r) ==
    /\ place # "free"
    /\ Become(r, "none", "gone")
    /\ UNCHANGED place

Seal(r) ==
    /\ place = "taken"
    /\ place' = r
    /\ Become(r, "holds", "sealed")

GiveBack(r) ==
    /\ place = "taken"
    /\ place' = "free"
    /\ Become(r, "holds", "gone")

Next == \E r \in Run : Take(r) \/ Refuse(r) \/ Seal(r) \/ GiveBack(r)

Spec == Init /\ [][Next]_<< place, status >>

\* At most one run holds the slot, none does while a record is in it, and
\* the record is that of the one run that sealed it.
Exclusive ==
    /\ \A r \in Run : status[r] = "holds" => place = "taken"
    /\ \A r \in Run : status[r] = "sealed" => place = r
    /\ \A q, r \in Run : status[q] = "holds" /\ status[r] = "holds" => q = r
===============================================================================
