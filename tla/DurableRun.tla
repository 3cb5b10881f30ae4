------------------------------ MODULE DurableRun ------------------------------
(***************************************************************************)
(* What a composed run promises, whatever crashes, fails or is repeated:   *)
(* the calls take effect one at a time in the order of the lifecycle, none *)
(* of them out of its stage, and a phase becomes durable only over the     *)
(* effects of every call that leads into it, one phase at a time.          *)
(***************************************************************************)
EXTENDS ComposedPhases

VARIABLES
    phase,      \* the durable phase
    applied     \* the calls that have taken effect

abstractVars == << phase, applied >>

AInit ==
    /\ phase = 0
    /\ applied = {}

(* The next outstanding call of the stage takes effect. *)
Take(i) ==
    /\ phase < Completed
    /\ i \in DOMAIN Calls(phase + 1)
    /\ \A j \in 1 .. (i - 1) : Calls(phase + 1)[j] \in applied
    /\ applied' = applied \union {Calls(phase + 1)[i]}
    /\ UNCHANGED phase

(* The stage is durable once all of its calls have taken effect. *)
Advance ==
    /\ phase < Completed
    /\ CallsThrough(phase + 1) \subseteq applied
    /\ phase' = phase + 1
    /\ UNCHANGED applied

ANext == Advance \/ \E i \in 1 .. 4 : Take(i)

RunSpec == AInit /\ [][ANext]_abstractVars
===============================================================================
