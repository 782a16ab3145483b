----------------------------- MODULE NewestOnly -----------------------------
(***************************************************************************)
(* What the two DSP stages promise the user interface (backend.py 221:     *)
(* "DSP stage queues are intentionally shallow and latest-only"): chunks   *)
(* may be skipped, a result may never be replaced by that of an older      *)
(* chunk, and an angle of arrival is only computed from a chunk whose      *)
(* phases were.                                                            *)
(***************************************************************************)
EXTENDS Naturals

VARIABLES received, phases, angle  \* the newest chunk each stage has handled

vars == <<received, phases, angle>>

Init == received = 0 /\ phases = 0 /\ angle = 0

Receive == received' = received + 1 /\ UNCHANGED <<phases, angle>>

PhasesOfNewer == phases' \in (phases + 1)..received /\ UNCHANGED <<received, angle>>

AngleOfNewer == angle' \in (angle + 1)..phases /\ UNCHANGED <<received, phases>>

Next == Receive \/ PhasesOfNewer \/ AngleOfNewer

Spec == Init /\ [][Next]_vars
=============================================================================
