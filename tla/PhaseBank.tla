----------------------------- MODULE PhaseBank -----------------------------
(***************************************************************************)
(* Weights on their way to a target, and one source of                     *)
(* SharedU1PhaseCompensationBank (gnss/shared_u1_phase_compensation.py):   *)
(* the row of logical weights one GNSS-SDR source gets.                    *)
(*                                                                         *)
(* Of a weight vector only its spatial solution counts, a number: a        *)
(* complex scalar changes neither the solution nor a null.  A ramp between *)
(* two solutions passes through Mixed.  Whether the compensated target     *)
(* passes its guards is an input (fits).                                   *)
(***************************************************************************)
EXTENDS Naturals

CONSTANTS Ramp,       \* chunks of a ramp
          MinUpdates  \* min_post_onset_desired_updates

ASSUME RampAssumption == Ramp \in Nat
ASSUME MinUpdatesAssumption == MinUpdates \in Nat \ {0, 1}

Uniform == 0
Mixed == 9

\* Weights that rest at a solution.
At(solution) == [shape |-> solution, to |-> solution, left |-> 0]

\* Fault: the last chunk keeps interpolated weights.
AdvanceRampShort(w) ==
  IF w.left = 0 THEN w
  ELSE [w EXCEPT !.left = @ - 1, !.shape = IF @ = w.to THEN w.to ELSE Mixed]

\* One chunk of a ramp.
AdvanceRamp(w) ==
  IF w.left = 0 THEN w
  ELSE [w EXCEPT !.left = @ - 1,
                 !.shape = IF w.left = 1 \/ @ = w.to THEN w.to ELSE Mixed]

\* Begin a ramp of n chunks; with n = 0 the weights are applied at once.
RampTo(w, solution, n) ==
  [w EXCEPT !.to = solution, !.left = n, !.shape = IF n = 0 THEN solution ELSE @]

-----------------------------------------------------------------------------
(* One source: its ramp, and                                               *)
(*   prn      the satellite its channel tracks, 0 for none                 *)
(*   label    "waiting", "measured" or "released"                          *)
(*   desired  the vector of the PRN is known                               *)
(*   passes   updates of that vector since the onset that agree            *)

NewRow(prn, common) ==
  [shape |-> common, to |-> common, left |-> 0,
   prn |-> prn, label |-> "waiting", desired |-> FALSE, passes |-> 0]

\* vector: what the monitor says of the PRN, "none" if nothing new and fresh,
\* else whether it agrees with the vector before.
Learn(row, enabled, vector) ==
  IF vector = "none" \/ (enabled /\ row.desired) THEN row
  ELSE IF ~enabled THEN [row EXCEPT !.desired = TRUE, !.passes = 0]
  ELSE LET passes == IF vector = "agrees" \/ row.passes = 0 THEN row.passes + 1 ELSE 1
       IN  [row EXCEPT !.passes = passes, !.desired = passes >= MinUpdates]

StartTransition(row, requested, label, n, fits) ==
  IF row.desired /\ fits THEN [RampTo(row, requested, n) EXCEPT !.label = label] ELSE row

\* Fault: the first protection weights of an onset are kept.
NeedsUpdateOnce(row, available, changed) == available /\ row.desired /\ row.label # "measured"

NeedsUpdate(row, available, changed) ==
  available /\ row.desired /\ (row.label # "measured" \/ changed)

\* One chunk: what advance() makes of the row, from the weights it was given.
AdvanceRow(row, in) ==
  LET known   == IF row.prn = in.prn THEN row ELSE NewRow(in.prn, in.common)
      learnt  == Learn(known, in.enabled, in.vector)
      adopted == in.enabled /\ learnt.desired /\ ~known.desired
      falling == ~in.enabled /\ in.previous
      moved   ==
        IF in.enabled /\ NeedsUpdate(learnt, in.available, in.changed)
        THEN StartTransition(learnt, in.protection, "measured", 1, in.fits)
        ELSE IF falling THEN StartTransition(learnt, in.common, "released", Ramp, in.fits)
        ELSE IF adopted THEN StartTransition(learnt, in.protection, "measured", 1, in.fits)
        ELSE IF ~in.enabled /\ ~learnt.desired
        THEN [NewRow(in.prn, in.common) EXCEPT !.passes = learnt.passes]
        ELSE learnt
  IN  AdvanceRamp(moved)
=============================================================================
