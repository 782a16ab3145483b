------------------------- MODULE LcmvControlProofs -------------------------
(***************************************************************************)
(* What LcmvControl promises, for every set of solutions and satellites,   *)
(* every length of ramps and of the release hold and any number of         *)
(* commands: ProtectionIsWanted and ReleaseIsHeld.                         *)
(*                                                                         *)
(* NullNeedsJammer speaks of the moments when the control lock is free.    *)
(* The inductive invariant says what a command or an update has already    *)
(* done at each of its steps (Nulls), although the handoff thread falls    *)
(* back without the lock; Placed says who holds it.                        *)
(*                                                                         *)
(* DisableHolds speaks of what comes after a disable: that the arming is   *)
(* suppressed and not on its way from the moment the disable has the lock, *)
(* and the flag clear from its SetFlag on, is Obeyed.                      *)
(***************************************************************************)
EXTENDS LcmvControl, TLAPS

Setting == {"freeze", "flag", "weights", "tell"}
Updating == {"evidence", "decide", "fallback", "unpublish", "return", "fallen", "schedule", "on"}
Commanders == {"operator", "doa"}

OperatorPcs == {"idle", "set"} \union Setting
DoaPcs == {"track", "learn", "off", "arm", "ready", "set", "select", "update"} \union Setting \union Updating
HandoffPcs == {"chunk", "sum", "common", "protection", "advance", "fallback", "unpublish", "return", "fallen"}

\* Where each thread can be: who sets or updates holds the lock.
Placed ==
  /\ pc \in [Threads -> Pcs]
  /\ pc["operator"] \in OperatorPcs /\ pc["doa"] \in DoaPcs /\ pc["handoff"] \in HandoffPcs
  /\ lock \in {Free, "operator", "doa"}
  /\ lock = "operator" <=> pc["operator"] \in Setting
  /\ lock = "doa" <=> pc["doa"] \in Setting \union Updating

Flags ==
  /\ command \in [Commanders -> BOOLEAN] /\ commands \in 0..MaxCommands
  /\ ordered \in BOOLEAN /\ crossed \in BOOLEAN /\ enabled \in BOOLEAN /\ suppressed \in BOOLEAN
  /\ protection \in BOOLEAN /\ stable \in BOOLEAN /\ reference \in BOOLEAN
  /\ frozen \in BOOLEAN /\ finding \in BOOLEAN
  /\ status \in {"off", "fallback", "on"}

Targets == {Uniform} \union Common
Protections == {Uniform} \union Measured

Rows ==
  [shape : Solutions, to : Solutions, left : 0..Ramp, prn : Nat,
   label : {"waiting", "measured", "released"}, desired : BOOLEAN, passes : 0..MinUpdates]

\* A PRN whose vector is not known has not had all the updates it needs.
Weights ==
  /\ shared \in [weights : Protections, available : BOOLEAN]
  /\ beam \in [shape : Solutions, to : Targets, left : 0..Ramp]
  /\ read \in [enabled : BOOLEAN, common : Targets, protection : Protections]
  /\ bank \in [previous : BOOLEAN, last : Solutions, out : Solutions]
  /\ row \in Rows
  /\ ~row.desired => row.passes < MinUpdates

Jammed == enabled /\ protection /\ frozen

\* What is aimed at or published at each step of a command and of an update.
Nulls ==
  /\ lock = Free => ((beam.to # Uniform \/ shared.available) => Jammed)
  /\ \A t \in Commanders :
       /\ pc[t] \in Setting => ~shared.available
       /\ pc[t] \in {"weights", "tell"} => (enabled <=> command[t])
       /\ pc[t] = "tell" => beam.to = Uniform
  /\ pc["doa"] \in Updating => enabled
  /\ pc["doa"] = "evidence" => ((beam.to # Uniform \/ shared.available) => Jammed)
  /\ pc["doa"] \in {"decide", "fallback", "unpublish"} => ((beam.to # Uniform \/ shared.available) => frozen)
  /\ pc["doa"] \in {"schedule", "on"} => Jammed
  /\ pc["doa"] \in {"return", "fallen"} => (shared.available => Jammed)
  /\ pc["doa"] = "fallen" => beam.to = Uniform

\* The operator's last command is a disable that has begun, or that is done.
Off == IF pc["operator"] \in Setting THEN ~command["operator"] ELSE ~ordered

\* From then on the automatic arming is suppressed, and none is on its way unless
\* it was before; so LCMV is off once the flag is cleared.
Obeyed ==
  Off => /\ suppressed
         /\ ~crossed => pc["doa"] \notin {"ready", "set"} \union Setting
         /\ ~crossed /\ pc["operator"] \notin {"freeze", "flag"} => ~enabled

\* A release candidate is not older than the quiet it has been there for.
Quiet ==
  /\ since \in 0..None /\ quiet \in 0..Hold
  /\ since # None => since <= quiet

IInv == Placed /\ Flags /\ Weights /\ Nulls /\ Obeyed /\ Quiet

-----------------------------------------------------------------------------
(* Weights on their way                                                    *)

LEMMA SolutionsOfTargets ==
  /\ Targets \subseteq Solutions /\ Protections \subseteq Solutions
  /\ Uniform \in Targets /\ Uniform \in Protections /\ Mixed \in Solutions
  BY DEF Targets, Protections, Solutions

\* A common ramp stays within the solutions and keeps its target.
LEMMA BeamAdvances ==
  ASSUME NEW w \in [shape : Solutions, to : Targets, left : 0..Ramp]
  PROVE  /\ AdvanceRamp(w) \in [shape : Solutions, to : Targets, left : 0..Ramp]
         /\ AdvanceRamp(w).to = w.to
<1>1. w.to \in Solutions /\ Mixed \in Solutions
  BY SolutionsOfTargets
<1>2. CASE w.left = 0
  BY <1>2 DEF AdvanceRamp
<1>3. CASE w.left # 0
  <2>1. w.left - 1 \in 0..Ramp
    BY <1>3, RampAssumption
  <2> QED
    BY <1>1, <1>3, <2>1 DEF AdvanceRamp
<1> QED
  BY <1>2, <1>3

\* A row on its way is one that has at most a whole ramp, or one chunk, to go.
Moving ==
  {r \in [shape : Solutions, to : Solutions, left : Nat, prn : Nat,
          label : {"waiting", "measured", "released"}, desired : BOOLEAN, passes : 0..MinUpdates] :
     /\ r.left <= Ramp \/ r.left = 1
     /\ ~r.desired => r.passes < MinUpdates}

KnownRows == {r \in Rows : ~r.desired => r.passes < MinUpdates}

LEMMA RowsMove == KnownRows \subseteq Moving
  BY RampAssumption DEF KnownRows, Moving, Rows

LEMMA RowAdvances ==
  ASSUME NEW r \in Moving
  PROVE  AdvanceRamp(r) \in KnownRows
<1>1. r.to \in Solutions /\ Mixed \in Solutions
  BY SolutionsOfTargets DEF Moving
<1>2. CASE r.left = 0
  BY <1>2, RampAssumption DEF AdvanceRamp, Moving, KnownRows, Rows
<1>3. CASE r.left # 0
  <2>1. r.left - 1 \in 0..Ramp
    BY <1>3, RampAssumption DEF Moving
  <2> QED
    BY <1>1, <1>3, <2>1 DEF AdvanceRamp, Moving, KnownRows, Rows
<1> QED
  BY <1>2, <1>3

LEMMA NewRowKnown ==
  ASSUME NEW prn \in Nat, NEW common \in Targets
  PROVE  NewRow(prn, common) \in KnownRows /\ ~NewRow(prn, common).desired
  BY SolutionsOfTargets, MinUpdatesAssumption, RampAssumption DEF NewRow, KnownRows, Rows

LEMMA RowLearns ==
  ASSUME NEW r \in KnownRows, NEW e \in BOOLEAN, NEW vector \in {"none", "agrees", "differs"}
  PROVE  Learn(r, e, vector) \in KnownRows
<1>1. MinUpdates \in Nat /\ 1 < MinUpdates
  BY MinUpdatesAssumption
<1>2. CASE vector = "none" \/ (e /\ r.desired)
  BY <1>2 DEF Learn
<1>3. CASE vector # "none" /\ ~e
  <2> DEFINE new == [r EXCEPT !.desired = TRUE, !.passes = 0]
  <2>1. Learn(r, e, vector) = new
    BY <1>3 DEF Learn
  <2>2. r \in Rows /\ 0 \in 0..MinUpdates
    BY <1>1 DEF KnownRows
  <2>3. new \in Rows /\ new.desired = TRUE
    BY <2>2 DEF Rows
  <2> HIDE DEF new
  <2> QED
    BY <2>1, <2>3 DEF KnownRows
<1>4. CASE vector # "none" /\ e /\ ~r.desired
  <2> DEFINE passes == IF vector = "agrees" \/ r.passes = 0 THEN r.passes + 1 ELSE 1
  <2>1. passes \in 0..MinUpdates
    BY <1>1, <1>4 DEF KnownRows, Rows
  <2>2. Learn(r, e, vector) = [r EXCEPT !.passes = passes, !.desired = passes >= MinUpdates]
    BY <1>4 DEF Learn
  <2> HIDE DEF passes
  <2> DEFINE full == passes >= MinUpdates
             new == [r EXCEPT !.passes = passes, !.desired = full]
  <2>3. full \in BOOLEAN /\ (full <=> passes >= MinUpdates) /\ r \in Rows
    BY DEF KnownRows
  <2>4. ~full => passes < MinUpdates
    BY <1>1, <2>1, <2>3
  <2>5. Learn(r, e, vector) = new
    BY <2>2
  <2> HIDE DEF full
  <2>6. new \in Rows /\ new.desired = full /\ new.passes = passes
    BY <2>1, <2>3 DEF Rows
  <2> HIDE DEF new
  <2> QED
    BY <2>3, <2>4, <2>5, <2>6 DEF KnownRows
<1> QED
  BY <1>2, <1>3, <1>4

LEMMA RowStarts ==
  ASSUME NEW r \in KnownRows, NEW requested \in Solutions, NEW fits \in BOOLEAN,
         NEW label \in {"measured", "released"}, NEW n \in {1, Ramp}
  PROVE  StartTransition(r, requested, label, n, fits) \in Moving
<1>1. r \in Moving
  BY RowsMove
<1>2. n \in Nat /\ (n <= Ramp \/ n = 1)
  BY RampAssumption
<1> QED
  BY <1>1, <1>2 DEF StartTransition, RampTo, Moving

Inputs ==
  [prn : Nat, vector : {"none", "agrees", "differs"}, fits : BOOLEAN, enabled : BOOLEAN,
   previous : BOOLEAN, available : BOOLEAN, changed : BOOLEAN, common : Targets,
   protection : Protections]

\* A chunk leaves a source with known weights and a ramp that is not too long.
LEMMA RowStays ==
  ASSUME NEW r \in KnownRows, NEW in \in Inputs
  PROVE  AdvanceRow(r, in) \in KnownRows
<1> DEFINE known  == IF r.prn = in.prn THEN r ELSE NewRow(in.prn, in.common)
           learnt == Learn(known, in.enabled, in.vector)
           adopted == in.enabled /\ learnt.desired /\ ~known.desired
           falling == ~in.enabled /\ in.previous
           moved   ==
             IF in.enabled /\ NeedsUpdate(learnt, in.available, in.changed)
             THEN StartTransition(learnt, in.protection, "measured", 1, in.fits)
             ELSE IF falling THEN StartTransition(learnt, in.common, "released", Ramp, in.fits)
             ELSE IF adopted THEN StartTransition(learnt, in.protection, "measured", 1, in.fits)
             ELSE IF ~in.enabled /\ ~learnt.desired
             THEN [NewRow(in.prn, in.common) EXCEPT !.passes = learnt.passes]
             ELSE learnt
<1>0. /\ in.prn \in Nat /\ in.common \in Targets /\ in.common \in Solutions /\ in.protection \in Solutions
      /\ in.enabled \in BOOLEAN /\ in.fits \in BOOLEAN /\ in.vector \in {"none", "agrees", "differs"}
  BY SolutionsOfTargets DEF Inputs
<1>1. known \in KnownRows
  BY <1>0, NewRowKnown
<1> HIDE DEF known
<1>2. learnt \in KnownRows
  BY <1>0, <1>1, RowLearns
<1> HIDE DEF learnt, adopted, falling
<1>3. learnt \in Moving
  BY <1>2, RowsMove
<1>4. StartTransition(learnt, in.protection, "measured", 1, in.fits) \in Moving
  BY <1>0, <1>2, RowStarts
<1>5. StartTransition(learnt, in.common, "released", Ramp, in.fits) \in Moving
  BY <1>0, <1>2, RowStarts
<1>6. ~learnt.desired => [NewRow(in.prn, in.common) EXCEPT !.passes = learnt.passes] \in Moving
  <2> SUFFICES ASSUME ~learnt.desired
               PROVE  [NewRow(in.prn, in.common) EXCEPT !.passes = learnt.passes] \in Moving
    OBVIOUS
  <2>1. NewRow(in.prn, in.common) \in Moving
    BY <1>0, NewRowKnown, RowsMove
  <2>2. learnt.passes \in 0..MinUpdates /\ learnt.passes < MinUpdates
    BY <1>2 DEF KnownRows, Rows
  <2> HIDE DEF learnt
  <2> QED
    BY <2>1, <2>2 DEF Moving
<1>7. moved \in Moving
  BY <1>3, <1>4, <1>5, <1>6
<1>8. AdvanceRow(r, in) = AdvanceRamp(moved)
  BY DEF AdvanceRow, known, learnt, adopted, falling
<1> QED
  BY <1>7, <1>8, RowAdvances

-----------------------------------------------------------------------------
(* The steps                                                               *)

\* Next, with the steps of a command and of a fallback for their threads.
Steps ==
  \/ Command \/ ReferenceAges \/ Tick
  \/ \E t \in Commanders : SetBegin(t)
  \/ \E t \in Commanders : SetFreeze(t)
  \/ \E t \in Commanders : SetFlag(t)
  \/ \E t \in Commanders : SetWeights(t)
  \/ \E t \in Commanders : SetTell(t)
  \/ Track \/ LearnReference \/ TellOff \/ MayArm \/ Arm \/ Select \/ Update \/ Evidence \/ Decide
  \/ ScheduleNull \/ TellOn
  \/ \E t \in {"doa", "handoff"} : FallbackRead(t)
  \/ \E t \in {"doa", "handoff"} : FallbackShared(t)
  \/ \E t \in {"doa", "handoff"} : FallbackWeights(t)
  \/ \E t \in {"doa", "handoff"} : FallbackTell(t)
  \/ Chunk \/ Sum \/ ReadCommon \/ ReadProtection \/ AdvanceBank

LEMMA NextSteps == Next => Steps
  BY DEF Next, Steps, Set, Fallback, Doa, Handoff, Commanders

LEMMA GotoMoves ==
  ASSUME pc \in [Threads -> Pcs], NEW t \in Threads, NEW from, NEW to \in Pcs, Goto(t, from, to)
  PROVE  /\ pc[t] = from /\ pc' \in [Threads -> Pcs] /\ pc'[t] = to
         /\ \A u \in Threads \ {t} : pc'[u] = pc[u]
  BY DEF Goto

LEMMA PlacedStays ==
  ASSUME Placed, Steps
  PROVE  Placed'
<1> USE DEF Placed, Setting, Updating, Commanders, OperatorPcs, DoaPcs, HandoffPcs, Threads, Pcs, Free
<1>1. CASE Command
  BY <1>1 DEF Command, Goto
<1>2. CASE \E t \in Commanders : SetBegin(t)
  BY <1>2 DEF SetBegin, Goto, Take
<1>3. CASE \E t \in Commanders : SetFreeze(t)
  BY <1>3 DEF SetFreeze, Goto
<1>4. CASE \E t \in Commanders : SetFlag(t)
  BY <1>4 DEF SetFlag, Goto
<1>5. CASE \E t \in Commanders : SetWeights(t)
  BY <1>5 DEF SetWeights, Goto
<1>6. CASE \E t \in Commanders : SetTell(t)
  BY <1>6 DEF SetTell, Goto, Release
<1>7. CASE Track
  BY <1>7 DEF Track, Goto
<1>8. CASE LearnReference
  <2>1. lock' = lock /\ \E to \in {"select", "off"} : Goto("doa", "learn", to)
    BY <1>8 DEF LearnReference
  <2> QED
    BY <2>1 DEF Goto
<1>9. CASE TellOff
  BY <1>9 DEF TellOff, Goto
<1>10. CASE MayArm
  <2>1. lock' = lock /\ \E to \in {"ready", "select"} : Goto("doa", "arm", to)
    BY <1>10 DEF MayArm
  <2> QED
    BY <2>1 DEF Goto
<1>27. CASE Arm
  <2>1. lock' = lock /\ \E to \in {"set", "select"} : Goto("doa", "ready", to)
    BY <1>27 DEF Arm
  <2> QED
    BY <2>1 DEF Goto
<1>11. CASE Select
  BY <1>11 DEF Select, Goto
<1>12. CASE Update
  BY <1>12 DEF Update, Goto, Take
<1>13. CASE Evidence
  BY <1>13 DEF Evidence, Goto
<1>14. CASE Decide
  <2>1. lock' = lock /\ \E to \in {"fallback", "schedule"} : Goto("doa", "decide", to)
    BY <1>14 DEF Decide
  <2> QED
    BY <2>1 DEF Goto
<1>15. CASE ScheduleNull
  BY <1>15 DEF ScheduleNull, Goto
<1>16. CASE TellOn
  BY <1>16 DEF TellOn, Goto, Release
<1>17. CASE \E t \in {"doa", "handoff"} : FallbackShared(t)
  BY <1>17 DEF FallbackShared, Goto
<1>28. CASE \E t \in {"doa", "handoff"} : FallbackRead(t)
  <2>1. /\ lock' = lock
        /\ \E t \in {"doa", "handoff"}, to \in {"return", "unpublish"} : Goto(t, "fallback", to)
    BY <1>28 DEF FallbackRead
  <2> QED
    BY <2>1 DEF Goto
<1>18. CASE \E t \in {"doa", "handoff"} : FallbackWeights(t)
  BY <1>18 DEF FallbackWeights, Goto
<1>19. CASE \E t \in {"doa", "handoff"} : FallbackTell(t)
  BY <1>19 DEF FallbackTell, Goto, Release
<1>20. CASE Chunk
  BY <1>20 DEF Chunk, Goto
<1>21. CASE Sum
  BY <1>21 DEF Sum, Goto
<1>22. CASE ReadCommon
  BY <1>22 DEF ReadCommon, Goto
<1>23. CASE ReadProtection
  BY <1>23 DEF ReadProtection, Goto
<1>24. CASE AdvanceBank
  BY <1>24 DEF AdvanceBank, Goto
<1>25. CASE ReferenceAges
  BY <1>25 DEF ReferenceAges
<1>26. CASE Tick
  BY <1>26 DEF Tick
<1> QED
  BY <1>1, <1>2, <1>3, <1>4, <1>5, <1>6, <1>7, <1>8, <1>9, <1>10, <1>11, <1>12, <1>13, <1>14, <1>15, <1>16, <1>17, <1>18, <1>19, <1>20, <1>21, <1>22, <1>23, <1>24, <1>25, <1>26, <1>27, <1>28 DEF Steps

LEMMA FlagsStay ==
  ASSUME Placed, Flags, Steps
  PROVE  Flags'
<1> USE DEF Flags, Commanders, control, tracker, latch
<1>1. CASE Command
  BY <1>1, LcmvBoundsAssumption DEF Command
<1>2. CASE \E t \in Commanders : SetBegin(t)
  <2>1. PICK t \in Commanders : SetBegin(t)
    BY <1>2
  <2>2. suppressed' \in BOOLEAN /\ crossed' \in BOOLEAN
    <3>1. CASE t = "operator"
      BY <2>1, <3>1 DEF SetBegin
    <3>2. CASE t # "operator"
      BY <2>1, <3>2 DEF SetBegin
    <3> QED
      BY <3>1, <3>2
  <2>3. UNCHANGED <<command, commands, ordered, enabled, tracker, latch, status, finding>>
    BY <2>1 DEF SetBegin
  <2> QED
    BY <2>2, <2>3
<1>3. CASE \E t \in Commanders : SetFreeze(t)
  <2>1. PICK t \in Commanders : SetFreeze(t)
    BY <1>3
  <2>2. frozen' \in BOOLEAN /\ stable' \in BOOLEAN /\ protection' \in BOOLEAN
    BY <2>1 DEF SetFreeze
  <2>3. UNCHANGED <<control, reference, status, finding>>
    BY <2>1 DEF SetFreeze
  <2> QED
    BY <2>2, <2>3
<1>4. CASE \E t \in Commanders : SetFlag(t)
  <2>1. PICK t \in Commanders : SetFlag(t)
    BY <1>4
  <2>2. enabled' \in BOOLEAN
    BY <2>1 DEF SetFlag
  <2>3. UNCHANGED <<command, commands, ordered, crossed, suppressed, tracker, latch, status, finding>>
    BY <2>1 DEF SetFlag
  <2> QED
    BY <2>2, <2>3
<1>5. CASE \E t \in Commanders : SetWeights(t)
  BY <1>5 DEF SetWeights
<1>6. CASE \E t \in Commanders : SetTell(t)
  <2>1. PICK t \in Commanders : SetTell(t)
    BY <1>6
  <2>2. /\ status' \in {"off", "fallback", "on"} /\ ordered' \in BOOLEAN
        /\ command' = [command EXCEPT ![t] = FALSE]
    BY <2>1 DEF SetTell
  <2>3. UNCHANGED <<commands, crossed, enabled, suppressed, tracker, latch, finding>>
    BY <2>1 DEF SetTell
  <2> QED
    BY <2>2, <2>3
<1>7. CASE Track
  BY <1>7 DEF Track
<1>8. CASE LearnReference
  BY <1>8 DEF LearnReference
<1>9. CASE TellOff
  BY <1>9 DEF TellOff
<1>10. CASE MayArm
  BY <1>10 DEF MayArm
<1>27. CASE Arm
  <2>1. /\ command' = command \/ command' = [command EXCEPT !["doa"] = TRUE]
        /\ UNCHANGED <<commands, ordered, crossed, enabled, suppressed, tracker, protection, status, finding>>
    BY <1>27 DEF Arm
  <2>2. command' \in [Commanders -> BOOLEAN]
    BY <2>1
  <2> QED
    BY <2>1, <2>2
<1>28. CASE \E t \in {"doa", "handoff"} : FallbackRead(t)
  BY <1>28 DEF FallbackRead
<1>11. CASE Select
  BY <1>11 DEF Select
<1>12. CASE Update
  BY <1>12 DEF Update
<1>13. CASE Evidence
  BY <1>13 DEF Evidence
<1>14. CASE Decide
  BY <1>14 DEF Decide
<1>15. CASE ScheduleNull
  BY <1>15 DEF ScheduleNull
<1>16. CASE TellOn
  BY <1>16 DEF TellOn
<1>17. CASE \E t \in {"doa", "handoff"} : FallbackShared(t)
  BY <1>17 DEF FallbackShared
<1>18. CASE \E t \in {"doa", "handoff"} : FallbackWeights(t)
  BY <1>18 DEF FallbackWeights
<1>19. CASE \E t \in {"doa", "handoff"} : FallbackTell(t)
  BY <1>19 DEF FallbackTell
<1>20. CASE Chunk
  BY <1>20 DEF Chunk
<1>21. CASE Sum
  BY <1>21 DEF Sum
<1>22. CASE ReadCommon
  BY <1>22 DEF ReadCommon
<1>23. CASE ReadProtection
  BY <1>23 DEF ReadProtection
<1>24. CASE AdvanceBank
  BY <1>24 DEF AdvanceBank
<1>25. CASE ReferenceAges
  BY <1>25 DEF ReferenceAges
<1>26. CASE Tick
  BY <1>26 DEF Tick
<1> QED
  BY <1>1, <1>2, <1>3, <1>4, <1>5, <1>6, <1>7, <1>8, <1>9, <1>10, <1>11, <1>12, <1>13, <1>14, <1>15, <1>16, <1>17, <1>18, <1>19, <1>20, <1>21, <1>22, <1>23, <1>24, <1>25, <1>26, <1>27, <1>28 DEF Steps

LEMMA QuietLasts ==
  ASSUME Placed, Flags, Quiet, Steps
  PROVE  Quiet'
<1>0. Hold \in Nat /\ None = Hold + 1
  BY LcmvBoundsAssumption DEF None
<1> HIDE DEF None
<1>1. CASE UNCHANGED <<since, quiet>>
  BY <1>1 DEF Quiet, None
<1>2. CASE \E t \in Commanders : SetFreeze(t)
  BY <1>0, <1>2 DEF SetFreeze, Quiet
<1>3. CASE Evidence
  <2>1. PICK level \in {"upper", "between", "lower", "missing"} :
          LET age == IF since = None THEN 0 ELSE since
              low == protection /\ level = "lower"
          IN  /\ quiet' = IF level = "lower" THEN quiet ELSE 0
              /\ since' = IF low /\ age < Hold THEN age ELSE None
    BY <1>3 DEF Evidence, Levels
  <2> QED
    BY <1>0, <2>1 DEF Quiet
<1>4. CASE Tick
  BY <1>0, <1>4 DEF Tick, Quiet
<1>5. CASE ~(\E t \in Commanders : SetFreeze(t)) /\ ~Evidence /\ ~Tick
  <2> USE DEF latch
  <2>1. UNCHANGED <<since, quiet>>
    BY <1>5 DEF Steps, Command, ReferenceAges, SetBegin, SetFlag, SetWeights, SetTell,
      Track, LearnReference, TellOff, MayArm, Arm, Select, Update, Decide, ScheduleNull, TellOn,
      FallbackRead, FallbackShared, FallbackWeights, FallbackTell, Chunk, Sum, ReadCommon, ReadProtection, AdvanceBank
  <2> QED
    BY <2>1, <1>1
<1> QED
  BY <1>2, <1>3, <1>4, <1>5

\* Which steps touch the weights.
WeightSteps ==
  \/ \E t \in Commanders : SetBegin(t) \/ SetWeights(t)
  \/ Decide \/ ScheduleNull
  \/ \E t \in {"doa", "handoff"} : FallbackShared(t) \/ FallbackWeights(t)
  \/ Chunk \/ ReadCommon \/ ReadProtection \/ AdvanceBank

LEMMA OtherSteps ==
  ASSUME Steps, ~WeightSteps
  PROVE  UNCHANGED <<shared, beam, phase>>
  BY DEF Steps, WeightSteps, Command, ReferenceAges, Tick, SetFreeze, SetFlag, SetTell,
    Track, LearnReference, TellOff, MayArm, Arm, Select, Update, Evidence, TellOn, FallbackRead, FallbackTell, Sum

\* Scheduling leaves the beam with the target it had or with the new one; an
\* operator and a fallback are never refused.
LEMMA Schedules ==
  ASSUME beam \in [shape : Solutions, to : Targets, left : 0..Ramp],
         NEW solution \in Targets, NEW preempt \in BOOLEAN, Schedule(solution, preempt)
  PROVE  /\ beam' \in [shape : Solutions, to : Targets, left : 0..Ramp]
         /\ beam'.to \in {beam.to, solution}
         /\ preempt => beam'.to = solution
<1>1. solution \in Solutions /\ Ramp \in 0..Ramp
  BY SolutionsOfTargets, RampAssumption
<1> QED
  BY <1>1 DEF Schedule, RampTo

LEMMA WeightsStay ==
  ASSUME Placed, Flags, Weights, Steps
  PROVE  Weights'
<1> USE DEF Weights
<1>1. CASE ~WeightSteps
  BY <1>1, OtherSteps DEF phase
<1>2. CASE \E t \in Commanders : SetBegin(t)
  BY <1>2, SolutionsOfTargets DEF SetBegin, Unpublished, phase
<1>3. CASE \E t \in Commanders : SetWeights(t)
  <2>1. UNCHANGED <<shared, phase>>
    BY <1>3 DEF SetWeights
  <2>2. beam' = At(Uniform) \/ Schedule(Uniform, TRUE)
    BY <1>3 DEF SetWeights
  <2>3. At(Uniform) \in [shape : Solutions, to : Targets, left : 0..Ramp]
    BY SolutionsOfTargets, RampAssumption DEF At
  <2>4. beam' \in [shape : Solutions, to : Targets, left : 0..Ramp]
    BY <2>2, <2>3, Schedules, SolutionsOfTargets
  <2> QED
    BY <2>1, <2>4 DEF phase
<1>4. CASE Decide
  <2>1. UNCHANGED <<beam, phase>>
    BY <1>4 DEF Decide
  <2>2. shared' = shared \/ \E w \in Measured : shared' = [weights |-> w, available |-> TRUE]
    BY <1>4 DEF Decide
  <2>3. shared' \in [weights : Protections, available : BOOLEAN]
    <3>1. ASSUME NEW w \in Measured
          PROVE  [weights |-> w, available |-> TRUE] \in [weights : Protections, available : BOOLEAN]
      BY DEF Protections
    <3> QED
      BY <2>2, <3>1
  <2> QED
    BY <2>1, <2>3 DEF phase
<1>5. CASE ScheduleNull
  <2>1. UNCHANGED <<shared, phase>>
    BY <1>5 DEF ScheduleNull
  <2>2. UNCHANGED beam \/ \E solution \in Targets : Schedule(solution, FALSE)
    BY <1>5 DEF ScheduleNull, Targets
  <2>3. beam' \in [shape : Solutions, to : Targets, left : 0..Ramp]
    BY <2>2, Schedules
  <2> QED
    BY <2>1, <2>3 DEF phase
<1>6. CASE \E t \in {"doa", "handoff"} : FallbackShared(t)
  BY <1>6, SolutionsOfTargets DEF FallbackShared, Unpublished, phase
<1>7. CASE \E t \in {"doa", "handoff"} : FallbackWeights(t)
  <2>1. UNCHANGED <<shared, phase>> /\ Schedule(Uniform, TRUE)
    BY <1>7 DEF FallbackWeights
  <2>2. beam' \in [shape : Solutions, to : Targets, left : 0..Ramp]
    BY <2>1, Schedules, SolutionsOfTargets
  <2> QED
    BY <2>1, <2>2 DEF phase
<1>8. CASE Chunk
  <2>1. /\ beam' = AdvanceRamp(beam) /\ UNCHANGED <<shared, bank, row>>
        /\ read' = [Idle EXCEPT !.enabled = Fanout /\ protection]
    BY <1>8 DEF Chunk
  <2>2. (Fanout /\ protection) \in BOOLEAN
    OBVIOUS
  <2>3. read' \in [enabled : BOOLEAN, common : Targets, protection : Protections]
    BY <2>1, <2>2, SolutionsOfTargets DEF Idle
  <2> QED
    BY <2>1, <2>3, BeamAdvances
<1>9. CASE ReadCommon
  <2>1. /\ UNCHANGED <<shared, beam, bank, row>>
        /\ read' = [read EXCEPT !.enabled = read.enabled /\ enabled, !.common = beam.to]
    BY <1>9 DEF ReadCommon
  <2>2. (read.enabled /\ enabled) \in BOOLEAN
    OBVIOUS
  <2>3. read' \in [enabled : BOOLEAN, common : Targets, protection : Protections]
    BY <2>1, <2>2
  <2> QED
    BY <2>1, <2>3
<1>10. CASE ReadProtection
  BY <1>10 DEF ReadProtection
<1>11. CASE AdvanceBank
  <2> DEFINE changed == shared.available /\ bank.last # read.protection
  <2>1. PICK prn \in Satellites, vector \in {"none", "agrees", "differs"}, fits \in Fits :
          /\ row' = IF prn = 0 THEN row
                    ELSE AdvanceRow(row, [prn |-> prn, vector |-> vector, fits |-> fits,
                           enabled |-> read.enabled, previous |-> bank.previous,
                           available |-> shared.available, changed |-> changed,
                           common |-> read.common, protection |-> read.protection])
          /\ bank' = [previous |-> read.enabled,
                      last |-> IF changed THEN read.protection ELSE bank.last,
                      out |-> IF prn = 0 THEN read.common ELSE row'.shape]
    BY <1>11 DEF AdvanceBank
  <2>2. read' = Idle /\ UNCHANGED <<shared, beam>>
    BY <1>11 DEF AdvanceBank
  <2>3. changed \in BOOLEAN
    OBVIOUS
  <2> HIDE DEF changed
  <2>4. [prn |-> prn, vector |-> vector, fits |-> fits, enabled |-> read.enabled,
         previous |-> bank.previous, available |-> shared.available, changed |-> changed,
         common |-> read.common, protection |-> read.protection] \in Inputs
    BY <2>3, LcmvBoundsAssumption, FlagsAssumption DEF Inputs
  <2>5. row \in KnownRows
    BY DEF KnownRows
  <2>6. row' \in KnownRows
    BY <2>1, <2>4, <2>5, RowStays
  <2>7. row'.shape \in Solutions /\ row' \in Rows /\ (~row'.desired => row'.passes < MinUpdates)
    BY <2>6 DEF KnownRows, Rows
  <2>8. bank' \in [previous : BOOLEAN, last : Solutions, out : Solutions]
    BY <2>1, <2>7, SolutionsOfTargets
  <2>9. read' \in [enabled : BOOLEAN, common : Targets, protection : Protections]
    BY <2>2, SolutionsOfTargets DEF Idle
  <2> QED
    BY <2>2, <2>7, <2>8, <2>9
<1> QED
  BY <1>1, <1>2, <1>3, <1>4, <1>5, <1>6, <1>7, <1>8, <1>9, <1>10, <1>11 DEF WeightSteps

-----------------------------------------------------------------------------
(* Protection needs a jammer                                               *)

\* Who sets or updates is alone with the weights.
LEMMA Alone ==
  ASSUME Placed
  PROVE  /\ pc["operator"] \in Setting => lock = "operator" /\ pc["doa"] \notin Setting \union Updating
         /\ pc["doa"] \in Setting \union Updating => lock = "doa" /\ pc["operator"] \notin Setting
  BY DEF Placed

\* A step outside the lock may take a null back but not aim at one.
LEMMA NullsFewer ==
  ASSUME Nulls, UNCHANGED <<lock, enabled, protection, frozen>>,
         shared'.available => shared.available, beam'.to # Uniform => beam.to # Uniform,
         \A t \in Commanders : pc'[t] \in Setting \union Updating =>
                                 pc'[t] = pc[t] /\ command'[t] = command[t]
  PROVE  Nulls'
<1>1. Jammed' <=> Jammed
  BY DEF Jammed
<1>2. pc'["doa"] \in Setting \union Updating => pc'["doa"] = pc["doa"]
  BY DEF Commanders
<1>3. \A t \in Commanders : /\ pc'[t] \in Setting => ~shared'.available
                            /\ pc'[t] \in {"weights", "tell"} => (enabled' <=> command'[t])
                            /\ pc'[t] = "tell" => beam'.to = Uniform
  BY DEF Nulls, Setting
<1>4. lock' = Free => ((beam'.to # Uniform \/ shared'.available) => Jammed')
  BY <1>1 DEF Nulls
<1> QED
  BY <1>1, <1>2, <1>3, <1>4 DEF Nulls, Updating

LEMMA NullsOutside ==
  ASSUME Placed, Flags, Weights, Nulls,
         \/ Command \/ ReferenceAges \/ Tick
         \/ Track \/ LearnReference \/ TellOff \/ MayArm \/ Arm \/ Select
         \/ FallbackRead("handoff") \/ FallbackShared("handoff") \/ FallbackWeights("handoff") \/ FallbackTell("handoff")
         \/ Chunk \/ Sum \/ ReadCommon \/ ReadProtection \/ AdvanceBank
  PROVE  Nulls'
<1> USE DEF control, tracker, latch, phase
<1>1. UNCHANGED <<lock, enabled, protection, frozen>>
  BY DEF Command, ReferenceAges, Tick, Track, LearnReference, TellOff, MayArm, Arm, Select, FallbackRead, FallbackShared,
    FallbackWeights, FallbackTell, Release, Chunk, Sum, ReadCommon, ReadProtection, AdvanceBank, Placed, Free
<1>2. shared'.available => shared.available
  <2>1. CASE FallbackShared("handoff")
    BY <2>1 DEF FallbackShared, Unpublished
  <2>2. CASE ~FallbackShared("handoff")
    <3>1. shared' = shared
      BY <2>2 DEF Command, ReferenceAges, Tick, Track, LearnReference, TellOff, MayArm, Arm, Select,
        FallbackRead, FallbackWeights, FallbackTell, Chunk, Sum, ReadCommon, ReadProtection, AdvanceBank
    <3> QED
      BY <3>1
  <2> QED
    BY <2>1, <2>2
<1>3. beam'.to # Uniform => beam.to # Uniform
  <2>1. CASE FallbackWeights("handoff")
    BY <2>1, Schedules, SolutionsOfTargets DEF FallbackWeights, Weights
  <2>2. CASE Chunk
    BY <2>2, BeamAdvances DEF Chunk, Weights
  <2>3. CASE ~FallbackWeights("handoff") /\ ~Chunk
    <3>1. beam' = beam
      BY <2>3 DEF Command, ReferenceAges, Tick, Track, LearnReference, TellOff, MayArm, Arm, Select,
        FallbackRead, FallbackShared, FallbackTell, Sum, ReadCommon, ReadProtection, AdvanceBank
    <3> QED
      BY <3>1
  <2> QED
    BY <2>1, <2>2, <2>3
<1>4. \A t \in Commanders : pc'[t] \in Setting \union Updating =>
                              pc'[t] = pc[t] /\ command'[t] = command[t]
  <2> USE DEF Goto, Placed, Threads, Pcs, Commanders, Setting, Updating
  <2>1. CASE Command
    BY <2>1 DEF Command, Flags
  <2>2. CASE ReferenceAges \/ Tick
    BY <2>2 DEF ReferenceAges, Tick
  <2>3. CASE Track \/ LearnReference \/ TellOff \/ Select
    <3>1. command' = command /\ \E from \in Pcs, to \in {"learn", "select", "off", "arm", "update"} : Goto("doa", from, to)
      BY <2>3 DEF Track, LearnReference, TellOff, Select
    <3> QED
      BY <3>1
  <2>4. CASE MayArm
    <3>1. command' = command /\ \E to \in {"ready", "select"} : Goto("doa", "arm", to)
      BY <2>4 DEF MayArm, control
    <3> QED
      BY <3>1
  <2>7. CASE Arm
    BY <2>7 DEF Arm, Flags
  <2>5. CASE FallbackRead("handoff") \/ FallbackShared("handoff") \/ FallbackWeights("handoff") \/ FallbackTell("handoff")
    <3>1. command' = command
      BY <2>5 DEF FallbackRead, FallbackShared, FallbackWeights, FallbackTell, control
    <3>2. \E from, to \in Pcs : pc' = [pc EXCEPT !["handoff"] = to]
      BY <2>5 DEF FallbackRead, FallbackShared, FallbackWeights, FallbackTell
    <3> QED
      BY <3>1, <3>2
  <2>6. CASE Chunk \/ Sum \/ ReadCommon \/ ReadProtection \/ AdvanceBank
    <3>1. command' = command
      BY <2>6 DEF Chunk, Sum, ReadCommon, ReadProtection, AdvanceBank, control
    <3>2. \E from, to \in Pcs : pc' = [pc EXCEPT !["handoff"] = to]
      BY <2>6 DEF Chunk, Sum, ReadCommon, ReadProtection, AdvanceBank
    <3> QED
      BY <3>1, <3>2
  <2> QED
    BY <2>1, <2>2, <2>3, <2>4, <2>5, <2>6, <2>7
<1> QED
  BY <1>1, <1>2, <1>3, <1>4, NullsFewer

\* A command: no shared weights from its beginning, the flag, uniform weights.
LEMMA NullsSet ==
  ASSUME Placed, Flags, Weights, Nulls, NEW t \in Commanders,
         SetBegin(t) \/ SetFreeze(t) \/ SetFlag(t) \/ SetWeights(t) \/ SetTell(t)
  PROVE  Nulls'
<1> USE DEF control, tracker, latch, phase
<1>0. /\ t \in Threads /\ pc \in [Threads -> Pcs]
      /\ {"freeze", "flag", "weights", "tell", "select", "idle"} \subseteq Pcs
  BY DEF Commanders, Threads, Placed, Pcs
<1> DEFINE u == IF t = "doa" THEN "operator" ELSE "doa"
<1>1. /\ u \in Commanders /\ u # t /\ Commanders = {t, u} /\ u \in Threads
      /\ t = "doa" \/ u = "doa"
  BY DEF Commanders, Threads
<1>7. /\ pc[t] \in Setting => pc[u] \notin Setting \union Updating /\ lock # Free
      /\ lock = Free => pc[u] \notin Setting \union Updating
      /\ t # Free
  <2>1. pc["operator"] \notin Updating
    BY DEF Placed, OperatorPcs, Setting, Updating
  <2>2. CASE t = "doa"
    BY <2>1, <2>2, Alone DEF Placed, Free
  <2>3. CASE t = "operator"
    BY <2>1, <2>3, Alone DEF Placed, Free
  <2> QED
    BY <2>2, <2>3 DEF Commanders
<1> HIDE DEF u
<1>2. CASE SetBegin(t)
  <2>1. /\ pc[t] = "set" /\ pc'[t] = "freeze" /\ pc'[u] = pc[u] /\ lock = Free /\ lock' = t
        /\ shared' = Unpublished /\ UNCHANGED <<command, enabled, frozen, protection, beam>>
    BY <1>0, <1>1, <1>2, GotoMoves DEF SetBegin, Take
  <2>2. pc[u] \notin Setting \union Updating /\ t # Free /\ shared'.available = FALSE
    BY <2>1, <1>7 DEF Unpublished
  <2> QED
    BY <2>1, <2>2, <1>1 DEF Nulls, Setting, Updating
<1>3. CASE SetFreeze(t)
  <2>1. /\ pc[t] = "freeze" /\ pc'[t] = "flag" /\ pc'[u] = pc[u]
        /\ UNCHANGED <<lock, command, enabled, shared, beam>>
    BY <1>0, <1>1, <1>3, GotoMoves DEF SetFreeze
  <2>2. pc[u] \notin Setting \union Updating /\ lock # Free /\ ~shared.available
    BY <2>1, <1>7 DEF Setting, Nulls
  <2> QED
    BY <2>1, <2>2, <1>1 DEF Nulls, Setting, Updating
<1>4. CASE SetFlag(t)
  <2>1. /\ pc[t] = "flag" /\ pc'[t] = "weights" /\ pc'[u] = pc[u] /\ enabled' = command[t]
        /\ UNCHANGED <<lock, command, shared, beam>>
    BY <1>0, <1>1, <1>4, GotoMoves DEF SetFlag
  <2>2. pc[u] \notin Setting \union Updating /\ lock # Free /\ ~shared.available
    BY <2>1, <1>7 DEF Setting, Nulls
  <2> QED
    BY <2>1, <2>2, <1>1 DEF Nulls, Setting, Updating
<1>5. CASE SetWeights(t)
  <2>1. /\ pc[t] = "weights" /\ pc'[t] = "tell" /\ pc'[u] = pc[u]
        /\ UNCHANGED <<lock, command, enabled, shared>>
    BY <1>0, <1>1, <1>5, GotoMoves DEF SetWeights
  <2>2. /\ pc[u] \notin Setting \union Updating /\ lock # Free /\ ~shared.available
        /\ enabled <=> command[t]
    BY <2>1, <1>7 DEF Setting, Nulls
  <2>3. beam'.to = Uniform
    <3>1. beam' = At(Uniform) \/ Schedule(Uniform, TRUE)
      BY <1>5 DEF SetWeights
    <3>2. At(Uniform).to = Uniform
      BY DEF At
    <3>3. Schedule(Uniform, TRUE) => beam'.to = Uniform
      BY Schedules, SolutionsOfTargets DEF Weights
    <3> QED
      BY <3>1, <3>2, <3>3
  <2> QED
    BY <2>1, <2>2, <2>3, <1>1 DEF Nulls, Setting, Updating
<1>6. CASE SetTell(t)
  <2>1. /\ pc[t] = "tell" /\ pc'[t] \in {"select", "idle"} /\ pc'[u] = pc[u]
        /\ UNCHANGED <<enabled, shared, beam>>
    BY <1>0, <1>1, <1>6, GotoMoves DEF SetTell
  <2>2. pc[u] \notin Setting \union Updating /\ ~shared.available /\ beam.to = Uniform
    BY <2>1, <1>7 DEF Setting, Nulls
  <2> QED
    BY <2>1, <2>2, <1>1 DEF Nulls, Setting, Updating
<1> QED
  BY <1>2, <1>3, <1>4, <1>5, <1>6

\* An update: it decides for weights only with the latch and the frozen reference,
\* and takes what is left of a null back before it releases the lock.
LEMMA NullsUpdate ==
  ASSUME Placed, Flags, Weights, Nulls,
         \/ Update \/ Evidence \/ Decide \/ ScheduleNull \/ TellOn
         \/ FallbackRead("doa") \/ FallbackShared("doa") \/ FallbackWeights("doa") \/ FallbackTell("doa")
  PROVE  Nulls'
<1> USE DEF control, tracker, latch, phase
<1>0. /\ "doa" \in Threads /\ "operator" \in Threads /\ "operator" # "doa" /\ pc \in [Threads -> Pcs]
      /\ Updating \union {"track"} \subseteq Pcs
      /\ Commanders = {"operator", "doa"}
  BY DEF Threads, Placed, Pcs, Updating, Commanders
<1>1. /\ pc["doa"] \in Updating => pc["operator"] \notin Setting /\ lock = "doa" /\ enabled
      /\ lock = Free => pc["operator"] \notin Setting
      /\ "doa" # Free
  BY Alone DEF Placed, Free, Nulls
<1>2. CASE Update
  <2>1. CASE ~enabled /\ lock = Free /\ Goto("doa", "update", "track") /\ UNCHANGED lock
    <3>1. pc'["doa"] = "track" /\ pc'["operator"] = pc["operator"] /\ UNCHANGED <<command, enabled, protection, frozen, shared, beam>>
      BY <1>0, <1>2, <2>1, GotoMoves DEF Update
    <3> QED
      BY <3>1, <2>1, <1>0, NullsFewer DEF Setting, Updating
  <2>2. CASE enabled /\ Take("doa") /\ Goto("doa", "update", "evidence")
    <3>1. /\ pc'["doa"] = "evidence" /\ pc'["operator"] = pc["operator"] /\ lock = Free /\ lock' = "doa"
          /\ UNCHANGED <<command, enabled, protection, frozen, shared, beam>>
      BY <1>0, <1>2, <2>2, GotoMoves DEF Update, Take, Updating
    <3> QED
      BY <3>1, <2>2, <1>0, <1>1 DEF Nulls, Setting, Updating, Jammed
  <2> QED
    BY <1>2, <2>1, <2>2 DEF Update
<1>3. CASE Evidence
  <2>1. /\ pc["doa"] = "evidence" /\ pc'["doa"] = "decide" /\ pc'["operator"] = pc["operator"]
        /\ UNCHANGED <<lock, command, enabled, frozen, shared, beam>>
    BY <1>0, <1>3, GotoMoves DEF Evidence, Updating
  <2> QED
    BY <2>1, <1>0, <1>1 DEF Nulls, Setting, Updating, Jammed
<1>4. CASE Decide
  <2>0. pc["doa"] = "decide" /\ UNCHANGED <<lock, command, enabled, protection, frozen, beam>>
    BY <1>4 DEF Decide, Goto
  <2>1. CASE Goto("doa", "decide", "fallback") /\ UNCHANGED shared
    <3>1. pc'["doa"] = "fallback" /\ pc'["operator"] = pc["operator"]
      BY <1>0, <2>1, GotoMoves DEF Updating
    <3> QED
      BY <2>0, <2>1, <3>1, <1>0, <1>1 DEF Nulls, Setting, Updating, Jammed
  <2>2. CASE finding /\ protection /\ frozen /\ Goto("doa", "decide", "schedule")
    <3>1. pc'["doa"] = "schedule" /\ pc'["operator"] = pc["operator"]
      BY <1>0, <2>2, GotoMoves DEF Updating
    <3> QED
      BY <2>0, <2>2, <3>1, <1>0, <1>1 DEF Nulls, Setting, Updating, Jammed
  <2> QED
    BY <1>4, <2>1, <2>2 DEF Decide
<1>5. CASE ScheduleNull
  <2>1. /\ pc["doa"] = "schedule" /\ pc'["doa"] \in {"fallback", "on"} /\ pc'["operator"] = pc["operator"]
        /\ UNCHANGED <<lock, command, enabled, protection, frozen, shared>>
    BY <1>0, <1>5, GotoMoves DEF ScheduleNull, Updating
  <2> QED
    BY <2>1, <1>0, <1>1 DEF Nulls, Setting, Updating, Jammed
<1>6. CASE TellOn
  <2>1. /\ pc["doa"] = "on" /\ pc'["doa"] = "track" /\ pc'["operator"] = pc["operator"]
        /\ UNCHANGED <<command, enabled, protection, frozen, shared, beam>>
    BY <1>0, <1>6, GotoMoves DEF TellOn
  <2> QED
    BY <2>1, <1>0, <1>1 DEF Nulls, Setting, Updating, Jammed
<1>10. CASE FallbackRead("doa")
  <2>1. /\ pc["doa"] = "fallback" /\ pc'["doa"] \in {"return", "unpublish"}
        /\ pc'["doa"] = "return" => protection
        /\ pc'["operator"] = pc["operator"]
        /\ UNCHANGED <<lock, command, enabled, protection, frozen, shared, beam>>
    BY <1>0, <1>10, GotoMoves DEF FallbackRead, Updating
  <2> QED
    BY <2>1, <1>0, <1>1 DEF Nulls, Setting, Updating, Jammed
<1>7. CASE FallbackShared("doa")
  <2>1. /\ pc["doa"] = "unpublish" /\ pc'["doa"] = "return" /\ pc'["operator"] = pc["operator"]
        /\ UNCHANGED <<lock, command, enabled, protection, frozen, beam>>
        /\ shared'.available = FALSE
    BY <1>0, <1>7, GotoMoves DEF FallbackShared, Updating, Unpublished
  <2> QED
    BY <2>1, <1>0, <1>1 DEF Nulls, Setting, Updating, Jammed
<1>8. CASE FallbackWeights("doa")
  <2>1. /\ pc["doa"] = "return" /\ pc'["doa"] = "fallen" /\ pc'["operator"] = pc["operator"]
        /\ UNCHANGED <<lock, command, enabled, protection, frozen, shared>>
    BY <1>0, <1>8, GotoMoves DEF FallbackWeights, Updating
  <2>2. beam'.to = Uniform
    BY <1>8, Schedules, SolutionsOfTargets DEF FallbackWeights, Weights
  <2> QED
    BY <2>1, <2>2, <1>0, <1>1 DEF Nulls, Setting, Updating, Jammed
<1>9. CASE FallbackTell("doa")
  <2>1. /\ pc["doa"] = "fallen" /\ pc'["doa"] = "track" /\ pc'["operator"] = pc["operator"]
        /\ UNCHANGED <<command, enabled, protection, frozen, shared, beam>>
    BY <1>0, <1>9, GotoMoves DEF FallbackTell
  <2> QED
    BY <2>1, <1>0, <1>1 DEF Nulls, Setting, Updating, Jammed
<1> QED
  BY <1>2, <1>3, <1>4, <1>5, <1>6, <1>7, <1>8, <1>9, <1>10

LEMMA NullsStay ==
  ASSUME Placed, Flags, Weights, Nulls, Steps
  PROVE  Nulls'
<1>1. CASE \E t \in Commanders : SetBegin(t) \/ SetFreeze(t) \/ SetFlag(t) \/ SetWeights(t) \/ SetTell(t)
  BY <1>1, NullsSet
<1>2. CASE \/ Update \/ Evidence \/ Decide \/ ScheduleNull \/ TellOn
           \/ FallbackRead("doa") \/ FallbackShared("doa") \/ FallbackWeights("doa") \/ FallbackTell("doa")
  BY <1>2, NullsUpdate
<1>3. CASE \/ Command \/ ReferenceAges \/ Tick
           \/ Track \/ LearnReference \/ TellOff \/ MayArm \/ Arm \/ Select
           \/ FallbackRead("handoff") \/ FallbackShared("handoff") \/ FallbackWeights("handoff") \/ FallbackTell("handoff")
           \/ Chunk \/ Sum \/ ReadCommon \/ ReadProtection \/ AdvanceBank
  BY <1>3, NullsOutside
<1> QED
  BY <1>1, <1>2, <1>3 DEF Steps

\* The steps of the operator's commands and of the arming.
ObeyedSteps ==
  \/ Command \/ MayArm \/ Arm
  \/ \E t \in Commanders : SetBegin(t) \/ SetFreeze(t) \/ SetFlag(t) \/ SetWeights(t) \/ SetTell(t)

\* No other step brings the arming on its way.
LEMMA ObeyedByOthers ==
  ASSUME Placed, Obeyed, Steps, ~ObeyedSteps
  PROVE  Obeyed'
<1> USE DEF control, tracker, latch, phase
<1>0. pc \in [Threads -> Pcs] /\ "doa" \in Threads /\ "operator" \in Threads
  BY DEF Placed, Threads
<1>1. UNCHANGED <<command, ordered, crossed, enabled, suppressed>>
  BY DEF Steps, ObeyedSteps, ReferenceAges, Tick,
    Track, LearnReference, TellOff, Select, Update, Evidence, Decide, ScheduleNull, TellOn,
    FallbackRead, FallbackShared, FallbackWeights, FallbackTell, Chunk, Sum, ReadCommon, ReadProtection, AdvanceBank
<1> DEFINE Moves(t) == \E to \in {"track", "learn", "off", "arm", "select", "update", "chunk", "sum",
                                   "common", "protection", "advance"} \union Updating :
                         pc' = [pc EXCEPT ![t] = to]
<1>2. pc'["operator"] = pc["operator"] /\ (pc'["doa"] = pc["doa"] \/ pc'["doa"] \notin {"ready", "set"} \union Setting)
  <2>1. CASE ReferenceAges \/ Tick
    BY <2>1 DEF ReferenceAges, Tick
  <2>2. CASE \/ Track \/ LearnReference \/ TellOff \/ Select \/ Update \/ Evidence \/ Decide
             \/ ScheduleNull \/ TellOn
    <3>1. Moves("doa")
      BY <2>2 DEF Track, LearnReference, TellOff, Select, Update, Evidence, Decide, ScheduleNull, TellOn,
        Goto, Updating
    <3> QED
      BY <1>0, <3>1 DEF Updating, Setting
  <2>3. CASE FallbackRead("doa") \/ FallbackShared("doa") \/ FallbackWeights("doa") \/ FallbackTell("doa")
    <3>1. Moves("doa")
      BY <2>3 DEF FallbackRead, FallbackShared, FallbackWeights, FallbackTell, Goto, Updating
    <3> QED
      BY <1>0, <3>1 DEF Updating, Setting
  <2>4. CASE \/ FallbackRead("handoff") \/ FallbackShared("handoff") \/ FallbackWeights("handoff")
             \/ FallbackTell("handoff") \/ Chunk \/ Sum \/ ReadCommon \/ ReadProtection \/ AdvanceBank
    <3>1. Moves("handoff")
      BY <2>4 DEF FallbackRead, FallbackShared, FallbackWeights, FallbackTell, Chunk, Sum, ReadCommon,
        ReadProtection, AdvanceBank, Goto, Updating
    <3> QED
      BY <1>0, <3>1
  <2> QED
    BY <2>1, <2>2, <2>3, <2>4 DEF Steps, ObeyedSteps
<1> QED
  BY <1>1, <1>2 DEF Obeyed, Off

\* A disable suppresses the arming before it returns, and enables of the arming
\* that was not on its way before it do not come after it.
LEMMA ObeyedStays ==
  ASSUME Placed, Flags, Nulls, Obeyed, Steps
  PROVE  Obeyed'
<1>0. /\ pc \in [Threads -> Pcs] /\ "doa" \in Threads /\ "operator" \in Threads
      /\ {"freeze", "flag", "weights", "tell", "idle", "set", "select", "ready"} \subseteq Pcs
      /\ Commanders = {"operator", "doa"} /\ pc["operator"] \in {"idle", "set"} \union Setting
  BY DEF Placed, Threads, Pcs, Commanders, OperatorPcs
<1>1. pc["operator"] \in Setting => pc["doa"] \notin Setting
  BY Alone
<1> USE DEF control
<1>2. CASE Command
  <2>1. /\ pc["operator"] = "idle" /\ pc'["operator"] = "set" /\ pc'["doa"] = pc["doa"]
        /\ UNCHANGED <<ordered, crossed, enabled, suppressed>>
    BY <1>0, <1>2, GotoMoves DEF Command
  <2> QED
    BY <2>1 DEF Obeyed, Off, Setting
<1>3. CASE MayArm \/ Arm
  <2>1. /\ pc'["operator"] = pc["operator"] /\ command'["operator"] = command["operator"]
        /\ UNCHANGED <<ordered, crossed, enabled, suppressed>>
    <3>1. UNCHANGED <<ordered, crossed, enabled, suppressed>>
      BY <1>3 DEF MayArm, Arm
    <3>2. command' = command \/ command' = [command EXCEPT !["doa"] = TRUE]
      BY <1>3 DEF MayArm, Arm
    <3>3. \E to \in Pcs : pc' = [pc EXCEPT !["doa"] = to]
      BY <1>0, <1>3 DEF MayArm, Arm, Goto
    <3> QED
      BY <1>0, <3>1, <3>2, <3>3 DEF Flags
  <2>2. /\ Arm => pc["doa"] = "ready"
        /\ MayArm => pc'["doa"] = "select" \/ ~suppressed
        /\ pc'["doa"] \in {"ready", "set", "select"}
    BY <1>0, <1>3 DEF MayArm, Arm, Goto
  <2>3. Arm => pc'["doa"] \in {"set", "select"}
    BY <1>0 DEF Arm, Goto
  <2> QED
    BY <1>3, <2>1, <2>2, <2>3 DEF Obeyed, Off, Setting
<1>4. CASE SetBegin("operator")
  <2>1. /\ pc["operator"] = "set" /\ pc'["operator"] = "freeze" /\ pc'["doa"] = pc["doa"] /\ lock = Free
        /\ command' = command
        /\ suppressed' = ~command["operator"]
        /\ crossed' = (~command["operator"] /\ pc["doa"] \in {"ready", "set"})
    BY <1>0, <1>4, GotoMoves DEF SetBegin, Take
  <2>2. pc["doa"] \notin Setting
    BY <2>1, Alone DEF Free
  <2> QED
    BY <2>1, <2>2 DEF Obeyed, Off, Setting
<1>5. CASE SetFreeze("operator") \/ SetWeights("operator")
  <2>1. /\ pc["operator"] \in {"freeze", "weights"} /\ pc'["operator"] \in {"flag", "tell"}
        /\ pc["operator"] = "freeze" => pc'["operator"] = "flag"
        /\ pc'["doa"] = pc["doa"]
        /\ UNCHANGED <<command, ordered, crossed, enabled, suppressed>>
    BY <1>0, <1>5, GotoMoves DEF SetFreeze, SetWeights
  <2> QED
    BY <2>1 DEF Obeyed, Off, Setting
<1>6. CASE SetFlag("operator")
  <2>1. /\ pc["operator"] = "flag" /\ pc'["operator"] = "weights" /\ pc'["doa"] = pc["doa"]
        /\ enabled' = command["operator"]
        /\ UNCHANGED <<command, ordered, crossed, suppressed>>
    BY <1>0, <1>6, GotoMoves DEF SetFlag
  <2> QED
    BY <2>1 DEF Obeyed, Off, Setting
<1>7. CASE SetTell("operator")
  <2>1. /\ pc["operator"] = "tell" /\ pc'["operator"] = "idle" /\ pc'["doa"] = pc["doa"]
        /\ ordered' = command["operator"]
        /\ UNCHANGED <<crossed, enabled, suppressed>>
    BY <1>0, <1>7, GotoMoves DEF SetTell
  <2> QED
    BY <2>1 DEF Obeyed, Off, Setting
<1>8. CASE SetBegin("doa") \/ SetFreeze("doa") \/ SetFlag("doa") \/ SetWeights("doa") \/ SetTell("doa")
  <2>1. /\ pc["doa"] \in {"set"} \union Setting /\ pc'["operator"] = pc["operator"]
        /\ pc'["doa"] \in {"select"} \union Setting
        /\ UNCHANGED <<ordered, crossed, suppressed>>
    BY <1>0, <1>8, GotoMoves DEF SetBegin, SetFreeze, SetFlag, SetWeights, SetTell, Setting
  <2>2. command'["operator"] = command["operator"]
    BY <1>8, <1>0 DEF SetBegin, SetFreeze, SetFlag, SetWeights, SetTell, Flags
  <2> QED
    BY <2>1, <2>2 DEF Obeyed, Off
<1>9. CASE ~ObeyedSteps
  BY <1>9, ObeyedByOthers
<1> QED
  BY <1>0, <1>2, <1>3, <1>4, <1>5, <1>6, <1>7, <1>8, <1>9 DEF ObeyedSteps

-----------------------------------------------------------------------------
LEMMA Initially == Init => IInv
<1> SUFFICES ASSUME Init
             PROVE  IInv
  OBVIOUS
<1> USE DEF Init
<1>1. Placed
  BY DEF Placed, Threads, Pcs, OperatorPcs, DoaPcs, HandoffPcs, Setting, Updating, Free
<1>2. Flags
  <2>1. command \in [Commanders -> BOOLEAN]
    BY DEF Commanders
  <2>2. commands \in 0..MaxCommands
    BY LcmvBoundsAssumption
  <2> QED
    BY <2>1, <2>2 DEF Flags
<1>3. Weights
  <2>1. 0 \in 0..Ramp /\ 0 \in Nat
    BY RampAssumption
  <2>2. row \in Rows /\ (~row.desired => row.passes < MinUpdates)
    <3>1. NewRow(0, Uniform) \in KnownRows
      BY <2>1, NewRowKnown, SolutionsOfTargets
    <3> QED
      BY <3>1 DEF KnownRows
  <2>3. beam \in [shape : Solutions, to : Targets, left : 0..Ramp]
    BY <2>1, SolutionsOfTargets DEF At
  <2>4. /\ shared \in [weights : Protections, available : BOOLEAN]
        /\ read \in [enabled : BOOLEAN, common : Targets, protection : Protections]
        /\ bank \in [previous : BOOLEAN, last : Solutions, out : Solutions]
    BY SolutionsOfTargets DEF Idle
  <2> QED
    BY <2>2, <2>3, <2>4 DEF Weights
<1>4. Nulls
  BY DEF Nulls, Commanders, Setting, Updating, At
<1>5. Obeyed
  BY DEF Obeyed, Off, Setting
<1>6. Quiet
  BY LcmvBoundsAssumption DEF Quiet, None
<1> QED
  BY <1>1, <1>2, <1>3, <1>4, <1>5, <1>6 DEF IInv

LEMMA Inductive == IInv /\ [Next]_vars => IInv'
<1> SUFFICES ASSUME IInv, [Next]_vars
             PROVE  IInv'
  OBVIOUS
<1>1. CASE Next
  BY <1>1, NextSteps, PlacedStays, FlagsStay, WeightsStay, NullsStay, ObeyedStays, QuietLasts DEF IInv
<1>2. CASE UNCHANGED vars
  <2> USE <1>2 DEF vars, control, tracker, latch, phase
  <2>1. Placed' /\ Flags' /\ Quiet'
    BY DEF IInv, Placed, Flags, Quiet
  <2>2. Weights'
    BY DEF IInv, Weights
  <2>3. Nulls' /\ Obeyed'
    BY DEF IInv, Nulls, Obeyed, Off, Jammed
  <2> QED
    BY <2>1, <2>2, <2>3 DEF IInv
<1> QED
  BY <1>1, <1>2

\* The inductive invariant holds, for all constants.
THEOREM Invariance == Spec => []IInv
  BY Initially, Inductive, PTL DEF Spec

LEMMA InvIsTyped == IInv => TypeOK
<1> SUFFICES ASSUME IInv
             PROVE  TypeOK
  OBVIOUS
<1>1. /\ pc \in [Threads -> Pcs] /\ lock \in {Free, "operator", "doa"}
      /\ command \in [{"operator", "doa"} -> BOOLEAN] /\ commands \in 0..MaxCommands
      /\ status \in {"off", "fallback", "on"}
  BY DEF IInv, Placed, Flags, Commanders
<1>2. {ordered, crossed, enabled, suppressed, protection, stable, reference, frozen, finding} \subseteq BOOLEAN
  BY DEF IInv, Flags
<1>3. since \in 0..None /\ quiet \in 0..Hold
  BY DEF IInv, Quiet
<1>4. shared \in [weights : Measured \union {Uniform}, available : BOOLEAN]
  BY DEF IInv, Weights, Protections
<1>5. /\ beam.shape \in Solutions /\ beam.to \in {Uniform} \union Common /\ beam.left \in 0..Ramp
      /\ bank.out \in Solutions
  BY DEF IInv, Weights, Targets
<1>6. row.shape \in Solutions /\ row.left \in 0..Ramp /\ row.passes \in 0..MinUpdates
  BY DEF IInv, Weights, Rows
<1> QED
  BY <1>1, <1>2, <1>3, <1>4, <1>5, <1>6 DEF TypeOK

LEMMA InvNeedsJammer == IInv => NullNeedsJammer
  BY DEF IInv, Nulls, NullNeedsJammer, Jammed

\* While a disable is in force no update is under way: an update needs the flag.
LEMMA InvHolds == IInv => DisableHolds
<1> SUFFICES ASSUME IInv, ~ordered, pc["operator"] = "idle", ~crossed
             PROVE  ~enabled /\ beam.to = Uniform /\ ~shared.available
  BY DEF DisableHolds
<1>1. ~enabled /\ pc["doa"] \notin Setting
  BY DEF IInv, Obeyed, Off, Setting
<1>2. pc["doa"] \notin Updating
  BY <1>1 DEF IInv, Nulls
<1>3. lock = Free
  BY <1>1, <1>2 DEF IInv, Placed, Setting
<1> QED
  BY <1>1, <1>3 DEF IInv, Nulls, Jammed

\* With or without the automatic arming and the row per source, no moment at which
\* the lock is free sees a null without an enabled LCMV, a latched jammer and a
\* frozen reference.
THEOREM NullsAreJustified == Spec => []NullNeedsJammer
  BY Invariance, InvNeedsJammer, PTL

\* In every configuration, the shipped one with its automatic arming too, a disable
\* that has returned stays in force, unless an arming was on its way already.
THEOREM ProtectionWanted == Spec => []ProtectionIsWanted
<1>1. IInv => ProtectionIsWanted
  BY InvIsTyped, InvNeedsJammer, InvHolds DEF ProtectionIsWanted
<1> QED
  BY <1>1, Invariance, PTL

\* The hold of the release: for a whole Hold there was no other evidence than that
\* below the lower thresholds, whatever commands and threads did in between.
THEOREM HeldRelease == Spec => ReleaseIsHeld
<1>1. IInv /\ [Next]_vars => [(pc["doa"] = "evidence" /\ protection /\ ~protection') => quiet = Hold]_vars
  <2> SUFFICES ASSUME IInv, Next, pc["doa"] = "evidence", protection, ~protection'
               PROVE  quiet = Hold
    OBVIOUS
  <2>1. pc["operator"] \notin Setting
    BY Alone DEF IInv, Updating
  <2>2. ~ \E t \in Commanders : SetFreeze(t)
    BY <2>1 DEF SetFreeze, Goto, Commanders, Setting
  <2>3. Evidence
    <3> USE DEF latch
    <3>1. Steps
      BY NextSteps
    <3> QED
      BY <3>1, <2>2 DEF Steps, Command, ReferenceAges, Tick, SetBegin, SetFlag, SetWeights, SetTell,
        Track, LearnReference, TellOff, MayArm, Arm, Select, Update, Decide, ScheduleNull, TellOn,
        FallbackRead, FallbackShared, FallbackWeights, FallbackTell, Chunk, Sum, ReadCommon, ReadProtection, AdvanceBank
  <2>4. (IF since = None THEN 0 ELSE since) >= Hold
    BY <2>3 DEF Evidence
  <2>5. Hold \in Nat /\ None = Hold + 1 /\ since \in 0..None /\ quiet \in 0..Hold /\ (since # None => since <= quiet)
    BY LcmvBoundsAssumption DEF IInv, Quiet, None
  <2> QED
    BY <2>4, <2>5
<1> QED
  BY <1>1, Invariance, PTL DEF Spec, ReleaseIsHeld
=============================================================================
