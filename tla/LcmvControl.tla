---------------------------- MODULE LcmvControl ----------------------------
(***************************************************************************)
(* The LCMV protection of the backend (runtime/backend.py): the operator's *)
(* enable and disable, the DOA thread that tracks a healthy reference, arms*)
(* automatically after a PVT and updates the protection with every chunk,  *)
(* and the handoff thread that applies the weights: one beam, or with      *)
(* Fanout a row of PhaseBank per source (one source here).                 *)
(*                                                                         *)
(* Operator and DOA updates hold _lcmv_control_lock; the healthy tracking, *)
(* the check before the automatic arming and the handoff thread do not.    *)
(* Each step below is what one thread does under one inner lock, or        *)
(* between two.  preserve_mode is realtime_bladerf_measured_u1.            *)
(*                                                                         *)
(* What is computed from samples is chosen: the evidence for a jammer, the *)
(* finding, the verdict on candidate weights.  Time is the age of the      *)
(* release candidate, up to Hold.  MaxCommands bounds the commands of the  *)
(* operator; the automatic arming, once per disabled stretch, needs none.  *)
(***************************************************************************)
EXTENDS PhaseBank

CONSTANTS Fanout,      \* gnss_shared_u1_phase_compensation_enabled
          AutoArm,     \* lcmv_auto_arm_after_pvt
          Hold,        \* lcmv_jammer_release_hold_s
          Satellites,  \* what the channel may track
          Fits,        \* may weights be rejected by their norm: subset of BOOLEAN
          Common,      \* null solutions of the common beam
          Measured,    \* null solutions for the measured U1
          MaxCommands

ASSUME FlagsAssumption == Fanout \in BOOLEAN /\ AutoArm \in BOOLEAN /\ Fits \subseteq BOOLEAN
ASSUME LcmvBoundsAssumption == Hold \in Nat /\ MaxCommands \in Nat
                               /\ Satellites \subseteq Nat
ASSUME SolutionsAssumption ==
  /\ Common \union Measured \subseteq Nat \ {Uniform, Mixed}
  /\ Common \intersect Measured = {}

Levels == {"upper", "between", "lower", "missing"}

Free == "free"
None == Hold + 1      \* no release candidate

VARIABLES
  pc, lock,     \* threads and _lcmv_control_lock
  command,      \* what the operator and the automatic arming are about to set
  commands,     \* commands of the operator
  ordered,      \* history: the last command of the operator that has returned
  crossed,      \* history: when its disable began, an automatic arming was on its way
  enabled, suppressed,  \* _lcmv_test_enabled, _lcmv_auto_arm_suppressed_by_operator
  protection, since,    \* _lcmv_jammer_protection_active, age of the release candidate
  quiet,        \* time since evidence other than "lower", for the properties
  stable, reference, frozen, \* tracker stable, healthy reference ready, reference frozen
  shared,       \* protection weights and their availability
  beam,         \* the common weights with their ramp
  status,       \* mode of _latest_lcmv_test, which says enabled unless "off"
  finding,      \* of the DOA thread: the reference was updated, then: there is a target
  bank, row,    \* the phase bank: what it keeps of the last chunk, the source
  read          \* what the handoff thread has read for its chunk

control == <<command, commands, ordered, crossed, enabled, suppressed>>
tracker == <<stable, reference, frozen>>
latch   == <<protection, since, quiet>>
phase   == <<bank, row, read>>
vars == <<pc, lock, control, tracker, latch, shared, beam, status, finding, phase>>

Idle == [enabled |-> FALSE, common |-> Uniform, protection |-> Uniform]

Init ==
  /\ pc = [operator |-> "idle", doa |-> "track", handoff |-> "chunk"]
  /\ lock = Free
  /\ command = [t \in {"operator", "doa"} |-> FALSE] /\ commands = 0
  /\ ordered = TRUE /\ crossed = FALSE
  /\ enabled = FALSE /\ suppressed = FALSE
  /\ protection = FALSE /\ since = None /\ quiet = 0
  /\ stable = FALSE /\ reference = FALSE /\ frozen = FALSE
  /\ shared = [weights |-> Uniform, available |-> FALSE]
  /\ beam = At(Uniform)
  /\ status = "off"
  /\ finding = FALSE
  /\ bank = [previous |-> FALSE, last |-> Mixed, out |-> Uniform]
  /\ row = NewRow(0, Uniform)
  /\ read = Idle

Goto(t, from, to) == pc[t] = from /\ pc' = [pc EXCEPT ![t] = to]

Take(t) == lock = Free /\ lock' = t
Release(t) == lock' = IF lock = t THEN Free ELSE lock

Unpublished == [weights |-> Uniform, available |-> FALSE]

-----------------------------------------------------------------------------
(* Common weights: _schedule_beamformer_weights                            *)

\* The same target changes nothing; a ramp is only cut short by a fallback or
\* an operator.
Schedule(solution, preempt) ==
  beam' = IF solution = beam.to \/ (beam.left > 0 /\ ~preempt) THEN beam
          ELSE RampTo(beam, solution, Ramp)

-----------------------------------------------------------------------------
(* set_lcmv_test_enabled, for the operator or the automatic arming         *)

Command ==
  \E on \in BOOLEAN :
    /\ commands < MaxCommands
    /\ Goto("operator", "idle", "set")
    /\ command' = [command EXCEPT !["operator"] = on]
    /\ commands' = commands + 1
    /\ UNCHANGED <<lock, ordered, crossed, enabled, suppressed, tracker, latch, shared, beam,
                   status, finding, phase>>

\* The lock, the suppression of the automatic arming, no shared weights
SetBegin(t) ==
  /\ Take(t) /\ Goto(t, "set", "freeze")
  /\ IF t = "operator"
       THEN /\ suppressed' = ~command[t]
            /\ crossed' = (~command[t] /\ pc["doa"] \in {"ready", "set"})
       ELSE UNCHANGED <<suppressed, crossed>>
  /\ shared' = Unpublished
  /\ UNCHANGED <<command, commands, ordered, enabled, tracker, latch, beam, status, finding, phase>>

\* Under the results lock: an enable freezes a ready reference, a disable
\* forgets the tracker; both end the protection.
SetFreeze(t) ==
  /\ Goto(t, "freeze", "flag")
  /\ frozen' = (command[t] /\ stable /\ reference)
  /\ stable' = (command[t] /\ stable)
  /\ protection' = FALSE /\ since' = None /\ quiet' = 0
  /\ UNCHANGED <<lock, control, reference, shared, beam, status, finding, phase>>

SetFlag(t) ==
  /\ Goto(t, "flag", "weights")
  /\ enabled' = command[t]
  /\ UNCHANGED <<lock, command, commands, ordered, crossed, suppressed, tracker, latch, shared,
                 beam, status, finding, phase>>

\* An enable applies uniform weights at once, a disable ramps to them.
SetWeights(t) ==
  /\ Goto(t, "weights", "tell")
  /\ IF command[t] THEN beam' = At(Uniform) ELSE Schedule(Uniform, TRUE)
  /\ UNCHANGED <<lock, control, tracker, latch, shared, status, finding, phase>>

SetTell(t) ==
  /\ Goto(t, "tell", IF t = "doa" THEN "select" ELSE "idle")
  /\ status' = IF command[t] THEN "fallback" ELSE "off"
  /\ ordered' = IF t = "operator" THEN command[t] ELSE ordered
  /\ command' = [command EXCEPT ![t] = FALSE]
  /\ Release(t)
  /\ UNCHANGED <<commands, crossed, enabled, suppressed, tracker, latch, shared, beam,
                 finding, phase>>

-----------------------------------------------------------------------------
(* The DOA thread, for each result of the phase stage                      *)

\* _update_realtime_bladerf_angle_tracker: frozen while LCMV is enabled
Track ==
  /\ Goto("doa", "track", "learn")
  /\ stable' \in IF enabled THEN {stable} ELSE BOOLEAN
  /\ UNCHANGED <<lock, control, reference, frozen, latch, shared, beam, status, finding, phase>>

\* _update_healthy_reference_tracking_from_music: nothing while enabled, else
\* the reference is refreshed if LCMV is off by its status too
LearnReference ==
  /\ \/ enabled /\ Goto("doa", "learn", "select") /\ UNCHANGED <<reference, finding>>
     \/ /\ ~enabled /\ Goto("doa", "learn", "off")
        /\ finding' \in IF status = "off" THEN BOOLEAN ELSE {FALSE}
        /\ reference' = (reference \/ finding')
  /\ UNCHANGED <<lock, control, stable, frozen, latch, shared, beam, status, phase>>

\* Its status, whatever was set meanwhile
TellOff ==
  /\ Goto("doa", "off", "arm")
  /\ status' = "off"
  /\ UNCHANGED <<lock, control, tracker, latch, shared, beam, finding, phase>>

\* Fault: the operator's disable does not suppress the automatic arming.
MayArmAgain ==
  /\ Goto("doa", "arm", IF Fanout /\ AutoArm /\ ~enabled /\ finding THEN "ready" ELSE "select")
  /\ finding' = FALSE
  /\ UNCHANGED <<lock, control, tracker, latch, shared, beam, status, phase>>

\* _maybe_auto_arm_lcmv_after_pvt: the flags, without a lock ...
MayArm ==
  /\ Goto("doa", "arm",
          IF Fanout /\ AutoArm /\ ~suppressed /\ ~enabled /\ finding THEN "ready" ELSE "select")
  /\ finding' = FALSE
  /\ UNCHANGED <<lock, control, tracker, latch, shared, beam, status, phase>>

\* ... then the tracker and the reference; no PVT, or an old reference, arms not.
Arm ==
  \/ /\ stable /\ reference
     /\ Goto("doa", "ready", "set")
     /\ command' = [command EXCEPT !["doa"] = TRUE]
     /\ UNCHANGED <<lock, commands, ordered, crossed, enabled, suppressed, tracker, latch,
                    shared, beam, status, finding, phase>>
  \/ /\ Goto("doa", "ready", "select")
     /\ UNCHANGED <<lock, control, tracker, latch, shared, beam, status, finding, phase>>

\* A reference that is not refreshed is too old after two seconds.
ReferenceAges ==
  /\ reference /\ reference' = FALSE
  /\ UNCHANGED <<pc, lock, control, stable, frozen, latch, shared, beam, status, finding, phase>>

\* _select_lcmv_target_from_doa_metrics: no target without a frozen angle
Select ==
  /\ Goto("doa", "select", "update")
  /\ finding' \in IF frozen THEN BOOLEAN ELSE {FALSE}
  /\ UNCHANGED <<lock, control, tracker, latch, shared, beam, status, phase>>

\* Fault: whether LCMV is enabled is checked without the lock.
UpdateUnlocked ==
  /\ Goto("doa", "update", IF enabled THEN "evidence" ELSE "track")
  /\ UNCHANGED <<lock, control, tracker, latch, shared, beam, status, finding, phase>>

\* _update_lcmv_test_from_music: the lock, and nothing if LCMV is off
Update ==
  /\ \/ ~enabled /\ lock = Free /\ Goto("doa", "update", "track") /\ UNCHANGED lock
     \/ enabled /\ Take("doa") /\ Goto("doa", "update", "evidence")
  /\ UNCHANGED <<control, tracker, latch, shared, beam, status, finding, phase>>

\* Fault: evidence between the thresholds does not restart the hold.
EvidenceKeepsCandidate ==
  /\ Goto("doa", "evidence", "decide")
  /\ \E level \in IF frozen THEN Levels ELSE {"missing"} :
       /\ quiet' = IF level = "lower" THEN quiet ELSE 0
       /\ LET age == IF since = None THEN 0 ELSE since
          IN CASE level = "upper" -> protection' = TRUE /\ since' = None
             [] ~protection -> protection' = FALSE /\ since' = None
             [] level = "lower" -> protection' = (age < Hold) /\ since' = IF age < Hold THEN age ELSE None
             [] OTHER -> UNCHANGED <<protection, since>>
  /\ UNCHANGED <<lock, control, tracker, shared, beam, status, finding, phase>>

\* _lcmv_jammer_activation_evidence: the upper thresholds latch the protection,
\* the lower ones release it once they have held; anything else restarts the
\* hold.  Without a frozen baseline there is no evidence.
Evidence ==
  /\ Goto("doa", "evidence", "decide")
  /\ \E level \in IF frozen THEN Levels ELSE {"missing"} :
       LET age == IF since = None THEN 0 ELSE since
           low == protection /\ level = "lower"
       IN  /\ quiet' = IF level = "lower" THEN quiet ELSE 0
           /\ protection' = (level = "upper" \/ (protection /\ ~(low /\ age >= Hold)))
           /\ since' = IF low /\ age < Hold THEN age ELSE None
  /\ UNCHANGED <<lock, control, tracker, shared, beam, status, finding, phase>>

\* The clock.
Tick ==
  /\ since < Hold \/ (protection /\ quiet < Hold)
  /\ since' = IF since < Hold THEN since + 1 ELSE since
  /\ quiet' = IF quiet < Hold THEN quiet + 1 ELSE quiet
  /\ UNCHANGED <<pc, lock, control, tracker, protection, shared, beam, status, finding, phase>>

\* No target, no jammer, or weights that cannot be computed: the fallback.
\* Else accepted measured-U1 weights are published, computed afresh and so other
\* than those the bank has seen last.
Decide ==
  /\ \/ Goto("doa", "decide", "fallback") /\ UNCHANGED shared
     \/ /\ finding /\ protection /\ frozen
        /\ Goto("doa", "decide", "schedule")
        /\ \/ UNCHANGED shared
           \/ \E w \in Measured \ {shared.weights, bank.last} :
                shared' = [weights |-> w, available |-> TRUE]
  /\ finding' = FALSE
  /\ UNCHANGED <<lock, control, tracker, latch, beam, status, phase>>

\* The active weights, if they are accepted; no ramp is preempted.
ScheduleNull ==
  /\ \/ Goto("doa", "schedule", "fallback") /\ UNCHANGED beam
     \/ /\ Goto("doa", "schedule", "on")
        /\ \E solution \in Common : Schedule(solution, FALSE)
  /\ UNCHANGED <<lock, control, tracker, latch, shared, status, finding, phase>>

TellOn ==
  /\ Goto("doa", "on", "track")
  /\ status' = "on"
  /\ Release("doa")
  /\ UNCHANGED <<control, tracker, latch, shared, beam, finding, phase>>

-----------------------------------------------------------------------------
(* _activate_lcmv_test_fallback, in the DOA or the handoff thread          *)

\* The latch is read ...
FallbackRead(t) ==
  /\ Goto(t, "fallback", IF protection THEN "return" ELSE "unpublish")
  /\ UNCHANGED <<lock, control, tracker, latch, shared, beam, status, finding, phase>>

\* ... and then the protection weights are taken back.
FallbackShared(t) ==
  /\ Goto(t, "unpublish", "return")
  /\ shared' = Unpublished
  /\ UNCHANGED <<lock, control, tracker, latch, beam, status, finding, phase>>

FallbackWeights(t) ==
  /\ Goto(t, "return", "fallen")
  /\ Schedule(Uniform, TRUE)
  /\ UNCHANGED <<lock, control, tracker, latch, shared, status, finding, phase>>

FallbackTell(t) ==
  /\ Goto(t, "fallen", IF t = "doa" THEN "track" ELSE "chunk")
  /\ status' = "fallback"
  /\ Release(t)
  /\ UNCHANGED <<control, tracker, latch, shared, beam, finding, phase>>

-----------------------------------------------------------------------------
(* The handoff thread, for each chunk                                      *)

\* The ramp of the common weights; with Fanout the latch is read
Chunk ==
  /\ Goto("handoff", "chunk", IF Fanout THEN "common" ELSE "sum")
  /\ beam' = AdvanceRamp(beam)
  /\ read' = [Idle EXCEPT !.enabled = Fanout /\ protection]
  /\ UNCHANGED <<lock, control, tracker, latch, shared, status, finding, bank, row>>

\* _gnss_beamformed_output_vector: a chunk that cannot be combined is an error
\* of the pipeline, while LCMV is enabled a reason to fall back
Sum ==
  /\ Goto("handoff", "sum", "chunk") \/ (enabled /\ Goto("handoff", "sum", "fallback"))
  /\ UNCHANGED <<lock, control, tracker, latch, shared, beam, status, finding, phase>>

\* _gnss_shared_u1_phase_output_matrix: the target of the common weights
ReadCommon ==
  /\ Goto("handoff", "common", "protection")
  /\ read' = [read EXCEPT !.enabled = @ /\ enabled, !.common = beam.to]
  /\ UNCHANGED <<lock, control, tracker, latch, shared, beam, status, finding, bank, row>>

ReadProtection ==
  /\ Goto("handoff", "protection", "advance")
  /\ read' = [read EXCEPT !.protection = shared.weights]
  /\ UNCHANGED <<lock, control, tracker, latch, shared, beam, status, finding, bank, row>>

\* Their availability, and the bank
AdvanceBank ==
  /\ Goto("handoff", "advance", "chunk")
  /\ LET changed == shared.available /\ bank.last # read.protection
     IN  \E prn \in Satellites, vector \in {"none", "agrees", "differs"}, fits \in Fits :
           /\ row' = IF prn = 0 THEN row  \* the source gets the common weights
                     ELSE AdvanceRow(row, [prn |-> prn, vector |-> vector, fits |-> fits,
                            enabled |-> read.enabled, previous |-> bank.previous,
                            available |-> shared.available, changed |-> changed,
                            common |-> read.common, protection |-> read.protection])
           /\ bank' = [previous |-> read.enabled,
                       last |-> IF changed THEN read.protection ELSE bank.last,
                       out |-> IF prn = 0 THEN read.common ELSE row'.shape]
  /\ read' = Idle
  /\ UNCHANGED <<lock, control, tracker, latch, shared, beam, status, finding>>

-----------------------------------------------------------------------------
Set(t) == SetBegin(t) \/ SetFreeze(t) \/ SetFlag(t) \/ SetWeights(t) \/ SetTell(t)

Fallback(t) == FallbackRead(t) \/ FallbackShared(t) \/ FallbackWeights(t) \/ FallbackTell(t)

Doa == \/ Track \/ LearnReference \/ TellOff \/ MayArm \/ Arm \/ Set("doa")
       \/ Select \/ Update \/ Evidence \/ Decide \/ ScheduleNull \/ TellOn \/ Fallback("doa")

Handoff == Chunk \/ Sum \/ ReadCommon \/ ReadProtection \/ AdvanceBank \/ Fallback("handoff")

Next == Command \/ Set("operator") \/ Doa \/ ReferenceAges \/ Tick \/ Handoff

\* The threads run; the operator need not command.  A command that waits for the
\* lock gets it: the DOA thread sleeps between two updates.
Fairness == /\ WF_vars(Doa) /\ WF_vars(Handoff)
            /\ SF_vars(SetBegin("operator")) /\ WF_vars(Set("operator"))

Spec == Init /\ [][Next]_vars

FairSpec == Spec /\ Fairness

-----------------------------------------------------------------------------
Solutions == {Uniform, Mixed} \union Common \union Measured

Threads == {"operator", "doa", "handoff"}

Pcs == {"idle", "set", "freeze", "flag", "weights", "tell",
        "track", "learn", "off", "arm", "ready", "select", "update", "evidence", "decide",
        "fallback", "unpublish", "return", "fallen", "schedule", "on",
        "chunk", "sum", "common", "protection", "advance"}

TypeOK ==
  /\ pc \in [Threads -> Pcs]
  /\ lock \in {Free, "operator", "doa"}
  /\ command \in [{"operator", "doa"} -> BOOLEAN] /\ commands \in 0..MaxCommands
  /\ {ordered, crossed, enabled, suppressed, protection, stable, reference, frozen, finding} \subseteq BOOLEAN
  /\ since \in 0..None /\ quiet \in 0..Hold
  /\ shared \in [weights : Measured \union {Uniform}, available : BOOLEAN]
  /\ beam.shape \in Solutions /\ beam.to \in {Uniform} \union Common /\ beam.left \in 0..Ramp
  /\ status \in {"off", "fallback", "on"}
  /\ row.shape \in Solutions /\ row.left \in 0..Ramp /\ row.passes \in 0..MinUpdates
  /\ bank.out \in Solutions

\* Whenever no update or command is in progress, weights that null a direction
\* are only aimed at or published while LCMV is enabled, the latch is set and the
\* reference they preserve is frozen (docs/08_progress_tracker.md 30-31).
NullNeedsJammer ==
  lock = Free => ((beam.to # Uniform \/ shared.available) => (enabled /\ protection /\ frozen))

\* A disable that has returned is in force until the operator commands again: no
\* update in flight and no automatic arming enables, aims at a null or publishes
\* one (backend.py 316-318: "Once disable returns, an update that began earlier
\* cannot republish active weights or status").  Except for an arming that had
\* read the flags before the disable began, which the README shows.
DisableHolds ==
  (~ordered /\ pc["operator"] = "idle" /\ ~crossed)
    => (~enabled /\ beam.to = Uniform /\ ~shared.available)

\* Protection is there for a jammer, and never against the operator.
ProtectionIsWanted == TypeOK /\ NullNeedsJammer /\ DisableHolds

\* Evidence ends the protection only if for the whole hold time there was none
\* but that below the lower thresholds (docs/08_progress_tracker.md 24-27).
ReleaseIsHeld ==
  [][(pc["doa"] = "evidence" /\ protection /\ ~protection') => quiet = Hold]_vars

\* What the documentation says of the same points and the code does not do: no
\* run checks these, and the README shows how each of them fails.

\* DisableHolds without the exception.
DisableAlwaysHolds ==
  (~ordered /\ pc["operator"] = "idle") => (~enabled /\ beam.to = Uniform /\ ~shared.available)

\* docs/05_beamforming_algorithms.md 33: "Detection then latches until LCMV is
\* disabled".
LatchedUntilDisabled == [][(protection /\ ~protection') => \E t \in DOMAIN command : pc[t] = "freeze"]_vars

\* docs/08_progress_tracker.md 28-29: "On release, common output and shared-U1
\* FIFO fanout return to uniform behavior".  A source at the end of its ramp.
FanoutReturns == (row.label = "released" /\ row.left = 0) => row.shape = Uniform

\* The same of a source whose channel loses its satellite meanwhile: a chunk
\* without protection does not go out with protection weights.
NoStaleProtection == ~bank.previous => bank.out \notin Measured

-----------------------------------------------------------------------------
\* No sequence of targets, fallbacks and commands keeps the common weights on
\* their way (backend.py 2902-2907).
RampEnds == []<>(beam.left = 0)

\* Once the protection has ended, by evidence or by a disable, the common
\* weights that are applied come back to uniform, unless it begins again.
BeamReturns == []<>(protection \/ beam.shape = Uniform)

\* The status of the user interface may be overwritten by a thread that read the
\* enable flag before a command, but it comes right again.
StatusFollows ==
  []<>(enabled <=> status # "off")

\* Ramps, common weights and status come to rest where the control wants them.
ControlSettles == RampEnds /\ BeamReturns /\ StatusFollows

\* Protection weights that stay published under the latch reach a source whose
\* satellite is known, also when latch and weights are seen a chunk apart or the
\* weights change between being read and found available.
NullReachesSource ==
  \A w \in Measured :
    []<>((protection /\ shared = [weights |-> w, available |-> TRUE] /\ row.desired) => bank.out = w)
=============================================================================
