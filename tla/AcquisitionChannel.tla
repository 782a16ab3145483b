------------------------- MODULE AcquisitionChannel -------------------------
(***************************************************************************)
(* One channel of the GNSS-SDR receiver while it searches for satellites:  *)
(* its state machine (ChannelFsm, every event under mx_), the acquisition  *)
(* block (pcps_acquisition, every access under d_setlock), the receiver    *)
(* of the blocks' "events" messages (channel_msg_receiver_cc), and the     *)
(* control thread, which assigns satellites and stops the channel.         *)
(*                                                                         *)
(* Four threads meet here: the control thread (ctl), the GNU Radio thread  *)
(* of the acquisition block (sched), the grid search (core: a thread of    *)
(* its own, or the block's when acquisition is blocking) and the thread    *)
(* that delivers messages (rx).  mx_ is held by ctl from "deactivate" to   *)
(* "join" and in "activate", and by rx in "activate"; d_setlock is held    *)
(* across steps only by core in "notify".  Tracking is one bit.            *)
(***************************************************************************)
EXTENDS Integers, Sequences

CONSTANTS
    SearchList,   \* the satellites GNSSFlowgraph searches for
    Blocking,     \* what Acquisition_XX.blocking may be: TRUE if the search runs in
                  \* the block's thread
    Repeat,       \* what Acquisition_XX.repeat_satellite may be
    TwoSteps,     \* make_2_steps: a second, narrower search confirms the first
    MaxDwells,    \* max_dwells; bit_transition_flag behaves as MaxDwells = 1
    MaxCommands,  \* bound on telecommands
    MayStop       \* whether the receiver may be asked to stop

ASSUME ChannelAssumption ==
    /\ \E s, t \in SearchList : s # t
    /\ Blocking \subseteq BOOLEAN /\ Repeat \subseteq BOOLEAN
    /\ {TwoSteps, MayStop} \subseteq BOOLEAN
    /\ MaxDwells \in Nat \ {0}
    /\ MaxCommands \in Nat

VARIABLES
    \* the configuration
    blocking, repeat,
    \* the channel: state_ of the FSM, and the shared Gnss_Synchro
    fsm, prn, evidence,
    \* the acquisition block
    active, acqState, dwell, stepTwo, code, handle, sched, core, gridCode,
    \* tracking, the "events" port and its receiver
    trk, events, rx,
    \* the control thread: its queue, its view of the channel, its commands
    ctl, queue, view, acqCount, standby, stop, ending, cmds

configVars  == <<blocking, repeat>>
fsmVars     == <<fsm, prn, evidence>>
acqVars     == <<active, acqState, dwell, stepTwo, code, handle, gridCode>>
threadVars  == <<sched, core>>
msgVars     == <<trk, events, rx>>
viewVars    == <<view, acqCount, standby, ending>>
ctlVars     == <<ctl, queue, viewVars, stop, cmds>>
channelVars == <<configVars, fsmVars, acqVars, threadVars, msgVars, ctlVars>>

\* mx_ of the FSM is taken, and d_setlock of the acquisition block is taken
FsmHeld == ctl \in {"deactivate", "detach", "join", "activate"} \/ rx = "activate"
SetHeld == core = "notify"

NotTracking == [on |-> FALSE, prn |-> prn, from |-> {}]

\* connect_desktop_flowgraph: the first satellite is assigned and searched.
ChannelInit ==
    /\ blocking \in Blocking /\ repeat \in Repeat
    /\ fsm = "acquiring" /\ prn \in SearchList /\ code = prn /\ evidence = {}
    /\ active = TRUE /\ acqState = 0 /\ dwell = 0 /\ stepTwo = FALSE
    /\ handle = FALSE /\ sched = "idle" /\ core = "off" /\ gridCode = prn
    /\ trk = NotTracking /\ events = <<>> /\ rx = "idle"
    /\ ctl = "loop" /\ queue = <<>> /\ view = 2 /\ acqCount = 1
    /\ standby = FALSE /\ stop = FALSE /\ ending = FALSE /\ cmds = 0

-----------------------------------------------------------------------------
(* The acquisition block's thread: general_work, one call per step.        *)

Working == sched = "idle" /\ core = "off" /\ active /\ ~SetHeld

\* State 0 clears the acquisition fields of the shared synchro, which the
\* next decision writes again.
Restart ==
    /\ Working /\ acqState = 0
    /\ acqState' = 1
    /\ UNCHANGED <<fsmVars, active, dwell, stepTwo, code, handle,
                   gridCode, threadVars, msgVars, ctlVars>>

\* State 1 fills the sample buffer, in any number of calls.
Fill ==
    /\ Working /\ acqState = 1
    /\ acqState' = 2
    /\ UNCHANGED <<fsmVars, active, dwell, stepTwo, code, handle, gridCode,
                   threadVars, msgVars, ctlVars>>

\* State 2 hands the samples over: to acquisition_core directly, or, after
\* letting go of the lock and joining the last worker, to a new worker.
Launch ==
    /\ Working /\ acqState = 2
    /\ IF blocking THEN core' = "enter" /\ UNCHANGED sched
                   ELSE sched' = "wait" /\ UNCHANGED core
    /\ UNCHANGED <<fsmVars, acqVars, msgVars, ctlVars>>

WaitWorker ==
    /\ sched = "wait" /\ core = "off"
    /\ handle' = FALSE
    /\ sched' = "spawn"
    /\ UNCHANGED <<fsmVars, active, acqState, dwell, stepTwo, code,
                   gridCode, core, msgVars, ctlVars>>

Spawn ==
    /\ sched = "spawn"
    /\ handle' = TRUE /\ core' = "enter" /\ sched' = "idle"
    /\ UNCHANGED <<fsmVars, active, acqState, dwell, stepTwo, code,
                   gridCode, msgVars, ctlVars>>

-----------------------------------------------------------------------------
(* acquisition_core: locked, unlocked for the grid, locked to decide.      *)

CountDwell == dwell' = dwell + 1

Enter ==
    /\ core = "enter"
    /\ CountDwell
    /\ gridCode' = code
    /\ core' = "grid"
    /\ UNCHANGED <<fsmVars, active, acqState, stepTwo, code, handle,
                   sched, msgVars, ctlVars>>

\* Fault: the grid is always added to, so nothing separates two searches.
AlwaysAdded(with) == evidence \cup {with}

\* The satellites the grid now speaks for.  The local code is read without
\* the lock; a first dwell overwrites the grid and later ones add to it; a
\* second step searches around the Doppler the first one found.
Correlated(with) ==
    IF dwell = 1 /\ ~stepTwo THEN {with} ELSE evidence \cup {with}

\* No peak, and dwells left: more samples.
MissAgain ==
    /\ core = "grid" /\ dwell < MaxDwells
    /\ \E with \in {gridCode, code} : evidence' = Correlated(with)
    /\ acqState' = 1
    /\ core' = "off"
    /\ UNCHANGED <<fsm, prn, active, dwell, stepTwo, code, handle, gridCode,
                   sched, msgVars, ctlVars>>

\* handle_integration_done after a miss, and the end of acquisition_core.
Concluded ==
    /\ active' = FALSE /\ acqState' = 0 /\ stepTwo' = FALSE /\ dwell' = 0
    /\ core' = "off"

\* No peak in the last dwell: a negative acquisition is published.
Miss ==
    /\ core = "grid" /\ dwell = MaxDwells
    /\ \E with \in {gridCode, code} : evidence' = Correlated(with)
    /\ events' = Append(events, "negative")
    /\ Concluded
    /\ UNCHANGED <<fsm, prn, code, handle, gridCode, sched, trk, rx, ctlVars>>

\* A peak in the first step of two: the second step starts over.
Refine ==
    /\ core = "grid" /\ TwoSteps /\ ~stepTwo
    /\ \E with \in {gridCode, code} : evidence' = Correlated(with)
    /\ acqState' = 0 /\ stepTwo' = TRUE /\ dwell' = 0 /\ core' = "off"
    /\ UNCHANGED <<fsm, prn, active, code, handle, gridCode, sched, msgVars,
                   ctlVars>>

\* A peak that counts: update_synchro, then the FSM is called with d_setlock
\* still held.
Hit ==
    /\ core = "grid" /\ (TwoSteps => stepTwo)
    /\ \E with \in {gridCode, code} : evidence' = Correlated(with)
    /\ acqState' = 0 /\ core' = "notify"
    /\ UNCHANGED <<fsm, prn, active, dwell, stepTwo, code, handle, gridCode,
                   sched, msgVars, ctlVars>>

\* Event_valid_acquisition, called by the search itself: the FSM turns to
\* tracking unless it has left acquisition, and the control thread is told.
Event_valid_acquisition ==
    IF fsm = "acquiring"
      THEN /\ fsm' = "tracking"
           /\ trk' = [on |-> TRUE, prn |-> prn, from |-> evidence]
           /\ queue' = Append(queue, "acquired")
      ELSE UNCHANGED <<fsm, trk, queue>>

Notify ==
    /\ core = "notify" /\ ~FsmHeld
    /\ Event_valid_acquisition
    /\ Concluded
    /\ UNCHANGED <<prn, evidence, code, handle, gridCode, sched, events, rx,
                   ctl, viewVars, stop, cmds>>

-----------------------------------------------------------------------------
(* Tracking loses its satellite, and the delivery of the two messages.     *)

LoseLock ==
    /\ trk.on
    /\ trk' = [trk EXCEPT !.on = FALSE]
    /\ events' = Append(events, "lost")
    /\ UNCHANGED <<fsmVars, acqVars, threadVars, rx, ctlVars>>

\* Fault: the state is left as it was, and nobody is asked for a satellite.
FailsQuietly == UNCHANGED <<fsm, queue>>

\* Event_failed_acquisition_no_repeat: the control thread is asked for
\* another satellite.
Event_failed_acquisition_no_repeat ==
    IF fsm = "acquiring"
      THEN fsm' = "failed" /\ queue' = Append(queue, "failed")
      ELSE UNCHANGED <<fsm, queue>>

\* BasePcpsAcquisition::reset, called by the FSM to start a search: the block
\* is made active; its state, its dwells and its step are what they were.
Reset == active' = TRUE

\* Event_failed_tracking_standby.
Event_failed_tracking_standby ==
    IF fsm = "tracking"
      THEN fsm' = "standby" /\ queue' = Append(queue, "lost")
      ELSE UNCHANGED <<fsm, queue>>

\* msg_handler_channel_events, for a negative acquisition to be repeated:
\* the FSM is kept locked while the block is activated again.
ReceiveRepeat ==
    /\ rx = "idle" /\ events # <<>> /\ ~FsmHeld
    /\ Head(events) = "negative" /\ repeat
    /\ events' = Tail(events)
    /\ rx' = IF fsm = "acquiring" THEN "activate" ELSE "idle"
    /\ UNCHANGED <<fsmVars, acqVars, threadVars, trk, ctlVars>>

Reactivate ==
    /\ rx = "activate" /\ ~SetHeld
    /\ Reset
    /\ rx' = "idle"
    /\ UNCHANGED <<fsmVars, acqState, dwell, stepTwo, code, handle,
                   gridCode, threadVars, trk, events, ctlVars>>

\* msg_handler_channel_events, for the events that ask the control thread.
Receive ==
    /\ rx = "idle" /\ events # <<>> /\ ~FsmHeld
    /\ \/ Head(events) = "negative" /\ ~repeat /\ Event_failed_acquisition_no_repeat
       \/ Head(events) = "lost" /\ Event_failed_tracking_standby
    /\ events' = Tail(events)
    /\ UNCHANGED <<prn, evidence, acqVars, threadVars, trk, rx, ctl, viewVars,
                   stop, cmds>>

-----------------------------------------------------------------------------
(* The control thread: ControlThread::run, event_dispatcher, and the part  *)
(* of GNSSFlowgraph::apply_action that concerns this channel, the only one *)
(* (max_acq_channels_ = 1).  A pc names the call about to be made.         *)

\* A telecommand arrives, or the receiver is told to stop.
Command ==
    /\ cmds < MaxCommands /\ ~stop
    /\ \E c \in {"standby", "hotstart"} : queue' = Append(queue, c)
    /\ cmds' = cmds + 1
    /\ UNCHANGED <<fsmVars, acqVars, threadVars, msgVars, ctl, viewVars, stop>>

Signal ==
    /\ MayStop /\ ~stop
    /\ stop' = TRUE
    /\ UNCHANGED <<fsmVars, acqVars, threadVars, msgVars, ctl, queue,
                   viewVars, cmds>>

OneLess(n) == IF n > 0 THEN n - 1 ELSE 0

\* acquisition_manager and Channel::set_signal: the channel is given the
\* satellite in front of the search list, which is another module's matter
\* (SatellitePool): any.  gnss_synchro_ is written without the block's lock.
Assign ==
    /\ prn' \in SearchList
    /\ view' = 2
    /\ ctl' = "code"

\* The event at the head of the queue, when the receiver is not on standby.
Failed == Assign /\ acqCount' = OneLess(acqCount) + 1 /\ UNCHANGED standby

Acquired ==
    /\ view' = 3 /\ acqCount' = OneLess(acqCount)
    /\ UNCHANGED <<ctl, prn, standby>>

\* Fault: the search is counted before there is found to be room for it.
LostCounts ==
    /\ acqCount' = acqCount + 1
    /\ view' = 0
    /\ UNCHANGED <<ctl, prn, standby>>

Lost ==
    /\ IF acqCount < 1
         THEN view' = 2 /\ acqCount' = acqCount + 1 /\ ctl' = "code"
         ELSE view' = 0 /\ UNCHANGED <<acqCount, ctl>>
    /\ UNCHANGED <<prn, standby>>

Standby ==
    /\ standby' = TRUE /\ view' = 0 /\ acqCount' = 0
    /\ ctl' = IF view = 0 THEN "loop" ELSE "stop"
    /\ UNCHANGED prn

Hotstart == standby' = FALSE /\ UNCHANGED <<view, acqCount, ctl, prn>>

Discard == UNCHANGED <<standby, view, acqCount, ctl, prn>>

Dispatch ==
    /\ ctl = "loop" /\ ~stop /\ queue # <<>>
    /\ \/ Head(queue) = "standby" /\ Standby
       \/ Head(queue) = "hotstart" /\ Hotstart
       \/ ~standby /\ Head(queue) = "failed" /\ Failed
       \/ ~standby /\ Head(queue) = "acquired" /\ Acquired
       \/ ~standby /\ Head(queue) = "lost" /\ Lost
       \/ standby /\ Head(queue) \notin {"standby", "hotstart"} /\ Discard
    /\ queue' = Tail(queue)
    /\ UNCHANGED <<fsm, evidence, acqVars, threadVars, msgVars, ending, stop, cmds>>

\* No event for 100 ms: acquisition_manager(0).
Idle ==
    /\ ctl = "loop" /\ ~stop /\ queue = <<>> /\ ~standby
    /\ acqCount < 1 /\ view = 0
    /\ Assign /\ acqCount' = acqCount + 1
    /\ UNCHANGED <<fsm, evidence, acqVars, threadVars, msgVars, queue, standby,
                   ending, stop, cmds>>

\* set_local_code: the second half of set_signal.
SetCode ==
    /\ ctl = "code" /\ ~SetHeld
    /\ code' = prn
    /\ ctl' = "start"
    /\ UNCHANGED <<fsmVars, active, acqState, dwell, stepTwo, handle,
                   gridCode, threadVars, msgVars, queue, viewVars, stop, cmds>>

\* Event_start_acquisition: refused while acquiring or tracking.
StartAcquisition ==
    /\ ctl = "start" /\ ~FsmHeld
    /\ IF fsm \in {"acquiring", "tracking"}
         THEN ctl' = "loop" /\ UNCHANGED fsm
         ELSE ctl' = "activate" /\ fsm' = "acquiring"
    /\ UNCHANGED <<prn, evidence, acqVars, threadVars, msgVars, queue, viewVars,
                   stop, cmds>>

Activate ==
    /\ ctl = "activate" /\ ~SetHeld
    /\ Reset
    /\ ctl' = "loop"
    /\ UNCHANGED <<fsmVars, acqState, dwell, stepTwo, code, handle,
                   gridCode, threadVars, msgVars, queue, viewVars, stop, cmds>>

\* run() leaves its loop: GNSSFlowgraph::stop.
Leave ==
    /\ ctl = "loop" /\ stop
    /\ ending' = TRUE
    /\ ctl' = "stop"
    /\ UNCHANGED <<fsmVars, acqVars, threadVars, msgVars, queue, view,
                   acqCount, standby, stop, cmds>>

Stopped == IF ending THEN "done" ELSE "loop"

\* Event_stop_channel, and set_active(FALSE) under it: clear the flag, take
\* the worker's handle, join the worker.
StopChannel ==
    /\ ctl = "stop" /\ ~FsmHeld
    /\ ctl' = IF fsm = "acquiring" THEN "deactivate" ELSE Stopped
    /\ fsm' = IF fsm \in {"acquiring", "tracking"} THEN "standby" ELSE fsm
    /\ trk' = IF fsm = "tracking" THEN [trk EXCEPT !.on = FALSE] ELSE trk
    /\ UNCHANGED <<prn, evidence, acqVars, threadVars, events, rx, queue,
                   viewVars, stop, cmds>>

Deactivate ==
    /\ ctl = "deactivate" /\ ~SetHeld
    /\ active' = FALSE
    /\ ctl' = "detach"
    /\ UNCHANGED <<fsmVars, acqState, dwell, stepTwo, code, handle,
                   gridCode, threadVars, msgVars, queue, viewVars, stop, cmds>>

Detach ==
    /\ ctl = "detach" /\ ~SetHeld
    /\ handle' = FALSE
    /\ ctl' = IF handle /\ core # "off" THEN "join" ELSE Stopped
    /\ UNCHANGED <<fsmVars, active, acqState, dwell, stepTwo, code,
                   gridCode, threadVars, msgVars, queue, viewVars, stop, cmds>>

Join ==
    /\ ctl = "join" /\ core = "off"
    /\ ctl' = Stopped
    /\ UNCHANGED <<fsmVars, acqVars, threadVars, msgVars, queue, viewVars,
                   stop, cmds>>

Terminated == ctl = "done" /\ UNCHANGED channelVars

-----------------------------------------------------------------------------
\* The configuration is what it was at the start.
Sched   == UNCHANGED configVars /\ (Restart \/ Fill \/ Launch \/ WaitWorker \/ Spawn)
Core    == UNCHANGED configVars /\ (Enter \/ MissAgain \/ Miss \/ Refine \/ Hit \/ Notify)
Rx      == UNCHANGED configVars /\ (ReceiveRepeat \/ Reactivate \/ Receive)
Control == UNCHANGED configVars /\ (Dispatch \/ Idle \/ SetCode \/ StartAcquisition \/ Activate
                                    \/ Leave \/ StopChannel \/ Deactivate \/ Detach \/ Join)
Outside == UNCHANGED configVars /\ (LoseLock \/ Command \/ Signal)

ChannelNext == Sched \/ Core \/ Rx \/ Control \/ Outside \/ Terminated

ChannelSpec == ChannelInit /\ [][ChannelNext]_channelVars

\* Every thread runs when it can: samples keep coming, GNU Radio delivers
\* its messages, the control loop polls its queue.
FairChannelSpec ==
    /\ ChannelSpec
    /\ WF_channelVars(Sched) /\ WF_channelVars(Core) /\ WF_channelVars(Rx) /\ WF_channelVars(Control)

-----------------------------------------------------------------------------
ChannelTypeOK ==
    /\ fsm \in {"standby", "acquiring", "tracking", "failed"}
    /\ {prn, code, gridCode} \subseteq SearchList /\ evidence \subseteq SearchList
    /\ {active, stepTwo, handle, standby, stop, ending} \subseteq BOOLEAN
    /\ acqState \in 0..2 /\ dwell \in 0..MaxDwells
    /\ sched \in {"idle", "wait", "spawn"} /\ core \in {"off", "enter", "grid", "notify"}
    /\ trk \in [on : BOOLEAN, prn : SearchList, from : SUBSET SearchList]
    /\ events \in Seq({"negative", "lost"}) /\ rx \in {"idle", "activate"}
    /\ queue \in Seq({"failed", "acquired", "lost", "standby", "hotstart"})
    /\ ctl \in {"loop", "code", "start", "activate", "stop", "deactivate",
                "detach", "join", "done"}
    /\ view \in {0, 2, 3} /\ acqCount \in 0..1 /\ cmds \in 0..MaxCommands

\* No telecommand has been given and the receiver has not been told to stop.
\* After either, NoLockCycle, TrackedIsAcquired and ControlKnows fail: see the
\* README on disagreements.
Undisturbed == cmds = 0 /\ ~stop

\* The two locks are never held by two threads at once, each waiting for the
\* other's: whoever holds mx_ goes on to take d_setlock or to join the
\* search, and the search that has found a peak holds d_setlock and wants
\* mx_ (channel_fsm.cc:49, pcps_acquisition.cc:329).
NoLockCycle == Undisturbed => ~(FsmHeld /\ SetHeld)

\* A satellite is tracked from what was found searching for that satellite
\* alone, never from a grid an earlier satellite left in the block
\* (pcps_acquisition.cc:584, dll_pll_veml_tracking.cc:791).
TrackedIsAcquired == (Undisturbed /\ trk.on) => trk.from = {trk.prn}

\* A channel whose FSM says it is acquiring has something under way that
\* will change that: an active block, a search, or a message on its way.
AcquiringIsAlive ==
    fsm = "acquiring" =>
        \/ active \/ core # "off"
        \/ \E i \in DOMAIN events : events[i] = "negative"
        \/ ctl = "activate" \/ rx = "activate"

\* When the control thread has nothing left to read, its view of the channel
\* is the FSM's state: a stale event must not leave it believing otherwise
\* (gnss_flowgraph.cc:1823, control_thread.cc:320).
ControlKnows ==
    (Undisturbed /\ ctl = "loop" /\ queue = <<>>) =>
        /\ view = 2 <=> fsm = "acquiring"
        /\ view = 3 <=> fsm = "tracking"

\* No lock cycle, no channel that sleeps while it acquires, and a control thread
\* that is right about it.
ChannelIsAlive == ChannelTypeOK /\ NoLockCycle /\ AcquiringIsAlive /\ ControlKnows

\* Every search that is not to be repeated ends, with a satellite tracked or
\* with a request for another, unless a command or a stop comes first.
SearchEnds == (fsm = "acquiring" /\ ~repeat) ~> (fsm # "acquiring" \/ ~Undisturbed)

\* A satellite whose lock was lost is searched again by its channel.
LossIsRetried ==
    (fsm = "standby" /\ queue # <<>> /\ Undisturbed) ~> (fsm = "acquiring" \/ ~Undisturbed)

\* A channel neither searches for ever nor rests after a loss.
SearchesGoOn == SearchEnds /\ LossIsRetried
=============================================================================
