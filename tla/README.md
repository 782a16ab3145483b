# Verification of the anti-jamming runtime

TLA+ models, TLC runs and TLAPS proofs for the runtime under
`src/src/antijamming` (four coherent IQ channels from a USRP X300, phases and
directions, one beam or several compensated sources, fed to a GNSS-SDR process
through FIFOs) and for the parts of GNSS-SDR (`src/gnss-sdr`) that decide what
the runtime is told: channels, satellite pool and telemetry. Paths are relative
to `src/src/antijamming`, those marked *g:* to `src/gnss-sdr/src`; `docs/` and
`tests/` are those of the runtime under `src/`.

## 1. Inventory

| component | state it keeps | operations | interacts with |
|---|---|---|---|
| Backend lifecycle, `runtime/backend.py` `start`, `stop`, `run` | `_running`, `_stop_reason`, `_log_session`, `_device`, `_gnss_bridge`, `_gnss_raw_queue`, thread objects | start, stop, run with its `finally` block, RX failure handlers | headless service calls it from the IPC reader; owns every thread below |
| USRP RX device, `radio/usrp/device.py` | `_stream_lock`, `_stopping`, `_started`, startup deadlines | `recv_chunk`, `restart_stream`, `stop`, `pause_stream`, tuning | RX thread, run thread, control threads, finalizer |
| GNSS handoff, `runtime/backend.py` `_rx_drain_loop`, `_publish_gnss_raw_chunk`, `_gnss_beamform_loop`, `_handle_gnss_pipeline_error` | raw queue, `_gnss_pipeline_failed`, `_gnss_raw_drops`, `_gnss_fifo_samples_written` | publish, get, combine, write, submit, fail | bridge, phase monitor, device |
| GNSS-SDR bridge, `gnss/sdr_bridge/bridge.py`, `fifo.py`, `process.py`, `parent_guard.py` | `_proc`, `_fifo_fds`, `_fifo_lock`, opener threads | `start`, `write`, `stop` | GNSS-SDR process through FIFOs and signals |
| Session logging, `logging/setup.py`, `events.py` | pointer files, manifest, `finalized` | reset, recover, finalize | backend |
| Headless service and IPC, `app/headless.py`, `runtime/ipc.py`, `runtime/remote_worker.py` | lifecycle lock, monitor generation, latest state, per-client event queue, worker flags | start, stop, shutdown, publish, deliver | backend; GUI process over a Unix socket |
| DSP workers, `_phase_loop`, `_doa_loop`, `runtime/latest_queue.py` | two latest-wins queues, latest results | put_latest, process, publish metrics | RX thread feeds them; LCMV control is called from them |
| LCMV control, `runtime/backend.py` 1753-2071, 4281-5790 | enable flag, arming, activation latch, release hold, frozen reference | operator enable/disable, MUSIC update, auto-arm after PVT, fallback | DOA thread, IPC thread, beamformer |
| Beamformer transition, 2839-3014 | effective, start and target weights, progress | schedule, advance per chunk | LCMV control, handoff thread |
| Shared U1 phase compensation, `gnss/shared_u1_phase_compensation.py` | phase bank, monitor queue and thread | advance, submit, estimate | handoff thread, tracking monitor |
| GNSS monitoring, `gnss/sdr_bridge/{udp_monitor,receiver_state,cno,snapshot,...}.py` | tables of satellites and channels, C/N0 histories, PVT with its age | datagram, log line, snapshot | two reader threads of the bridge, GUI |
| GNSS-SDR channel, *g:* `algorithms/channel`, `algorithms/acquisition` | FSM state, acquisition state and grid, two locks | start, stop, search, report | control thread, acquisition thread, message thread |
| GNSS-SDR control, *g:* `core/receiver` | search lists per signal, channel states, search count, control queue | events, telecommands, assistance | all channels |
| GNSS-SDR telemetry, *g:* `algorithms/telemetry_decoder` | frame synchronisation, time of week, fault timer | symbol, frame, reset | tracking |
| GNSS-SDR tracking, observables, PVT, monitors, libraries | signal and estimation state | | not modelled: section 7 |
| User interface, configuration, numerics, discovery, tools | none shared, or none that survives a call | | not modelled: section 7 |

What is hard, and what makes each component correct:

* **Handoff.** Four threads tear the same queue, bridge and process down. GNSS-SDR
  must get a gap-free prefix of what was received: a full queue or a failed
  write ends the stream instead of leaving a hole. The bridge is stopped once,
  by one thread; a failed pipeline never leaves GNSS-SDR waiting on a FIFO; all
  threads end although the sentinel may not fit on the queue.
* **FIFOs.** One write serves several readers that wait for each other; it must
  neither starve one nor wait for a reader that has stopped, and a stop must get
  through it.
* **Device.** UHD's streamer is not thread safe. Native calls never overlap, a
  stop is final, nothing streams once every thread is through, and a stop gets
  the lock although the RX thread takes it again at once.
* **Lifecycle.** A stop can arrive at every point of a start, and most of what start
  and stop share is written without a lock. A session has its stop event and one
  final manifest, the reason of a failure survives cleanup stops, GNSS-SDR does not
  survive its run.
* **Service.** What clients are told follows the backend; an event queue may
  overflow; a client may be lost.
* **DSP workers.** The queues drop data on purpose: never the newest, and never
  so that a result is replaced by that of an older chunk.
* **LCMV, beamformer, phase bank.** Three threads and an operator decide which
  weights the handoff applies. Nulls need a jammer, a disable that has returned
  is in force, a release waits for its hold, and what is decided reaches every
  source although it is read in pieces.
* **Monitoring.** Lines and packets of one receiver arrive by two ways that
  nothing orders, and some packets not at all.
* **GNSS-SDR channels and pool.** Two locks taken in both orders, messages from
  searches that were cut short, lists and counts kept by five handlers, commands
  between them.
* **Telemetry.** Frames are recognised by patterns that noise can imitate.

`PROJECT.json` lists the hazards at their lines, and the properties that cover
them.

## 2. Modules

| module | models | abstract specification |
|---|---|---|
| `GnssHandoff` | RX thread, handoff thread, `stop()` and the finalizer on the raw queue and the bridge, for one run | `ContiguousStream` |
| `UsrpRxDevice` | the device with its lock and native calls, under the receiver, controls and finalizer | `StreamControl` |
| `BackendLifecycle` | several runs: `start`, `stop`, the run thread, its RX threads, session, bridge, device | uses the device as `StreamControl` has it |
| `HeadlessService` | `serve`, the lifecycle lock, run monitors, one IPC session with its bounded event queue, the remote worker | uses the backend as `BackendLifecycle` has it |
| `LatestQueues` | `put_latest` call by call, RX, phase and DOA threads, stop and the end of the run | `NewestOnly` |
| `LcmvControl`, `PhaseBank` | the LCMV protection under the operator, the DOA thread and the automatic arming, composed with the ramps of the common weights and of one source | |
| `FifoBridge` | opener, writer and stop on the FIFOs to several readers | |
| `ReceiverState` | the tables that the line reader and the packet reader of the bridge write | |
| `AcquisitionChannel` | one channel of GNSS-SDR with both its locks and four threads | |
| `SatellitePool`, `MCSatellitePool` | all channels as the control thread sees them | uses channels as `AcquisitionChannel` leaves them |
| `TelemetryDecoder` | one GPS L1 C/A decoder, symbol by symbol | |
| `GnssHandoffProofs`, `UsrpRxDeviceProofs`, `BackendLifecycleProofs`, `HeadlessServiceProofs`, `LatestQueuesProofs`, `LcmvControlProofs`, `FifoBridgeProofs` | theorems about the module of that name: section 5 | |
| `GnssReceiverProofs` | theorems about `ReceiverState`, `AcquisitionChannel` and `TelemetryDecoder` | |

`ReceiverState` takes tracking as `AcquisitionChannel` leaves it: one satellite a
channel, a start, a loss. `GnssHandoff` has one atomic `write`; `FifoBridge`
opens it up. The definitions of `AcquisitionChannel` and `TelemetryDecoder` that other
modules have too begin with `Channel` and `Decoder` (`ChannelSpec`, `DecoderNext`), so that
`GnssReceiverProofs` can extend all three.

### GnssHandoff

A chunk is its receive number; a queue holds chunks and the sentinel `0`
(Python's `None`). `queueRef`, `bridgeRef` and `failed` are the attributes
`_gnss_raw_queue`, `_gnss_bridge` (present or not) and `_gnss_pipeline_failed`;
`hasQueue` and `hasBridge` are the local variables a thread read them into,
because the code works on stale references. `pc` has a value for every point at
which another thread can interfere: between the two attribute reads of the RX
loop, between detaching and stopping the bridge, between check and use in the
finalizer. `BridgeClose` and `BridgeReap` are `GnssSdrBridge.stop` for all
callers; `HandoffWrite` is one `write` of all stripes under `_fifo_lock`;
`HandoffWriteFails` covers a stall, a broken pipe and a short write, after which
`torn` says that part of a chunk may be in the FIFO. Timeouts of joins and
`get` are steps that are always possible, or possible when the queue is empty.
The samples themselves are abstracted: no property looks at them.

### UsrpRxDevice

A native call has a begin and an end (`native` is the set of threads inside
one). `rx` is the thread of `run()` during `_prime_usrp_rx_startup` (attempts 1
and 2) and the RX thread afterwards (3): they never run at the same time.
Callers of `BackendRuntime.stop` are `Controls`; `fin` is
`_finalize_usrp_device`. `refused` remembers that UHD raised on a stop command,
which all callers swallow.

### BackendLifecycle

`pcR` is the thread of `run()`: one value for each block between two calls that
block, lock or perform I/O, and between two accesses to an attribute that another
thread writes without a lock; `pcC` is the control thread inside `stop()`.
So `_set_stop_reason` is two steps of a stop (`StopRead`, `StopWrite`), with the
failures of other threads between them; `_record_stream_stop_event_once` is three:
the flag under its lock (`StopNote`), the session it reads after it (`StopRecord`)
and the write (`StopAppend`) to whatever session the pointer file names by then. The
start of a session is four: the recovery of what the pointer names, the new
manifest and pointer, `_log_session`, and the reset of the flag (`RunRecover`,
`RunCreate`, `RunAssign`, `RunReset`). `RunLaunch` reads `_gnss_bridge` once, and
`RunPopen` launches the process of that bridge, whether or not a stop has detached
and stopped it meanwhile. `RunRaises` is an exception of any of the calls of `run()`.
RX threads are indexed by run because one may outlive its run, when it is
inside `bridge.stop` for longer than the join's 2 s. `gnss[n]` is the GNSS-SDR
process of run n; `ParentGuard` is `parent_guard.py`: the kernel sends SIGTERM
to the process when the thread that launched it ends. `outcome` and `ledger`
are the manifest's outcome and the stop events in the directory of every session,
each with the session it names; `pointer` is the session `CURRENT_SESSION` names.
The control thread calls `start` and `stop` one after the other, as the
lifecycle lock of `HeadlessRuntimeService` has it. Three history variables say
where the code promises less, and the properties except just that: `early` has the
runs whose stop event was claimed before `run()` reset the flag, `closed` those
finalized while nobody was about to write one, and `standing` says that the last
failure came neither before a stop replaced it by right nor between the read and the
write of one (section 4 shows what happens then). `EndsQuiet` speaks of the
first run only: an RX thread that outlives its join may start a later stream.

### HeadlessService

`pc` places `serve()` and the reader thread of the session; both call
`_start_backend` and `_stop_backend` under `lock`. `monitor[n]` is the thread
`_monitor_backend` started with generation n. `backend` is "starting" until
`run()` has reset the stop flags, so a stop can be lost here as in
`BackendLifecycle`. `Broadcast` is the loop over the sessions for the one session
there is; a thread that meets a full queue keeps its event in `out` and goes
through `MakeRoom` and `PutAgain` one call at a time, so that others come between
`get_nowait` and the second `put_nowait`. `listed` and `connected` are the
session's place in `_sessions` and its open socket. An event taken by the sender
is handled by the client in the same step: what is in the socket counts as
queued. `mishaps` is a history variable: it records the four things after which
the program promises less, and each property names the ones it excepts:
a start before `serve()` announced idle, a start after the shutdown request, a
stop before `run()` began, a state dropped or overtaken in the queue.
`MaxChances` bounds what happens besides start and stop, out of the kinds in
`Chances`: a signal, a failing run, a status message, a cut connection;
`MayAutoStart` says whether `--auto-start` may be given. `asked` is a ghost: a stop
was sent and the worker is active still. Left out: metrics (a latest value without a
queue), replies other than as events that fill the queue, a second client, a message of
the backend that comes after its run has ended.

### LatestQueues

Chunks are numbers, the sentinel is an item of its own. Every thread keeps the
calls of `put_latest` it has still to make in `puts`; `step` is which of
`put_nowait`, `get_nowait`, `put_nowait` it is at, so that two producers can
interleave inside the function. `done` is the chunk of the latest results of each
stage. A stop and a failed RX thread put sentinels; an overflow leaves without.

### LcmvControl and PhaseBank

The DOA thread goes through tracking, reference learning, automatic arming,
selection, evidence, decision and status; the operator through enable or disable;
the handoff thread reads latch, common target and protection weights one after
the other for every chunk. Only some of these steps hold `_lcmv_control_lock`.
Weights are the spatial solution they were computed for: `Uniform`, one of
`Common`, one of `Measured`, or `Mixed` on a ramp. New published weights always
differ from those the bank saw last, as floating-point solutions do. Evidence,
findings and verdicts are chosen, time is the age of the release candidate.
`quiet` is a history variable for `ReleaseIsHeld`. `Fanout` selects one beam or a
row per source; `AutoArm` adds the automatic arming, which checks its flags
(`MayArm`), then tracker and reference (`Arm`), and takes the lock last. Both are set
in the configuration that ships (`configs/antijamming/x300_realtime.json:60,62`).
`crossed` is a history variable for `DisableHolds`: the disable that has the lock
found the arming past its flags. `MaxCommands` bounds what the operator does. The
fallback reads the latch (`FallbackRead`) and withdraws the shared weights
(`FallbackShared`) in two steps, with the update or a command between them. LCMV that is
enabled without a ready reference stays armed without evidence until it is toggled: the
code says so in its status, and no property asks for more.

### FifoBridge

`open` is the set of descriptors the process has open, `fds` what `_fifo_fds`
holds, `list` which list object `start()` appends to: `stop()` replaces it.
Samples are counted per source (`sent`, `consumed`). The readers are external.
`lockstep` (GNSS-SDR's `synchronize_signal_sources`) and `slow` are chosen at the
start. When something is slow the deadline may pass between any two polls; else
only when nobody can move. `StallNamesStopped` is asked for without lockstep and
slowness, `NoCircularWait` without slowness: with them a deadline proves nothing.

### ReceiverState

GNSS-SDR runs with `--minloglevel=1` and logs to stderr, so that of its lines only
those written to standard output arrive: a start of tracking, a loss, a decoded
message. (The line of a bit synchronisation comes from the same call as that of
the start and is left out.) `console` and `udp` are the two ways, each bounded,
each in order, nothing between them. A run is one stretch of tracking; its
number is a ghost that measurements carry and that `confirmed` holds in place of
TRUE. The item that follows a loss has no C/N0 and carries run 0. `inStep`, chosen at
the start, says that the readers keep up: everything said is read before
GNSS-SDR goes on. A message line is handled in two critical sections (`pending`).

### AcquisitionChannel

`ctl`, `sched`, `core` and `rx` place the control thread, the GNU Radio thread of
the block, the grid search (a worker, or `sched` itself when acquisition is
blocking, the default) and the thread of the message receiver. The two locks,
`mx_` and `d_setlock`, are held where a step ends with them. `evidence` is the
set of satellites whose code went into the grid: the ghost behind
`TrackedIsAcquired`. `blocking` and `repeat` are chosen at the start. Left out:
`Channel::mx_`, which only the control thread takes; the Doppler centre; the reset
of the telemetry decoder; FPGA paths. `bit_transition_flag` is `MaxDwells` 1. The
poll of an idle block is not a step.

### SatellitePool

One thread applies a queue of events and telecommands to lists (`avail`), states
(`view`) and a count. Channels search, find, fail and lose on their own and queue
an event each. `receiver` is one of the receivers in `MCSatellitePool`: three
channels on one signal, with a fixed channel, with a second signal that waits for
the first, with start commands, with standby, with assistance at start-up, and a
patient one that loses nothing. `status` is the status map, which a second signal
asks for a satellite to start with: it changes only with the reports of the
observables block, once a second (`ReportValid`, `ReportInvalid`), and names the
satellite of a channel until the next report, whether or not the channel tracks it
still. `stale` is a history variable: an event from before a standby was applied
after it, to a channel that was stopped. It can only come from a standby, of a
telecommand or of the assistance at start-up, and `Consistent`, with the parts
`OneChannelEach`, `NothingLost`, `CountMatches` and `ViewsAgree`, speaks of all else.
Positions in a list that the code takes with
`at()` are steps that can set `thrown`.

### TelemetryDecoder

Time is counted in symbols, and a frame is `Frame` symbols. Every step is one
symbol, or the loss of some. A frame that is all there is heard as it is, one
that is not may pass its parity and say anything in `WrongTows`; `MaxWrongs` bounds
these and the half-cycle slips. In state 1 a whole frame also has to follow a right
end: its first word is checked with the last two bits of what was decoded before
(`carried`), which are zeros at the end of every frame that was sent and may be
anything at the end of one that was not heard; a search starts from zeros.
A frame counts its time in frames, in a field that
holds more than a week (17 bits, up to 786426 s), so a time is right if it is right
modulo the week. The tolerance of the time comparison (2 s) is a third of a frame; the
comparison subtracts in 32 bits without a sign, but what a time past the end of the week
wraps to is never near the expected one, so `Consistent` takes the distance around the
week. The ghosts `good` and `wrongFor` count good symbols and symbols
that left with a wrong time. Left out: contents other than time, the identity of
the satellite.

## 3. Runs

Each property of a run is one claim; a state property is the conjunction of the
type invariant and named parts that belong together, each with its own comment.

| run | instance | properties |
|---|---|---|
| `handoff` | queue of 2, 3 chunks | `HandoffIsSound` (types, `GapFree`, `OneRejection`, `OneOwnerStops`), `MonitorAligned`, `ReceiverReleased`, the refinement of `ContiguousStream`, `EndsWithReceiver`, `AcceptedIsHandedOver` |
| `device` | 2 controls, 2 packets a chunk | `StreamerIsSafe` (types, `NativeExclusive`, `CommandsAlternate`), `QuietAtEnd`, the refinement of `StreamControl`, `CloseCompletes` |
| `lifecycle` | 2 runs, a stop | `RunsEndClean` (types, `StopEventOnce`, `NoOrphan`, `EndsQuiet`), `FailureReasonKept`, `OutcomeIsFinal`, `StopEndsRun` |
| `headless` | queue of 1, a start, a stop, one of four other things, with and without automatic start | `ServiceIsTruthful` (types, `RunningIsRetracted`, `IdleIsTrue`), `ViewFollows`, `GuiIsAnswered`, `ShutdownStops` |
| `dsp_queues` | queues of 2, 3 chunks | `QueuesServe` (types, `NewestKept`, `StagesServe`), the refinement of `NewestOnly`, `StagesProgress` |
| `lcmv` | one beam, 2 commands, ramps of 2 chunks, a hold | `ProtectionIsWanted` (types, `NullNeedsJammer`, `DisableHolds`), `ReleaseIsHeld`, `ControlSettles` |
| `lcmv_fanout` | the configuration that ships: a source, automatic arming; one command, two nulls | `ProtectionIsWanted`, `NullReachesSource` |
| `fifo` | 3 sources, FIFOs of 1 sample, 2 stripes of 3, 2 chunks | `WritesAreFair` (types, `LeadBounded`, `WritesAreOpen`, `StallNamesStopped`), `NoCircularWait`, `BridgeProgress` |
| `receiver_state` | 2 channels, 2 satellites, 2 runs, 2 lines and a packet late | `ShownIsOwn` (types, `OneShownPerChannel`, `MeasuresAreOwn`), `RunIsFresh`, `TrackedIsShown` |
| `channel` | 2 satellites, 2 dwells, 2 commands and a stop | `ChannelIsAlive` (types, `NoLockCycle`, `AcquiringIsAlive`, `ControlKnows`), `TrackedIsAcquired`, `SearchesGoOn` |
| `pool` | 3 channels, 3 to 5 satellites, 7 receivers, one command | `PoolIsConsistent` (types, `NeverThrows`, `Consistent`, `FixedStaysOut`, `StandbyIsQuiet`), `PoolServes` (`AllFound`, `SecondIsAided`) |
| `telemetry_frames` | 15 frames of 3 symbols in a week of 20, one wrong frame or slip, one reset | `TimeComesRight` (types, `WrongIsBrief`, `GoodFramesCount`), `TowStaysRight`, `FaultIsTrue` |

**Bounds.** `Cap` 2 lets the raw queue be empty, partly filled and full, and a
sentinel meet each of these. Two controls and the finalizer are all the
concurrent closers the service can produce together with the RX thread; two
packets make a chunk that is interrupted half way. Two runs are needed for what
one leaves to the next; the one stop may fall into either of them, at any point, with
the failures of both RX threads and of `run()` before, during and after it. (The
theorems have any number of both.)
A queue of one event (32 in the code) is full whenever two events meet, which is
the case that matters; an automatic start meets each of a signal, a failure, a
status message and a cut connection. Queues of two chunks are those of the
code, and three chunks overflow them. In `lcmv`, two commands are a disable and an
enable in either order against an update in flight; two chunks a ramp make one
that is preempted half way; a hold of 1 distinguishes expiry from none. In
`lcmv_fanout` the null moves between two solutions while the common weights stay
uniform, which do not reach a source that has its own; the operator commands once,
the automatic arming whenever its conditions are met. FIFOs of
one sample against stripes of three make every stripe wait for its readers, three
sources leave two that wait for a third. Two channels and two satellites are what
one displaced owner needs; two runs, one satellite that comes back; two lines are
a loss and a start that both wait, and a packet that waits is older than either. A
channel with two dwells can carry a grid from one search to the next; two commands are a
standby and a start after it. Three channels with two searches at a time leave one that
waits; 4 satellites on one signal, 3 on two, are as few to spare as the code accepts. In
`telemetry_frames` a week of 20 frames ends after the horizon, see below; a wrong frame
says a time before it, after it, far away or, as 69 does, in the week after. The proofs
need none of these bounds.

**Fairness.** Every thread that can take a step eventually takes one: each
blocking call of the runtime has a timeout (queue get 0.25 s, FIFO stripe
deadline, joins of 0.5, 1, 2 and 4 s, UHD receive timeout), and the loops poll
`_running`. Locks are not fair: a waiting thread gets a lock only if it *stays*
free. GNSS-SDR's scheduler calls a block that has items. A satellite in view is
found by a search that is repeated for ever (strong fairness of `Find`), and the
monitor of a tracking block sends items again and again (strong fairness of
`Track` with a packet). No fairness is given to the operator, to failures, to
exceptions, to readers that stop, or to the exit of GNSS-SDR.

**Deadlock.** Runs say `CHECK_DEADLOCK FALSE` because the program, its bounded
inputs or the signal ends; the liveness properties say what must not stop.

**Mutants.** Definitions commented `Fault:` are plausible bugs of the definition
below them; each property of a run has one that violates it.

## 4. Disagreements

Where the code does not do what a document, comment or test of the repository
says, the property that says so is kept, either commented as one that no run
checks or with a guard that leaves the case out. To see one fail, add the property
to the run, or remove the guard, with the settings given.

| where | what is said | what the code does | to see it |
|---|---|---|---|
| `runtime/backend.py:392` | `docs/15_self_run_live_evidence.md:7` "`Stop` finalizes the manifest" | A stop between `Thread.start` and the first line of `run()` clears `_running`, and `run()` sets it again: the run goes on. | `lifecycle`, `StopFinalizes` |
| `runtime/backend.py:754` | `docs/15...:5,11`: a manifest with stop time and outcome for every session | The finalizer checks `_gnss_bridge` and dereferences it later without the failure lock; if `stop()` sets it to None between, the rest of the finalizer is skipped. | `lifecycle`, `ManifestFinalized` |
| `runtime/backend.py:6210` | `:800` "next start can reuse current LO/tune state" | A failing RX thread calls `device.stop()`, which is final, on a device that is kept for the next start. | `lifecycle`, `PreservedIsUsable` |
| `runtime/backend.py:713` | `:642` "recv() publishes ordered queue-backed work items." | The RX thread may be inside `bridge.stop` when the 2 s join gives up, and finds `_running` set in the next run: two threads receive. | `lifecycle`, `OneReceiver` |
| `runtime/backend.py:481` | `:1238-1240` "The finalizer calls the same guarded helper" | A stop after `_log_session` was assigned and before the flag is reset has its event; the reset forgets it, and the finalizer records a second. | `lifecycle`, `OneStopEvent` |
| `runtime/backend.py:1653` | `logging/setup.py:233` "Make a complete immutable-by-convention copy of the current run logs." | The flag is set before the event is written. The finalizer that meets a stop between the two closes the session without it, and the event is in the root log only. | `lifecycle`, `StopEventIsKept` |
| `logging/setup.py:235` | the same: "immutable-by-convention" | The recovery finalizes an object of its own. If `reset_session_logs` then fails, the finalizer has the old object still, which is not finalized, and writes the recovered manifest again. | `lifecycle`, `RecoveredIsFinal` |
| `runtime/backend.py:6225` | `:6220-6224` a cleanup reason does not replace another | `_set_stop_reason` reads and writes without a lock: a cleanup stop that read "normal stop" overwrites the failure that came between. | `lifecycle`, `CleanupKeepsFailure` |
| `runtime/backend.py:2255` | `docs/hardware.md:402`: the RX drain thread only receives and enqueues | On a full queue the RX thread itself stops the bridge and joins the handoff thread. | `handoff`, `RxOnlyEnqueues` |
| `runtime/backend.py:4586` | `:317` "Once disable returns, an update that began earlier cannot republish active weights or status." | The automatic arming checks its flags before it takes the lock and overrules a disable that returned between. | `lcmv_fanout`, `DisableAlwaysHolds` |
| `runtime/backend.py:4407` | `docs/05_beamforming_algorithms.md:33` "Detection then latches until LCMV is disabled" | It ends after the release hold. | `lcmv`, `LatchedUntilDisabled` |
| `runtime/backend.py:3196` | `docs/08_progress_tracker.md:28`: on release the fanout returns to uniform | A chunk between the release of the latch and the new common target ramps its sources to the old null, and no later chunk corrects them. | `lcmv_fanout` with `Common = {1}`, `FanoutReturns` |
| `gnss/shared_u1_phase_compensation.py:410` | the same | A source without a satellite in the chunk of the falling edge keeps its row, and sends it when the satellite is back. | `lcmv_fanout` with `Satellites = {0, 1}`, `NoStaleProtection` |
| `gnss/sdr_bridge/bridge.py:381` | `tests/test_gnss_sdr_bridge.py:298` `assert bridge._fifo_fds == []` after a stop | `start()` goes on opening descriptors without the lock while `stop()` closes them. | `fifo`, `StopLeavesNone` |
| `gnss/sdr_bridge/receiver_state.py:266` | tests 1976, 1979: a satellite tracked again starts with one sample, unconfirmed | An old packet or message read after the loss line makes it "tracking" again, so the new run keeps samples and confirmation of the old. | `receiver_state`, `RunIsFresh` without `inStep` |
| `gnss/sdr_bridge/udp_monitor.py:303` | `constants.py:29` "GNSS-SDR still decides actual loss of lock." | The item that tracking sends after a loss makes the lost satellite "tracking" again, until its channel tracks another. | the same module: `SendLast` and `ReadPacket` |
| *g:* `algorithms/channel/libs/channel_fsm.cc:51` | *g:* `tests/unit-tests/control-plane/gnss_flowgraph_test.cc:66` expects `stop()` to return | `Event_stop_channel` waits for `d_setlock` under `mx_`, a search that found a peak waits for `mx_` under `d_setlock`. | `channel`, `NoLockCycle` without its guard |
| *g:* `core/receiver/gnss_flowgraph.cc:1919` | "stop the acquisition or tracking operation" | A blocking search goes on; after a hot start its peak starts the tracking of another satellite. | `channel`, `TrackedIsAcquired` without its guard |
| *g:* `core/receiver/gnss_flowgraph.cc:1923` | "all channels are in standby now" | An event queued before the standby is applied after it. | `channel`, `ControlKnows` without its guard |
| *g:* `core/receiver/control_thread.cc:957` | `gnss_flowgraph.h:247` on the states of a channel | The standby before the start-up assistance leaves events that are applied to stopped channels. | `pool` with `StartsAssisted` alone, `ViewsAgree`, `CountMatches` or `NothingLost` |
| *g:* `core/receiver/gnss_flowgraph.cc:1853` | "push back the old signal AFTER assigning a new one to avoid selecting the same signal" | An event from before a standby puts a satellite in the list a second time. | `pool` with `Single`, all satellites in view, sent `standby` and `coldstart` (2 commands), `OneChannelEach` |
| *g:* `core/receiver/gnss_flowgraph.cc:1917` | GNSS-SDR `docs/CHANGELOG.md:1511`: a channel can be fixed to a satellite | Standby puts the fixed satellite back in the common list. | `pool` with `WithFixed` sent `standby`, `FixedStaysOut` |
| *g:* `core/receiver/gnss_flowgraph.cc:1953` | `gnss_flowgraph.h:157`: prioritise visible satellites | `at()` looks up lists that a receiver of one signal does not have, and throws. | `pool` with `Single`, `systemBands` `{"1C", "2S"}`, sent `hotstart`, `NeverThrows` |
| *g:* `core/receiver/gnss_flowgraph.cc:2282` | `:2275` "search the currently tracked primary signal satellites" | The status map is as old as the last report: a second signal is started, as assisted, on a satellite that the first has lost since. | `pool`, `StartsAided` |
| *g:* `algorithms/telemetry_decoder/gnuradio_blocks/gps_l1_ca_telemetry_decoder_gs.cc:675` | GNSS-SDR `docs/CHANGELOG.md:1175`: continuity through the TOW rollover | A time of zero is taken for none: the symbols after the end of the week leave one symbol early. | `telemetry_frames` with `Week = 15`, `WrongTows = {}`, no wrong frame and no reset, `TowStaysRight` |

Two more were read and not made properties: the visible satellites of a warm start
are computed and discarded (*g:* `core/receiver/control_thread.cc:1013`), and
`priorize_satellites` (`gnss_flowgraph.cc:1959`) leaves the lowest satellite first.
The deadlock of a stop of GNSS-SDR is why it matters that `GnssSdrBridge.stop`
follows SIGTERM by SIGKILL.

## 5. Proofs

`GnssHandoffProofs` proves, for every queue capacity `Cap >= 1` and every
`MaxChunks`, `HandoffIsSound` (type correctness, `GapFree`, `OneRejection`,
`OneOwnerStops`), `MonitorAligned`, `ReceiverReleased` and the refinement of
`ContiguousStream`. The assumptions are `CapAssumption` and `MaxChunksAssumption`.

None of these is inductive on its own. The inductive invariant `IInv` adds:

* `Ownership`: whoever set `failed` detached queue and bridge in the same
  critical section, and a thread that took the bridge left none to take;
* `Writing`: while the handoff thread writes, it holds the FIFO lock and the
  descriptors are open, and a torn FIFO has no working writer;
* `Responsible`: until the bridge is released it is attached, or some thread is
  bound to stop it (the reason why a crashed finalizer leaves no process);
* `Rejection`: after a rejection the RX thread does not publish again, because
  its own error handler ran before the next receive;
* `NoneSkipped`: as long as the RX thread would publish, chunks taken, queued and
  in hand are all that were received. This is the heart of `GapFree`: a stale
  local queue reference cannot let a chunk be published after a skipped one,
  because the tests that skip a chunk stay false;
* `Counting`: the sample counter follows the FIFO.

Each conjunct has a lemma, with a step for each group of actions that can
disturb it; `NextIInv` joins them.

`UsrpRxDeviceProofs` proves, for every set of concurrent callers of `stop()` and
every number of packets in a chunk, `StreamerIsSafe` (type correctness,
`NativeExclusive`, `CommandsAlternate`), `QuietAtEnd` and the refinement of
`StreamControl`. Its assumptions are `ControlsAssumption` and `PacketsAssumption`.
The inductive invariant adds to the types:

* `Locking`: a thread inside the critical section is the owner of the lock, and
  only a thread at a native call is inside one;
* `Following`: `_started` is what the hardware does, and whoever holds the lock
  at a start or a stop command knows which of the two it is;
* `Stopped`: once `_stopping` is set the receiver does not touch the stream again,
  and a live stream has a stop command in progress, or UHD refused it;
* `Finalizing`: the finalizer closes the device after the receiver has ended, and
  leaves it quiet.

`BackendLifecycleProofs` proves, for every number of runs and stops,
`RunsEndClean` (types, `StopEventOnce`, `NoOrphan`, `EndsQuiet`), `FailureReasonKept`
and the action property `OutcomeIsFinal`. The assumptions are `MaxRunsAssumption`
and `MaxStopsAssumption`. The invariant adds:

* `Sessions`: what session and pointer can be at each step of a start. A run that is
  alive has its session in the pointer from its manifest to its finalizer, and
  sessions still to come have nothing, so that no run writes into a later one;
* `Claims`: who has claimed a stop event and where it will go. A stop that claims
  while a run is being set up does so before the reset of the flag, so its run is
  `early`; a stop that claimed a session and meets the next one in the pointer finds
  that one `early`;
* `Events`: a session that is not `early` has its event as soon as the flag is set
  and nobody is writing, and none as long as it is not;
* `Reason`: a stop that decided to write a cleanup reason leaves no failure standing;
* `Stopped`: once the finalizer has cleared `_running` it stays so, because only
  the head of `run()` sets it;
* `FirstStream`: the RX thread of the first run may be inside `bridge.stop` when it
  is no longer waited for; it then finds `_running` cleared and leaves the stream.

`NoOrphan` needs no strengthening: a process is launched by the thread that owns it
alone, and the parent guard does not ask who detached the bridge.

`HeadlessServiceProofs` proves `ServiceIsTruthful` (types, `RunningIsRetracted`,
`IdleIsTrue`) and `ViewFollows` for every queue size and any number of starts,
stops and of what else may happen (`QueueSizeAssumption`, `BoundsAssumption`). The
first speaks of the moments when the lifecycle lock is free, the second of those
when the queue is drained; the invariant says what holds between:

* `Counted`: the generations there are, the starts that wait for the reader and
  `serve()`'s own are never more than were ordered;
* `Locks`: which thread has the lock, and that a monitor that speaks is the one of
  the current generation;
* `Runs`: while there is a backend, or "running" is the latest state, the current
  generation has its monitor, or a commander about to start it;
* `Idles`: only a start that came before `serve()` announced idle makes it untrue;
* `Following`: the latest state is about to be put by some thread, or is the last
  state in the queue, or is what the worker was told. Of two states about to be
  put by two threads one is "missed", which `ViewFollows` excepts.

`LatestQueuesProofs` proves `QueuesServe` (types, `NewestKept`, `StagesServe`) and
the refinement of `NewestOnly` for every capacity and every number of chunks
(`CapacityAssumption`, `MaxChunksAssumption`). The invariant adds `Calls`, the
calls of `put_latest` a thread may have left, with a sentinel only once `_running`
is cleared; `RoomKept`, that room made by the only producer of a queue stays
until it puts again, which is why two attempts suffice; `Ordered`, that a queue is
increasing, newer than the chunk in hand and this newer than the results; and
`Kept`, that the newest chunk is in hand or last in the queue. `Ordered` needs no
`_running`: that is why results only get newer during a shutdown too.

`LcmvControlProofs` proves `NullNeedsJammer`, `ProtectionIsWanted` (with the types and
`DisableHolds`) and the action property `ReleaseIsHeld`, for every configuration, the
one that ships included, every set of solutions and satellites, every hold and any
number of commands. `FlagsAssumption`, `LcmvBoundsAssumption` and
`SolutionsAssumption` are the assumptions. `DisableHolds` excepts a disable that an
automatic arming had overtaken, which does not hold (section 4), and nothing else:
an arming that has not read its flags yet reads that it is suppressed.
The invariant adds `Placed` (the lock belongs to whoever sets or updates), `Nulls`
(what a command or an update has already done at each of its steps, although the
handoff thread falls back without the lock), `Obeyed` (from the moment a disable has
the lock the arming is suppressed, and none is on its way unless `crossed`; from its
`SetFlag` on LCMV is off) and `Quiet` (a release candidate is not older than the quiet
it has been there for).

`FifoBridgeProofs` proves `WritesAreFair` (types, `LeadBounded`, `WritesAreOpen`,
`StallNamesStopped`) and `NoCircularWait` for every number of sources, every
stripe, chunk and pipe size and every window of the readers. `FifoAssumption`
asks for at least one of each: a reader that may not be a sample ahead of the
others never reads. The invariant adds `Descriptors` (those in the list are open,
whichever of `start` and `stop` meets them, and all are while a write has the
lock), `Readers`, `Progress` (the pending sources are those behind the goal, none
by more than a stripe) and `Blame`. The argument for `NoCircularWait` is that the
reader furthest behind is never held back by the others: if it cannot read it has
read all it was given, so its pipe has room, so it is not pending and has read up
to the goal; but a pending source was given less than that, and so is behind it.

`GnssReceiverProofs` proves `ShownIsOwn` (types, `OneShownPerChannel`,
`MeasuresAreOwn`) and `RunIsFresh` for every set of channels and satellites, every
number of runs and streams of every length. The assumptions are `NoSatAssumption`,
`NoChanAssumption` and `BoundsAssumption`. For `ShownIsOwn` the strengthening is
`Owner`: a satellite shown tracking is the owner (`_channel_prn`) of the channel it
is shown on. It makes the second critical section of a message line safe: the
check that the satellite is still shown on its channel there implies that it still
owns the channel, so its sample cannot land in another one's history. What
GNSS-SDR does leaves the tables alone (`ReceiverStep`); what the readers do goes
through `SetStateTables`, `TakeSampleTables` and `ReadPacketTables`.
`RunIsFresh` needs `KeepsUp` besides: two channels never track one satellite, and,
while the readers keep up, what is sent or held by a decoder (`Way`) and what is in
the tables (`Fresh`) is of the run its channel is in, or of the one whose loss line
is on its way. A start therefore finds empty tables: the loss line was read, and
it cleared history and confirmation.

About `AcquisitionChannel` it proves `ChannelIsAlive` (types, `NoLockCycle`,
`AcquiringIsAlive`, `ControlKnows`) and `TrackedIsAcquired` for every search list of at
least two satellites, every setting of the acquisition, any number of dwells and of
commands (`ChannelAssumption`). The invariant adds to the types:

* `SearchOrder`: one search at a time, with the dwells it may have;
* `StopHoldsFsm`: while the control thread waits for the search to stop, the FSM
  stays in standby, where the control thread put it before;
* `Awake`: a channel in acquisition is active, or a negative message is on its way, or
  a thread is about to activate it. It says more than `AcquiringIsAlive`, which takes a
  running search for life: that would not survive the end of the search;
* `Calm`: until a command or a stop, the four threads together are in one of seven
  situations: about to be activated, searching, a miss told, about to be activated
  again, failed, tracking, lost. Each says which message is on its way, what the
  control thread believes, and that the grid holds evidence of the channel's own
  satellite. `ControlKnows` and `TrackedIsAcquired` follow.

About `TelemetryDecoder` it proves `TimeComesRight`, `TowStaysRight` and `FaultIsTrue` for
frames, preambles, weeks and silences of every length (`DecoderAssumption`) and signals
of every length within a week. All have the hypothesis `NoZeroTow`: the signal ends before
the week does and no wrong frame says zero. Without it `TowStaysRight` does not hold,
because a time of zero is taken for none (section 4). The invariant `DecoderIInv` has

* `Shape`: there is a time of week exactly in state 1, with a full buffer; what was good
  was received, and what was received is buffered;
* `TowIsLast`: the time of the symbols is a time of frames, and agrees with the last frame
  that was accepted, right or wrong. Frames are so far apart that one that is
  consistent with the last is the one expected (`ConsistentIsExpected`), so that only a
  frame that says the same can follow. That is `TowStaysRight`;
* `Progress`: how many good symbols there can have been in each situation in which the
  decoder is not yet `Locked`: two frames may fail at a false preamble, or one after a
  wrong end and one that contradicts a wrong last time, and one passes until the first
  preamble is found. After five frames only `Locked` is left, which gives
  `GoodFramesCount` and `FaultIsTrue`.

These hold for any number of wrong frames, slips and resets. `WrongIsBrief`, a part of
`TimeComesRight`, needs `MaxWrongs <= 1`: a second wrong frame that agrees with the
first prolongs the wrong time, as `telemetry_frames` with `MaxWrongs = 2` shows. For it
the invariant adds `Unharmed` (nothing is wrong before the first wrong frame or slip)
and `Brief` (a wrong time is as old as the frames that failed since it was accepted).

Only model-checked:

* all liveness properties, which the prover cannot reach;
* `NullReachesSource`, a liveness property too;
* the invariant of `SatellitePool`, `PoolIsConsistent`. One step of the control thread
  serves every channel in turn, a recursion over the channels, and what that keeps needs
  induction over data.

Every other safety property of a run is stated by a theorem.

## 6. Plan

Done since the first plan: the DSP queues (`LatestQueues`, `NewestOnly`), the
beamformer transition and the phase bank (within `PhaseBank` and `LcmvControl`),
the fair write to the FIFOs (`FifoBridge`), the receiver state (`ReceiverState`),
the control side of GNSS-SDR, and the proofs about every module but `SatellitePool`.
The overflow guard was dropped: it is two counters of one thread.

What is left, in order:

1. `HeadlessService` with a second client and the metrics.
2. The phase monitor thread of the shared U1 compensation, with its queue.

## 7. Not modelled

* DSP numerics, GNSS-SDR's tracking loops, observables, PVT solver and the libraries
  under them: floating-point estimation, out of TLC's reach; they appear as choices.
* GNSS-SDR's signal sources, conditioners, printers, OSNMA, Galileo HAS and RTCM: data
  conversions, or not part of the configuration that the runtime writes.
* GNSS-SDR's monitor blocks: `ReceiverState` takes them as a source of packets.
* Configuration and text rendering, Qt widgets, offline tools, discovery.
* Parsers of logs and datagrams are abstracted to what they report. Formatting,
  logging and status texts are left out wherever no property is about them.

Most of the lines of this repository are GNSS-SDR's signal processing, message
encoders and vendored libraries, so the map covers a small share of them.
