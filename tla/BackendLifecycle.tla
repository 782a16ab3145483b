-------------------------- MODULE BackendLifecycle --------------------------
(***************************************************************************)
(* The lifecycle of the backend over several runs (runtime/backend.py):    *)
(* the thread of run(), from its reset to the end of its finalizer; the    *)
(* control thread, which starts runs and calls stop() under the lifecycle  *)
(* lock of the headless service; and the RX thread of every run, which may *)
(* outlive its run when it is busy stopping the bridge.                    *)
(*                                                                         *)
(* One step is what a thread does between two calls that block, lock or do *)
(* I/O, and between two accesses to an attribute that another thread       *)
(* writes without a lock.  The ordered handoff is GnssHandoff's, the       *)
(* streamer's lock UsrpRxDevice's; here the device is the StreamControl    *)
(* they implement.                                                         *)
(* MaxRuns and MaxStops bound the operator.                                *)
(***************************************************************************)
EXTENDS Naturals, Sequences

CONSTANTS MaxRuns, MaxStops

ASSUME MaxRunsAssumption == MaxRuns \in Nat \ {0}
ASSUME MaxStopsAssumption == MaxStops \in Nat

Runs == 1..MaxRuns
None == 0

\* Stop reasons: "normal stop" and its like do not replace another reason, an
\* "IPC stop" does; RX failures and overflows; the exception of run().
CleanupReasons == {"normal"}
StopReasons == CleanupReasons \union {"ipc"}
Reasons == StopReasons \union {"not started", "rx failure", "exception"}

VARIABLES
  preserve,  \* config.preserve_usrp_session_on_stop
  running,   \* _running
  reason,    \* _stop_reason
  noted,     \* _stream_stop_event_recorded
  failed,    \* _gnss_pipeline_failed
  session,   \* the run that created _log_session
  pointer,   \* the run whose session the file CURRENT_SESSION names
  outcome,   \* the manifest of each run's session
  ledger,    \* stop events in each session's directory: the session each names
  dev,       \* _device: "none", or the state of its stream
  queueRef,  \* _gnss_raw_queue is not None
  bridgeRef, \* the run whose bridge _gnss_bridge is
  gnss,      \* GNSS-SDR of each run's bridge
  runs,      \* runs started
  stops,     \* stop commands carried out
  pcR,       \* the thread of run()
  pcX,       \* the RX thread of each run
  xBridge,   \* the bridge the pipeline error handler of that thread detached
  pcC,       \* the control thread, inside or outside stop()
  cReason,   \* the reason it is about to write
  cSession,  \* the session it read for the stop event
  cBridge,   \* the bridge it detached
  \* history variables, read by the properties only
  standing,  \* a failure set the reason, not between a stop's read and write
  early,     \* runs that had a stop event claimed before their flag was reset
  closed     \* runs that finalized their session with no stop event pending

logs    == <<session, pointer, outcome, ledger, noted, early, closed>>
bridges == <<queueRef, bridgeRef, gnss>>
why     == <<reason, standing>>
control == <<stops, pcC, cReason, cSession, cBridge>>
rx      == <<pcX, xBridge>>
vars    == <<preserve, running, why, failed, logs, dev, bridges, runs, pcR, rx, control>>

Init ==
  /\ preserve \in BOOLEAN
  /\ running = FALSE /\ reason = "not started" /\ failed = FALSE
  /\ session = None /\ pointer = None /\ noted = FALSE
  /\ outcome = [n \in Runs |-> "none"] /\ ledger = [n \in Runs |-> <<>>]
  /\ standing = FALSE /\ early = {} /\ closed = {}
  /\ dev = "none"
  /\ queueRef = FALSE /\ bridgeRef = None /\ gnss = [n \in Runs |-> "none"]
  /\ runs = 0 /\ stops = 0
  /\ pcR = "off"
  /\ pcX = [n \in Runs |-> "off"] /\ xBridge = [n \in Runs |-> None]
  /\ pcC = "idle" /\ cReason = "normal" /\ cSession = None /\ cBridge = None

Alive == pcR \notin {"off", "crashed"}
IsRunning == Alive \/ running

\* record_event: the root log gets every event, the directory of a session only
\* while CURRENT_SESSION names it.
RecordEvent(id) ==
  ledger' = IF pointer = None THEN ledger ELSE [ledger EXCEPT ![pointer] = Append(@, id)]

\* finalize_session_logs, unless this very session object was finalized before:
\* the recovery of the next start finalizes an object of its own.
Finalize(result) ==
  IF session # None /\ outcome[session] \in {"running", "recovered"}
    THEN /\ outcome' = [outcome EXCEPT ![session] = result]
         /\ pointer' = IF pointer = session THEN None ELSE pointer
    ELSE UNCHANGED <<outcome, pointer>>

\* bridge.stop ends the process, if there is one yet.
Terminated(b) ==
  [gnss EXCEPT ![b] = IF @ \in {"launched", "open"} THEN "stopped" ELSE @]

\* device.stop is final, device.pause_stream is not.
DevStopped == IF dev = "none" THEN "none" ELSE "closed"
DevPaused == IF dev = "live" THEN "idle" ELSE dev
DevStarted == IF dev = "idle" THEN "live" ELSE dev

-----------------------------------------------------------------------------
(* The control thread.                                                     *)

\* _start_backend and BackendRuntime.start
StartRun ==
  /\ pcC = "idle" /\ ~IsRunning /\ runs < MaxRuns
  /\ runs' = runs + 1
  /\ pcR' = "begin"
  /\ UNCHANGED <<preserve, running, why, failed, logs, dev, bridges, rx, control>>

\* _stop_backend and the call of stop().
StopRequest ==
  /\ pcC = "idle" /\ IsRunning /\ stops < MaxStops
  /\ stops' = stops + 1
  /\ \E r \in StopReasons : cReason' = r
  /\ pcC' = "reason"
  /\ UNCHANGED <<preserve, running, why, failed, logs, dev, bridges, runs, pcR, rx, cSession, cBridge>>

\* Fault: a cleanup reason replaces a failure.
StopReadAlways ==
  /\ pcC = "reason" /\ pcC' = "write"
  /\ UNCHANGED <<preserve, running, why, failed, logs, dev, bridges, runs, pcR, rx,
                 stops, cReason, cSession, cBridge>>

\* _set_stop_reason reads the reason, without a lock ...
StopRead ==
  /\ pcC = "reason"
  /\ pcC' = IF cReason \in CleanupReasons /\ reason \notin {"not started", "normal"}
              THEN "event" ELSE "write"
  /\ UNCHANGED <<preserve, running, why, failed, logs, dev, bridges, runs, pcR, rx,
                 stops, cReason, cSession, cBridge>>

\* ... and writes it, whoever has written one in between.
StopWrite ==
  /\ pcC = "write" /\ pcC' = "event"
  /\ reason' = cReason
  /\ standing' = (standing /\ cReason \in CleanupReasons)
  /\ cReason' = "normal"
  /\ UNCHANGED <<preserve, running, failed, logs, dev, bridges, runs, pcR, rx,
                 stops, cSession, cBridge>>

\* The flag of _record_stream_stop_event_once is set under its lock; nothing
\* holds a run back from resetting it.
Claim == ~noted /\ session # None

StopNote ==
  /\ pcC = "event"
  /\ pcC' = IF Claim THEN "record" ELSE "clear"
  /\ noted' = (noted \/ Claim)
  /\ early' = IF Claim /\ pcR \in {"begin", "logs", "newLogs", "assign", "reset"}
                THEN early \union {runs} ELSE early
  /\ UNCHANGED <<preserve, running, why, failed, session, pointer, outcome, ledger, closed,
                 dev, bridges, runs, pcR, rx, stops, cReason, cSession, cBridge>>

\* _record_runtime_event reads _log_session again, and takes its snapshots.
StopRecord ==
  /\ pcC = "record" /\ pcC' = "append"
  /\ cSession' = session
  /\ UNCHANGED <<preserve, running, why, failed, logs, dev, bridges, runs, pcR, rx,
                 stops, cReason, cBridge>>

StopAppend ==
  /\ pcC = "append" /\ pcC' = "clear"
  /\ RecordEvent(cSession)
  /\ cSession' = None
  /\ UNCHANGED <<preserve, running, why, failed, session, pointer, outcome, noted, early, closed,
                 dev, bridges, runs, pcR, rx, stops, cReason, cBridge>>

StopClear ==
  /\ pcC = "clear"
  /\ running' = FALSE
  /\ pcC' = "detach"
  /\ UNCHANGED <<preserve, why, failed, logs, dev, bridges, runs, pcR, rx,
                 stops, cReason, cSession, cBridge>>

StopDetach ==
  /\ pcC = "detach"
  /\ cBridge' = bridgeRef /\ bridgeRef' = None
  /\ pcC' = IF bridgeRef = None THEN "device" ELSE "stopBridge"
  /\ UNCHANGED <<preserve, running, why, failed, logs, dev, queueRef, gnss, runs, pcR, rx,
                 stops, cReason, cSession>>

StopBridge ==
  /\ pcC = "stopBridge"
  /\ gnss' = Terminated(cBridge) /\ cBridge' = None
  /\ pcC' = "device"
  /\ UNCHANGED <<preserve, running, why, failed, logs, dev, queueRef, bridgeRef, runs, pcR, rx,
                 stops, cReason, cSession>>

StopDevice ==
  /\ pcC = "device"
  /\ dev' = IF preserve THEN DevPaused ELSE DevStopped
  /\ pcC' = "idle"
  /\ UNCHANGED <<preserve, running, why, failed, logs, bridges, runs, pcR, rx,
                 stops, cReason, cSession, cBridge>>

-----------------------------------------------------------------------------
(* run(): the reset, the session, the device, the bridge.                  *)

At(from, to) == pcR = from /\ pcR' = to

RunBegin ==
  /\ At("begin", "logs")
  /\ running' = TRUE /\ failed' = FALSE
  /\ reason' = "normal" /\ standing' = FALSE
  /\ UNCHANGED <<preserve, logs, dev, bridges, runs, rx, control>>

\* reset_session_logs recovers the session that CURRENT_SESSION still names ...
RunRecover ==
  /\ At("logs", "newLogs")
  /\ IF pointer # None /\ outcome[pointer] = "running"
       THEN outcome' = [outcome EXCEPT ![pointer] = "recovered"] /\ pointer' = None
       ELSE UNCHANGED <<outcome, pointer>>
  /\ UNCHANGED <<preserve, running, why, failed, session, ledger, noted, early, closed,
                 dev, bridges, runs, rx, control>>

\* ... and creates a new one, with its manifest and the pointer to it.
RunCreate ==
  /\ At("newLogs", "assign")
  /\ outcome' = [outcome EXCEPT ![runs] = "running"] /\ pointer' = runs
  /\ UNCHANGED <<preserve, running, why, failed, session, ledger, noted, early, closed,
                 dev, bridges, runs, rx, control>>

\* run() assigns it to _log_session, which a stop may now record an event of ...
RunAssign ==
  /\ At("assign", "reset")
  /\ session' = runs
  /\ UNCHANGED <<preserve, running, why, failed, pointer, outcome, ledger, noted, early, closed,
                 dev, bridges, runs, rx, control>>

\* ... and forgets that it did.
RunReset ==
  /\ At("reset", "device")
  /\ noted' = FALSE
  /\ UNCHANGED <<preserve, running, why, failed, session, pointer, outcome, ledger, early, closed,
                 dev, bridges, runs, rx, control>>

\* A new device, or the preserved one.
RunDevice ==
  /\ At("device", "bridge")
  /\ dev' = IF dev = "none" THEN "idle" ELSE dev
  /\ UNCHANGED <<preserve, running, why, failed, logs, bridges, runs, rx, control>>

RunBridge ==
  /\ At("bridge", "launch")
  /\ bridgeRef' = runs
  /\ gnss' = [gnss EXCEPT ![runs] = "new"]
  /\ UNCHANGED <<preserve, running, why, failed, logs, dev, queueRef, runs, rx, control>>

\* self._gnss_bridge.start reads the attribute once: it is gone if stop()
\* detached it already.
RunLaunch ==
  /\ At("launch", IF bridgeRef = None THEN "except" ELSE "starting")
  /\ UNCHANGED <<preserve, running, why, failed, logs, dev, bridges, runs, rx, control>>

\* start() works for long before it launches the process, of a bridge that may
\* be detached and stopped by now; or there is no executable.
RunPopen ==
  /\ \/ At("starting", "open") /\ gnss' = [gnss EXCEPT ![runs] = "launched"]
     \/ At("starting", "prime") /\ UNCHANGED gnss
  /\ UNCHANGED <<preserve, running, why, failed, logs, dev, queueRef, bridgeRef, runs, rx, control>>

\* The FIFO writers were opened while the process lived.
RunOpen ==
  /\ At("open", "wire")
  /\ gnss[runs] = "launched"
  /\ gnss' = [gnss EXCEPT ![runs] = "open"]
  /\ UNCHANGED <<preserve, running, why, failed, logs, dev, queueRef, bridgeRef, runs, rx, control>>

\* GNSS-SDR exited, was stopped, or did not open its reader in time.
RunOpenFails ==
  /\ At("open", "except")
  /\ gnss' = [gnss EXCEPT ![runs] = "stopped"]
  /\ UNCHANGED <<preserve, running, why, failed, logs, dev, queueRef, bridgeRef, runs, rx, control>>

\* The handoff is wired up through self._gnss_bridge.
RunWire ==
  /\ At("wire", IF bridgeRef = None THEN "except" ELSE "prime")
  /\ queueRef' = (bridgeRef # None)
  /\ UNCHANGED <<preserve, running, why, failed, logs, dev, bridgeRef, gnss, runs, rx,
                 control>>

\* The startup probe starts the stream; a stopped device only returns nothing.
RunPrime ==
  /\ At("prime", "spawn")
  /\ dev' = DevStarted
  /\ UNCHANGED <<preserve, running, why, failed, logs, bridges, runs, rx, control>>

RunSpawn ==
  /\ At("spawn", "main")
  /\ pcX' = [pcX EXCEPT ![runs] = "loop"]
  /\ UNCHANGED <<preserve, running, why, failed, logs, dev, bridges, runs, xBridge, control>>

\* Fault: the main loop never looks at _running.
RunMainForever == FALSE /\ UNCHANGED vars

RunMain ==
  /\ ~running
  /\ At("main", "fin")
  /\ UNCHANGED <<preserve, running, why, failed, logs, dev, bridges, runs, rx, control>>

\* Any call of run()'s try block may raise.
RunRaises ==
  /\ \E from \in {"logs", "newLogs", "device", "bridge", "launch", "starting", "open",
                   "wire", "prime", "spawn", "main"} : At(from, "except")
  /\ UNCHANGED <<preserve, running, why, failed, logs, dev, bridges, runs, rx, control>>

RunExcept ==
  /\ At("except", "fin")
  /\ reason' = "exception" /\ standing' = (pcC # "write")
  /\ UNCHANGED <<preserve, running, failed, logs, dev, bridges, runs, rx, control>>

-----------------------------------------------------------------------------
(* run(): the finalizer.                                                   *)

FinBegin ==
  /\ At("fin", "join")
  /\ running' = FALSE
  /\ UNCHANGED <<preserve, why, failed, logs, dev, bridges, runs, rx, control>>

\* The RX thread ended, or it is inside bridge.stop for longer than the 2 s of
\* the join.
FinJoin ==
  /\ At("join", "checkBridge")
  /\ pcX[runs] \in {"off", "done", "stopBridge"}
  /\ queueRef' = FALSE
  /\ UNCHANGED <<preserve, running, why, failed, logs, dev, bridgeRef, gnss, runs, rx,
                 control>>

\* The status "Finalizing GNSS-SDR logs" is sent between check and use.
FinCheckBridge ==
  /\ At("checkBridge", IF bridgeRef = None THEN "device!" ELSE "useBridge")
  /\ UNCHANGED <<preserve, running, why, failed, logs, dev, bridges, runs, rx, control>>

FinStopBridge ==
  /\ bridgeRef # None
  /\ At("useBridge", "device!")
  /\ gnss' = Terminated(bridgeRef)
  /\ bridgeRef' = None
  /\ UNCHANGED <<preserve, running, why, failed, logs, dev, queueRef, runs, rx, control>>

\* The parent guard of GNSS-SDR: the process gets SIGTERM when the thread that
\* launched it ends, whoever should have stopped it.
ParentGuard == [n \in Runs |-> IF gnss[n] \in {"launched", "open"} THEN "stopped" ELSE gnss[n]]

\* Another thread detached the bridge: AttributeError ends the finalizer.
FinCrash ==
  /\ bridgeRef = None
  /\ At("useBridge", "crashed")
  /\ gnss' = ParentGuard
  /\ UNCHANGED <<preserve, running, why, failed, logs, dev, queueRef, bridgeRef, runs, rx, control>>

\* _finalize_usrp_device: pause a preserved device, stop and forget another.
FinDevice ==
  /\ At("device!", "session")
  /\ bridgeRef' = None
  /\ dev' = IF preserve THEN DevPaused ELSE "none"
  /\ UNCHANGED <<preserve, running, why, failed, logs, queueRef, gnss, runs, rx, control>>

\* The stop event of the finalizer: nobody else writes _log_session or the
\* pointer between its reads.
FinNote ==
  /\ At("session", IF Claim THEN "event" ELSE "finalize")
  /\ noted' = (noted \/ Claim)
  /\ UNCHANGED <<preserve, running, why, failed, session, pointer, outcome, ledger, early, closed,
                 dev, bridges, runs, rx, control>>

FinEvent ==
  /\ At("event", "finalize")
  /\ RecordEvent(session)
  /\ UNCHANGED <<preserve, running, why, failed, session, pointer, outcome, noted, early, closed,
                 dev, bridges, runs, rx, control>>

Result == IF reason = "exception" THEN "failed" ELSE "stopped"
Close == closed' = IF session = runs /\ pcC \notin {"record", "append"}
                     THEN closed \union {runs} ELSE closed

\* Fault: GNSS-SDR survives the thread that launched it.
FinSessionUnguarded ==
  /\ At("finalize", "off")
  /\ Finalize(Result) /\ Close
  /\ UNCHANGED <<preserve, running, why, failed, session, ledger, noted, early,
                 dev, bridges, runs, rx, control>>

\* Fault: a session is finalized again.
FinSessionAgain ==
  /\ At("finalize", "off")
  /\ outcome' = IF session = None THEN outcome ELSE [outcome EXCEPT ![session] = Result]
  /\ pointer' = IF pointer = session THEN None ELSE pointer
  /\ Close
  /\ gnss' = ParentGuard
  /\ UNCHANGED <<preserve, running, why, failed, session, ledger, noted, early,
                 dev, queueRef, bridgeRef, runs, rx, control>>

\* finalize_session_logs, and the end of the thread.
FinSession ==
  /\ At("finalize", "off")
  /\ Finalize(Result) /\ Close
  /\ gnss' = ParentGuard
  /\ UNCHANGED <<preserve, running, why, failed, session, ledger, noted, early,
                 dev, queueRef, bridgeRef, runs, rx, control>>

-----------------------------------------------------------------------------
(* The RX thread of run n.                                                 *)

XAt(n, from, to) == pcX[n] = from /\ pcX' = [pcX EXCEPT ![n] = to]

RxLoop(n) ==
  /\ XAt(n, "loop", IF running /\ dev # "none" THEN "recv" ELSE "done")
  /\ UNCHANGED <<preserve, running, why, failed, logs, dev, bridges, runs, pcR, xBridge,
                 control>>

\* recv_chunk, which starts a paused stream again, or finds the device gone.
RxRecv(n) ==
  /\ \/ dev # "none" /\ \E to \in {"loop", "fail"} : XAt(n, "recv", to)
     \/ dev # "none" /\ queueRef /\ bridgeRef # None /\ XAt(n, "recv", "publish")
     \/ dev = "none" /\ XAt(n, "recv", "fail")
  /\ dev' = DevStarted
  /\ UNCHANGED <<preserve, running, why, failed, logs, bridges, runs, pcR, xBridge, control>>

\* The queue is full: _handle_gnss_pipeline_error detaches the bridge, once.
RxPipelineError(n) ==
  /\ IF failed
       THEN XAt(n, "publish", "loop") /\ UNCHANGED <<failed, queueRef, bridgeRef, xBridge>>
       ELSE /\ XAt(n, "publish", IF bridgeRef = None THEN "loop" ELSE "stopBridge")
            /\ failed' = TRUE
            /\ queueRef' = FALSE
            /\ xBridge' = [xBridge EXCEPT ![n] = bridgeRef]
            /\ bridgeRef' = None
  /\ UNCHANGED <<preserve, running, why, logs, dev, gnss, runs, pcR, control>>

RxStopBridge(n) ==
  /\ XAt(n, "stopBridge", "loop")
  /\ gnss' = Terminated(xBridge[n]) /\ xBridge' = [xBridge EXCEPT ![n] = None]
  /\ UNCHANGED <<preserve, running, why, failed, logs, dev, queueRef, bridgeRef, runs, pcR,
                 control>>

\* _failed_stop and the overflow auto-stop: the reason, then _running ...
RxFail(n) ==
  /\ XAt(n, "fail", "clear")
  /\ reason' = "rx failure" /\ standing' = (pcC # "write")
  /\ UNCHANGED <<preserve, running, failed, logs, dev, bridges, runs, pcR, xBridge, control>>

RxClear(n) ==
  /\ XAt(n, "clear", "stopDevice")
  /\ running' = FALSE
  /\ UNCHANGED <<preserve, why, failed, logs, dev, bridges, runs, pcR, xBridge, control>>

\* ... and the device is stopped, also that of a preserved session.
RxStopDevice(n) ==
  /\ XAt(n, "stopDevice", "done")
  /\ dev' = DevStopped
  /\ UNCHANGED <<preserve, running, why, failed, logs, bridges, runs, pcR, xBridge, control>>

-----------------------------------------------------------------------------
ControlStep == \/ StopRead \/ StopWrite \/ StopNote \/ StopRecord \/ StopAppend
               \/ StopClear \/ StopDetach \/ StopBridge \/ StopDevice

RunStep == \/ RunBegin \/ RunRecover \/ RunCreate \/ RunAssign \/ RunReset
           \/ RunDevice \/ RunBridge \/ RunLaunch \/ RunPopen
           \/ RunOpen \/ RunOpenFails \/ RunWire \/ RunPrime \/ RunSpawn
           \/ RunMain \/ RunExcept
           \/ FinBegin \/ FinJoin \/ FinCheckBridge \/ FinStopBridge \/ FinCrash
           \/ FinDevice \/ FinNote \/ FinEvent \/ FinSession

RxStep(n) == \/ RxLoop(n) \/ RxRecv(n) \/ RxPipelineError(n) \/ RxStopBridge(n)
             \/ RxFail(n) \/ RxClear(n) \/ RxStopDevice(n)

Next == \/ StartRun \/ StopRequest \/ ControlStep \/ RunStep \/ RunRaises
        \/ \E n \in Runs : RxStep(n)

Spec == Init /\ [][Next]_vars

\* Every thread goes on: each call it blocks in has a timeout, except the
\* opening of the FIFO when gnss_sdr_startup_timeout_s is 0, which ends with
\* GNSS-SDR's start or exit.  Nobody has to start or stop a run.
FairSpec == /\ Spec
            /\ WF_vars(RunStep) /\ WF_vars(ControlStep)
            /\ \A n \in Runs : WF_vars(RxStep(n))

-----------------------------------------------------------------------------
(* Properties.                                                             *)

RunPCs == {"off", "begin", "logs", "newLogs", "assign", "reset", "device", "bridge", "launch",
           "starting", "open", "wire", "prime", "spawn", "main", "except", "fin", "join",
           "checkBridge", "useBridge", "device!", "session", "event", "finalize", "crashed"}
RxPCs == {"off", "loop", "recv", "publish", "stopBridge", "fail", "clear", "stopDevice", "done"}
ControlPCs == {"idle", "reason", "write", "event", "record", "append", "clear", "detach",
               "stopBridge", "device"}

\* Every variable has its type; who is inside bridge.stop has a bridge.
TypeOK ==
  /\ pcC = "stopBridge" => cBridge # None
  /\ \A n \in Runs : pcX[n] = "stopBridge" => xBridge[n] # None
  /\ preserve \in BOOLEAN /\ running \in BOOLEAN /\ noted \in BOOLEAN /\ failed \in BOOLEAN
  /\ queueRef \in BOOLEAN
  /\ reason \in Reasons /\ cReason \in StopReasons
  /\ standing \in BOOLEAN /\ early \subseteq Runs /\ closed \subseteq Runs
  /\ session \in Runs \union {None} /\ pointer \in Runs \union {None}
  /\ cSession \in Runs \union {None}
  /\ outcome \in [Runs -> {"none", "running", "stopped", "failed", "recovered"}]
  /\ ledger \in [Runs -> Seq(Runs \union {None})]
  /\ dev \in {"none", "idle", "live", "closed"}
  /\ bridgeRef \in Runs \union {None} /\ cBridge \in Runs \union {None}
  /\ gnss \in [Runs -> {"none", "new", "launched", "open", "stopped"}]
  /\ runs \in 0..MaxRuns /\ stops \in 0..MaxStops
  /\ pcR \in RunPCs /\ pcX \in [Runs -> RxPCs] /\ xBridge \in [Runs -> Runs \union {None}]
  /\ pcC \in ControlPCs

\* stop() and the finalizer race to record the end of a stream, and what one of
\* them claimed under the lock it writes after the lock, to the session it finds
\* then.  A session's directory gets no other session's stop event and at most
\* one of its own, and exactly one by the time its own run has finalized it
\* while nobody was still writing.  Of a run whose flag was reset after a stop
\* had set it nothing is said: the README shows its two events.
StopEventOnce ==
  \A n \in Runs \ early : /\ ledger[n] \in {<<>>, <<n>>}
                          /\ n \in closed => ledger[n] = <<n>>

\* A cleanup stop does not overwrite the reason of a failure, whichever thread
\* failed and however stop commands overlap with it, until an IPC stop or the
\* next run gives another: unless the failure fell between the read and the
\* write of a stop, which the README shows.
FailureReasonKept == standing => reason \in {"rx failure", "exception"}

\* The manifest of a finished session is final.
OutcomeIsFinal ==
  [][\A n \in Runs : outcome[n] \in {"stopped", "failed"} => outcome'[n] = outcome[n]]_vars

\* The thread of run n, if it has ended, was the last user of its GNSS-SDR: the
\* process does not survive it, even if stop() came before the launch or the
\* finalizer crashed.
NoOrphan ==
  \A n \in Runs : gnss[n] \in {"launched", "open"} => Alive /\ n = runs

\* No thread is inside a device call that could start the stream.
Quiet == pcC = "idle" /\ \A n \in Runs : pcX[n] \in {"off", "done"}

\* After a run whose finalizer was not cut short, nothing streams, although the
\* RX thread may have started a paused stream again.  Of the first run only: an
\* RX thread that outlives its join may start the stream of a later one.
EndsQuiet == runs = 1 /\ pcR = "off" /\ Quiet => dev # "live"

\* What a run leaves behind: one stop event, no receiver, a quiet device.
RunsEndClean == TypeOK /\ StopEventOnce /\ NoOrphan /\ EndsQuiet

\* A stop that clears _running after run() has set it ends the run: no run goes on
\* for ever with the flag cleared.
StopEndsRun == []<>(running \/ ~Alive \/ pcR = "begin")

\* What the documentation says of the same points and the code does not do: no
\* run checks these, and the README shows how each of them fails.

\* "Stop finalizes the manifest": a stop command that was accepted while a run
\* was alive ends that run.
StopFinalizes == pcC = "clear" ~> ~Alive

\* "What is retained for every Start-to-Stop session": the manifest of a session
\* with its stop time and its outcome, once the run has ended.
ManifestFinalized == ~Alive /\ Quiet => \A n \in Runs : outcome[n] # "running"

\* "Next start can reuse current LO/tune state": a preserved device is one that
\* can stream again.
PreservedIsUsable == preserve /\ pcR = "off" => dev # "closed"

\* "The finalizer calls the same guarded helper": one stop event per session.
OneStopEvent == \A n \in Runs : Len(ledger[n]) <= 1

\* "Make a complete ... copy of the current run logs": a finished session has its
\* stop event.
StopEventIsKept ==
  \A n \in Runs \ early : outcome[n] \in {"stopped", "failed"} => ledger[n] = <<n>>

\* "... immutable-by-convention": nor is the manifest of a recovered session
\* written again.
RecoveredIsFinal ==
  [][\A n \in Runs : outcome[n] = "recovered" => outcome'[n] = "recovered"]_vars

\* A cleanup reason never replaces a failure.
CleanupKeepsFailure ==
  [][(reason \in {"rx failure", "exception"} /\ reason' \in CleanupReasons) => pcR = "begin"]_vars

\* "recv() publishes ordered queue-backed work items": one RX thread receives.
OneReceiver ==
  \A m, n \in Runs : pcX[m] = "recv" /\ pcX[n] = "recv" => m = n
=============================================================================
