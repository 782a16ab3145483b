------------------------ MODULE BackendLifecycleProofs ------------------------
(***************************************************************************)
(* The safety of BackendLifecycle for every number of runs and stops.      *)
(***************************************************************************)
EXTENDS BackendLifecycle, TLAPS

\* The finalizer has cleared _running, and has waited for the RX thread.
Cleared == {"join", "checkBridge", "useBridge", "device!", "session", "event", "finalize",
            "crashed", "off"}
Quieted == {"session", "event", "finalize", "off"}
Joined == Cleared \ {"join"}

\* A thread of run() is that of a run.
Numbered == pcR # "off" => runs # 0

\* The session of the run is assigned when it has its manifest and the pointer,
\* which it has until it is finalized; sessions still to come have nothing.
Unassigned == {"begin", "logs", "newLogs", "assign"}
Sessions ==
  /\ session <= runs /\ (pcR \in Unassigned => session < runs) /\ (pcR = "reset" => session = runs)
  /\ IF pcR = "assign" THEN pointer = runs ELSE pointer \in {None, session}
  /\ pointer # None => outcome[pointer] = "running" /\ pointer \notin closed
  /\ Alive /\ session # None /\ session = runs => pointer = session
  /\ \A n \in Runs : n > runs \/ (n = runs /\ pcR \in {"begin", "logs", "newLogs"}) =>
       ledger[n] = <<>> /\ outcome[n] = "none" /\ n \notin closed

\* A stop event is claimed by one thread, which finds its session unless it
\* claimed before the reset of the flag; the flag says that the event is there, as
\* soon as nobody is writing it.
Pending == pcC \in {"record", "append"}
Claims ==
  /\ Pending /\ pcR \in Unassigned \union {"reset"} => runs \in early
  /\ pcC = "append" => pointer = None \/ pointer \in early \/ cSession = pointer
  /\ pcR = "event" => noted /\ session # None
  /\ pcR = "finalize" => noted \/ session = None

Events ==
  /\ pcR = "assign" /\ runs \notin early => ledger[runs] = <<>>
  /\ session # None /\ session \notin early =>
       /\ Pending => noted /\ pcR # "event"
       /\ pcR \in {"reset", "event"} \/ ~noted \/ Pending => ledger[session] = <<>>
       /\ pcR \notin {"reset", "event"} /\ noted /\ ~Pending /\ pointer = session
            => ledger[session] = <<session>>

\* A stop that decided to write a cleanup reason read it before any failure.
Reason == pcC = "write" /\ cReason \in CleanupReasons => ~standing

\* Only RunBegin sets _running.
Stopped == pcR \in Cleared => ~running

\* The first RX thread can be inside bridge.stop when it is no longer waited for,
\* and then finds _running cleared: the device it leaves does not stream.
FirstStream ==
  /\ \A n \in Runs : n > runs => pcX[n] = "off"
  /\ runs <= 1 =>
       /\ pcR \in Joined => \A n \in Runs : pcX[n] \in {"off", "done", "stopBridge", "loop"}
       /\ pcR \in Quieted => dev # "live"

IInv == /\ TypeOK /\ Numbered /\ Sessions /\ Claims /\ Events /\ StopEventOnce
        /\ Reason /\ FailureReasonKept /\ NoOrphan /\ Stopped /\ FirstStream

-----------------------------------------------------------------------------
(* Types                                                                   *)

Ids == Runs \union {None}

\* An event goes to the session that CURRENT_SESSION names, and to no other.
LEMMA Recorded ==
  ASSUME TypeOK, NEW id \in Ids, RecordEvent(id)
  PROVE  /\ ledger' \in [Runs -> Seq(Ids)]
         /\ pointer = None => ledger' = ledger
         /\ pointer # None => ledger'[pointer] = Append(ledger[pointer], id)
         /\ \A n \in Runs : n # pointer => ledger'[n] = ledger[n]
<1>1. ledger \in [Runs -> Seq(Ids)] /\ pointer \in Runs \union {None}
  BY DEF TypeOK, Ids
<1>2. CASE pointer = None
  <2>1. ledger' = ledger
    BY <1>2 DEF RecordEvent
  <2> QED
    BY <1>1, <1>2, <2>1
<1>3. CASE pointer # None
  <2>1. ledger' = [ledger EXCEPT ![pointer] = Append(@, id)]
    BY <1>3 DEF RecordEvent
  <2>2. pointer \in Runs /\ Append(ledger[pointer], id) \in Seq(Ids)
    BY <1>1, <1>3
  <2> QED
    BY <1>1, <1>3, <2>1, <2>2
<1> QED
  BY <1>2, <1>3

LEMMA ControlTypes ==
  ASSUME TypeOK, Numbered, StartRun \/ StopRequest \/ ControlStep
  PROVE  TypeOK'
<1> USE DEF TypeOK, why, logs, bridges, rx, control, ControlPCs
<1>1. CASE StartRun
  BY <1>1, MaxRunsAssumption DEF StartRun, RunPCs
<1>2. CASE StopRequest
  <2>1. stops' \in 0..MaxStops /\ cReason' \in StopReasons /\ pcC' = "reason"
    <3>1. stops < MaxStops /\ stops' = stops + 1 /\ cReason' \in StopReasons /\ pcC' = "reason"
      BY <1>2 DEF StopRequest
    <3> QED
      BY <3>1, MaxStopsAssumption
  <2>2. UNCHANGED <<preserve, running, why, failed, logs, dev, bridges, runs, pcR, rx, cSession, cBridge>>
    BY <1>2 DEF StopRequest
  <2> QED
    BY <2>1, <2>2
<1>7. CASE StopRead \/ StopRecord
  <2>1. pcC' \in {"event", "write", "append"} /\ cSession' \in Runs \union {None}
    BY <1>7 DEF StopRead, StopRecord
  <2>2. UNCHANGED <<preserve, running, why, failed, logs, dev, bridges, runs, pcR, rx, stops, cReason, cBridge>>
    BY <1>7 DEF StopRead, StopRecord
  <2> QED
    BY <2>1, <2>2
<1>8. CASE StopWrite
  <2>1. /\ reason' \in Reasons /\ standing' \in BOOLEAN /\ cReason' \in StopReasons
        /\ pcC' = "event"
    BY <1>8 DEF StopWrite, Reasons, StopReasons, CleanupReasons
  <2>2. UNCHANGED <<preserve, running, failed, logs, dev, bridges, runs, pcR, rx, stops, cSession, cBridge>>
    BY <1>8 DEF StopWrite
  <2> QED
    BY <2>1, <2>2
<1>9. CASE StopNote
  <2>1. early' \subseteq Runs
    <3>1. pcR # "off" => runs \in Runs
      BY MaxRunsAssumption DEF Numbered, Runs
    <3> QED
      BY <1>9, <3>1 DEF StopNote
  <2> QED
    BY <1>9, <2>1 DEF StopNote
<1>10. CASE StopAppend
  <2>1. ledger' \in [Runs -> Seq(Runs \union {None})]
    BY <1>10, Recorded DEF StopAppend, Ids
  <2>2. /\ UNCHANGED <<preserve, running, why, failed, session, pointer, outcome, noted, early, closed>>
        /\ UNCHANGED <<dev, bridges, runs, pcR, rx, stops, cReason, cBridge>>
        /\ pcC' = "clear" /\ cSession' = None
    BY <1>10 DEF StopAppend
  <2> QED
    BY <2>1, <2>2
<1>3. CASE StopClear
  <2>1. running' \in BOOLEAN /\ pcC' = "detach"
    BY <1>3 DEF StopClear
  <2>2. UNCHANGED <<preserve, why, failed, logs, dev, bridges, runs, pcR, rx, stops, cReason, cSession, cBridge>>
    BY <1>3 DEF StopClear
  <2> QED
    BY <2>1, <2>2
<1>4. CASE StopDetach
  BY <1>4 DEF StopDetach
<1>5. CASE StopBridge
  BY <1>5 DEF StopBridge, Terminated
<1>6. CASE StopDevice
  BY <1>6 DEF StopDevice, DevPaused, DevStopped
<1> QED
  BY <1>1, <1>2, <1>3, <1>4, <1>5, <1>6, <1>7, <1>8, <1>9, <1>10 DEF ControlStep

LEMMA RunTypes ==
  ASSUME TypeOK, Numbered, RunStep \/ RunRaises
  PROVE  TypeOK'
<1> USE DEF TypeOK, RunPCs, why, logs, bridges, rx, control, At
<1>0. pcR # "off" => runs \in Runs
  BY MaxRunsAssumption DEF Numbered, Runs
<1>1. CASE RunBegin \/ RunExcept \/ RunMain \/ FinBegin
  <2>1. /\ pcR' \in {"logs", "fin", "join"} /\ running' \in BOOLEAN /\ failed' \in BOOLEAN
        /\ reason' \in Reasons /\ standing' \in BOOLEAN
    BY <1>1 DEF RunBegin, RunExcept, RunMain, FinBegin, Reasons, StopReasons, CleanupReasons
  <2>2. UNCHANGED <<preserve, logs, dev, bridges, runs, rx, control>>
    BY <1>1 DEF RunBegin, RunExcept, RunMain, FinBegin
  <2> QED
    BY <2>1, <2>2
<1>14. CASE RunRaises
  <2>1. pcR' = "except"
    BY <1>14 DEF RunRaises
  <2> QED
    BY <1>14, <2>1 DEF RunRaises
<1>2. CASE RunRecover \/ RunCreate \/ RunAssign \/ RunReset
  <2>1. /\ session' \in Runs \union {None} /\ pointer' \in Runs \union {None} /\ noted' \in BOOLEAN
        /\ outcome' \in [Runs -> {"none", "running", "stopped", "failed", "recovered"}]
        /\ pcR' \in {"newLogs", "assign", "reset", "device"}
    BY <1>0, <1>2 DEF RunRecover, RunCreate, RunAssign, RunReset
  <2>2. UNCHANGED <<preserve, running, why, failed, ledger, early, closed, dev, bridges, runs, rx, control>>
    BY <1>2 DEF RunRecover, RunCreate, RunAssign, RunReset
  <2> QED
    BY <2>1, <2>2
<1>3. CASE RunDevice \/ RunPrime
  BY <1>3 DEF RunDevice, RunPrime, DevStarted
<1>4. CASE RunBridge
  <2>1. /\ bridgeRef' \in Runs \union {None} /\ pcR' = "launch"
        /\ gnss' \in [Runs -> {"none", "new", "launched", "open", "stopped"}]
    BY <1>0, <1>4 DEF RunBridge
  <2>2. UNCHANGED <<preserve, running, why, failed, logs, dev, queueRef, runs, rx, control>>
    BY <1>4 DEF RunBridge
  <2> QED
    BY <2>1, <2>2
<1>5. CASE RunLaunch \/ RunPopen
  <2>1. /\ gnss' \in [Runs -> {"none", "new", "launched", "open", "stopped"}]
        /\ pcR' \in {"except", "starting", "open", "prime"}
    BY <1>5 DEF RunLaunch, RunPopen
  <2>2. UNCHANGED <<preserve, running, why, failed, logs, dev, queueRef, bridgeRef, runs, rx, control>>
    BY <1>5 DEF RunLaunch, RunPopen
  <2> QED
    BY <2>1, <2>2
<1>6. CASE RunOpen \/ RunOpenFails
  <2>1. /\ gnss' \in [Runs -> {"none", "new", "launched", "open", "stopped"}]
        /\ pcR' \in {"wire", "except"}
    BY <1>6 DEF RunOpen, RunOpenFails
  <2>2. UNCHANGED <<preserve, running, why, failed, logs, dev, queueRef, bridgeRef, runs, rx, control>>
    BY <1>6 DEF RunOpen, RunOpenFails
  <2> QED
    BY <2>1, <2>2
<1>7. CASE RunWire
  BY <1>7 DEF RunWire
<1>8. CASE RunSpawn
  BY <1>0, <1>8 DEF RunSpawn, RxPCs
<1>9. CASE FinJoin \/ FinCheckBridge
  <2>1. pcR' \in {"checkBridge", "device!", "useBridge"} /\ queueRef' \in BOOLEAN
    BY <1>9 DEF FinJoin, FinCheckBridge
  <2> QED
    BY <1>9, <2>1 DEF FinJoin, FinCheckBridge
<1>10. CASE FinStopBridge
  BY <1>10 DEF FinStopBridge, Terminated, None
<1>11. CASE FinCrash
  BY <1>11 DEF FinCrash, ParentGuard
<1>12. CASE FinDevice
  BY <1>12 DEF FinDevice, DevPaused
<1>13. CASE FinNote
  BY <1>13 DEF FinNote
<1>15. CASE FinEvent
  <2>1. ledger' \in [Runs -> Seq(Runs \union {None})]
    BY <1>15, Recorded DEF FinEvent, Ids
  <2> QED
    BY <1>15, <2>1 DEF FinEvent
<1>16. CASE FinSession
  <2>1. /\ outcome' \in [Runs -> {"none", "running", "stopped", "failed", "recovered"}]
        /\ pointer' \in Runs \union {None}
    BY <1>16 DEF FinSession, Finalize, Result
  <2>2. closed' \subseteq Runs
    BY <1>0, <1>16 DEF FinSession, Close
  <2>3. gnss' \in [Runs -> {"none", "new", "launched", "open", "stopped"}]
    BY <1>16 DEF FinSession, ParentGuard
  <2> QED
    BY <1>16, <2>1, <2>2, <2>3 DEF FinSession
<1> QED
  BY <1>1, <1>2, <1>3, <1>4, <1>5, <1>6, <1>7, <1>8, <1>9, <1>10, <1>11, <1>12, <1>13,
     <1>14, <1>15, <1>16 DEF RunStep

LEMMA RxTypes ==
  ASSUME TypeOK, NEW n \in Runs, RxStep(n)
  PROVE  TypeOK'
<1> USE DEF TypeOK, RxPCs, why, logs, bridges, rx, control, XAt
<1>1. CASE RxLoop(n)
  BY <1>1 DEF RxLoop
<1>2. CASE RxRecv(n)
  <2>1. dev' \in {"none", "idle", "live", "closed"}
    BY <1>2 DEF RxRecv, DevStarted
  <2>2. \E to \in {"loop", "fail", "publish"} : pcX' = [pcX EXCEPT ![n] = to]
    BY <1>2 DEF RxRecv
  <2> QED
    BY <1>2, <2>1, <2>2 DEF RxRecv
<1>3. CASE RxPipelineError(n)
  <2>1. CASE failed
    BY <1>3, <2>1 DEF RxPipelineError
  <2>2. CASE ~failed
    <3>1. /\ xBridge' = [xBridge EXCEPT ![n] = bridgeRef] /\ failed' = TRUE
          /\ queueRef' = FALSE /\ bridgeRef' = None
          /\ pcX' = [pcX EXCEPT ![n] = IF bridgeRef = None THEN "loop" ELSE "stopBridge"]
      BY <1>3, <2>2 DEF RxPipelineError
    <3>2. \A m \in Runs : pcX'[m] = "stopBridge" => xBridge'[m] # None
      BY <3>1
    <3>3. /\ pcX' \in [Runs -> RxPCs] /\ xBridge' \in [Runs -> Runs \union {None}]
          /\ bridgeRef' \in Runs \union {None}
      BY <3>1
    <3>4. /\ failed' \in BOOLEAN /\ queueRef' \in BOOLEAN
          /\ UNCHANGED <<preserve, running, why, logs, dev, gnss, runs, pcR, control>>
      BY <1>3, <3>1 DEF RxPipelineError
    <3> QED
      BY <3>2, <3>3, <3>4
  <2> QED
    BY <2>1, <2>2
<1>4. CASE RxStopBridge(n)
  <2>1. /\ gnss' \in [Runs -> {"none", "new", "launched", "open", "stopped"}]
        /\ xBridge' \in [Runs -> Runs \union {None}] /\ pcX' \in [Runs -> RxPCs]
    BY <1>4 DEF RxStopBridge, Terminated
  <2>2. \A m \in Runs : pcX'[m] = "stopBridge" => m # n /\ pcX[m] = "stopBridge" /\ xBridge'[m] = xBridge[m]
    BY <1>4 DEF RxStopBridge
  <2> QED
    BY <1>4, <2>1, <2>2 DEF RxStopBridge
<1>5. CASE RxFail(n) \/ RxClear(n)
  <2>1. /\ reason' \in Reasons /\ standing' \in BOOLEAN /\ running' \in BOOLEAN
        /\ pcX' \in [Runs -> RxPCs]
    <3>1. pcX' = [pcX EXCEPT ![n] = "clear"] \/ pcX' = [pcX EXCEPT ![n] = "stopDevice"]
      BY <1>5 DEF RxFail, RxClear
    <3>2. pcX' \in [Runs -> RxPCs]
      BY <3>1
    <3>3. CASE RxFail(n)
      BY <3>2, <3>3 DEF RxFail, Reasons
    <3>4. CASE RxClear(n)
      BY <3>2, <3>4 DEF RxClear
    <3> QED
      BY <1>5, <3>3, <3>4
  <2>2. \A m \in Runs : pcX'[m] = "stopBridge" => pcX[m] = "stopBridge"
    BY <1>5 DEF RxFail, RxClear
  <2>3. UNCHANGED <<preserve, failed, logs, dev, bridges, runs, pcR, xBridge, control>>
    BY <1>5 DEF RxFail, RxClear
  <2>4. \A m \in Runs : pcX'[m] = "stopBridge" => xBridge'[m] # None
    BY <2>2, <2>3
  <2> HIDE DEF RxPCs
  <2> QED
    BY <2>1, <2>3, <2>4
<1>6. CASE RxStopDevice(n)
  BY <1>6 DEF RxStopDevice, DevStopped
<1> QED
  BY <1>1, <1>2, <1>3, <1>4, <1>5, <1>6 DEF RxStep

LEMMA Types == IInv /\ [Next]_vars => TypeOK'
<1>1. ASSUME IInv, UNCHANGED vars PROVE TypeOK'
  BY <1>1 DEF IInv, TypeOK, vars, why, logs, bridges, rx, control
<1> QED
  BY <1>1, ControlTypes, RunTypes, RxTypes DEF IInv, Next

-----------------------------------------------------------------------------
(* Sessions and stop events                                                *)

\* The steps that write the logs, or are about to.
LogStep == \/ StartRun \/ StopNote \/ StopRecord \/ StopAppend
           \/ RunRecover \/ RunCreate \/ RunAssign \/ RunReset
           \/ FinNote \/ FinEvent \/ FinSession

\* All others leave them, and do not pass a point that the invariant names.
Aloof ==
  /\ UNCHANGED <<session, pointer, outcome, ledger, noted, early, closed, runs, cSession>>
  /\ pcC' = pcC \/ {pcC, pcC'} \intersect {"record", "append"} = {}
  /\ \/ pcR' = pcR
     \/ pcR = "begin" /\ pcR' = "logs"
     \/ /\ pcR \notin {"off", "crashed", "assign", "reset", "event", "finalize"}
        /\ pcR' \notin {"off", "begin", "logs", "newLogs", "assign", "reset", "event", "finalize"}

LEMMA LogWriters ==
  ASSUME Next
  PROVE  LogStep \/ Aloof
<1> USE DEF logs, control, At, Aloof
<1>1. CASE StopRequest \/ StopRead \/ StopWrite \/ StopClear \/ StopDetach \/ StopBridge \/ StopDevice
  BY <1>1 DEF StopRequest, StopRead, StopWrite, StopClear, StopDetach, StopBridge, StopDevice
<1>2. CASE RunBegin \/ RunDevice \/ RunBridge \/ RunLaunch \/ RunPopen \/ RunOpen \/ RunOpenFails
  BY <1>2 DEF RunBegin, RunDevice, RunBridge, RunLaunch, RunPopen, RunOpen, RunOpenFails
<1>3. CASE RunWire \/ RunPrime \/ RunSpawn \/ RunMain \/ RunExcept \/ RunRaises
  BY <1>3 DEF RunWire, RunPrime, RunSpawn, RunMain, RunExcept, RunRaises
<1>4. CASE FinBegin \/ FinJoin \/ FinCheckBridge \/ FinStopBridge \/ FinCrash \/ FinDevice
  BY <1>4 DEF FinBegin, FinJoin, FinCheckBridge, FinStopBridge, FinCrash, FinDevice
<1>5. CASE \E n \in Runs : RxStep(n)
  BY <1>5 DEF RxStep, RxLoop, RxRecv, RxPipelineError, RxStopBridge, RxFail, RxClear, RxStopDevice
<1> QED
  BY <1>1, <1>2, <1>3, <1>4, <1>5 DEF Next, RunStep, ControlStep, LogStep

LEMMA Numbers ==
  ASSUME TypeOK, Numbered
  PROVE  /\ runs \in Nat /\ session \in Nat /\ pointer \in Nat /\ Runs \subseteq Nat /\ None = 0
         /\ (\A n \in Runs : n # 0) /\ (pcR # "off" => runs \in Runs)
         /\ None \notin early /\ None \notin closed
  BY MaxRunsAssumption DEF TypeOK, Numbered, Runs, None

LEMMA SessionsStep ==
  ASSUME IInv, Next
  PROVE  Numbered' /\ Sessions'
<1>1. TypeOK /\ Numbered /\ Sessions
  BY DEF IInv
<1> USE DEF Unassigned, At, Alive
<1>2. CASE Aloof
  BY <1>1, <1>2, Numbers DEF Numbered, Sessions, Aloof
<1>3. CASE StartRun
  <2>1. /\ UNCHANGED <<session, pointer, outcome, ledger, closed>>
        /\ runs' = runs + 1 /\ pcR \in {"off", "crashed"} /\ pcR' = "begin"
    BY <1>3 DEF StartRun, logs, IsRunning
  <2> QED
    BY <1>1, <2>1, Numbers DEF Numbered, Sessions
<1>4. CASE StopNote \/ StopRecord
  <2>1. UNCHANGED <<session, pointer, outcome, ledger, closed, runs, pcR>>
    BY <1>4 DEF StopNote, StopRecord, logs
  <2> QED
    BY <1>1, <2>1 DEF Numbered, Sessions
<1>5. CASE StopAppend \/ FinEvent
  <2>1. /\ UNCHANGED <<session, pointer, outcome, closed, runs>>
        /\ pcR' = pcR \/ (pcR = "event" /\ pcR' = "finalize")
        /\ \E id \in Ids : RecordEvent(id)
    BY <1>1, <1>5 DEF StopAppend, FinEvent, TypeOK, Ids
  <2>2. \A n \in Runs : n # pointer => ledger'[n] = ledger[n]
    BY <1>1, <2>1, Recorded
  <2>3. \A n \in Runs : n > runs \/ (n = runs /\ pcR \in {"begin", "logs", "newLogs"}) => n # pointer
    BY <1>1, Numbers DEF Sessions
  <2> QED
    BY <1>1, <2>1, <2>2, <2>3 DEF Numbered, Sessions
<1>6. CASE RunRecover
  <2>1. /\ UNCHANGED <<session, ledger, closed, runs>> /\ pcR = "logs" /\ pcR' = "newLogs"
        /\ pointer' = IF pointer # None THEN None ELSE pointer
        /\ outcome' = IF pointer # None THEN [outcome EXCEPT ![pointer] = "recovered"] ELSE outcome
    BY <1>1, <1>6 DEF RunRecover, Sessions
  <2>2. \A n \in Runs : n > runs \/ n = runs => n # pointer
    BY <1>1, <2>1, Numbers DEF Sessions
  <2>3. \A n \in Runs : n # pointer => outcome'[n] = outcome[n]
    BY <1>1, <2>1 DEF TypeOK
  <2> QED
    BY <1>1, <2>1, <2>2, <2>3, Numbers DEF Numbered, Sessions
<1>7. CASE RunCreate
  <2>1. /\ UNCHANGED <<session, ledger, closed, runs>> /\ pcR = "newLogs" /\ pcR' = "assign"
        /\ pointer' = runs /\ outcome' = [outcome EXCEPT ![runs] = "running"] /\ runs \in Runs
    BY <1>1, <1>7, Numbers DEF RunCreate
  <2>2. outcome'[runs] = "running" /\ \A n \in Runs : n # runs => outcome'[n] = outcome[n]
    BY <1>1, <2>1 DEF TypeOK
  <2> QED
    BY <1>1, <2>1, <2>2, Numbers DEF Numbered, Sessions
<1>8. CASE RunAssign
  BY <1>1, <1>8, Numbers DEF RunAssign, Numbered, Sessions
<1>9. CASE RunReset \/ FinNote
  <2>1. UNCHANGED <<session, pointer, outcome, ledger, closed, runs>>
    BY <1>9 DEF RunReset, FinNote
  <2>2. pcR \in {"reset", "session"} /\ pcR' \in {"device", "event", "finalize"}
    BY <1>9 DEF RunReset, FinNote
  <2> QED
    BY <1>1, <2>1, <2>2 DEF Numbered, Sessions
<1>10. CASE FinSession
  <2>1. /\ UNCHANGED <<session, ledger, runs>> /\ pcR = "finalize" /\ pcR' = "off" /\ Finalize(Result)
        /\ closed' \subseteq closed \union (IF session = runs THEN {session} ELSE {})
    BY <1>10 DEF FinSession, Close
  <2>2. pointer \in {None, session}
    BY <1>1, <2>1 DEF Sessions
  <2>3. \/ outcome' = outcome /\ pointer' = pointer
        \/ session # None /\ outcome' = [outcome EXCEPT ![session] = Result] /\ pointer' = None
    BY <2>1, <2>2 DEF Finalize
  <2>4. session = runs /\ session # None => pointer' = None
    BY <1>1, <2>1 DEF Sessions, Finalize
  <2>5. pointer' # None => pointer' = pointer /\ outcome' = outcome /\ pointer # runs
    BY <1>1, <2>2, <2>3, <2>4, Numbers
  <2>6. \A n \in Runs : n > runs => outcome'[n] = outcome[n] /\ n \notin {session}
    BY <1>1, <2>3, Numbers DEF Sessions, TypeOK
  <2>7. pointer' # None => outcome'[pointer'] = "running" /\ pointer' \notin closed'
    BY <1>1, <2>1, <2>2, <2>5 DEF Sessions
  <2> QED
    BY <1>1, <2>1, <2>2, <2>5, <2>6, <2>7, Numbers DEF Numbered, Sessions
<1> QED
  BY <1>2, <1>3, <1>4, <1>5, <1>6, <1>7, <1>8, <1>9, <1>10, LogWriters DEF LogStep

LEMMA ClaimsStep ==
  ASSUME IInv, Next
  PROVE  Claims'
<1>1. TypeOK /\ Numbered /\ Sessions /\ Claims
  BY DEF IInv
<1> USE DEF Unassigned, Pending, At
<1>2. CASE Aloof
  BY <1>1, <1>2 DEF Claims, Aloof
<1>3. CASE StartRun
  BY <1>1, <1>3 DEF StartRun, logs, control, Claims
<1>4. CASE StopNote
  <2>1. /\ UNCHANGED <<pcR, runs, session, pointer, cSession>> /\ early \subseteq early'
        /\ pcC' \in {"record", "clear"} /\ (noted => noted')
    BY <1>1, <1>4 DEF StopNote, TypeOK
  <2>2. pcC' = "record" /\ pcR \in Unassigned \union {"reset"} => runs \in early'
    BY <1>4 DEF StopNote
  <2> QED
    BY <1>1, <2>1, <2>2 DEF Claims
<1>5. CASE StopRecord
  <2>1. /\ UNCHANGED <<pcR, runs, session, pointer, early, noted>>
        /\ pcC = "record" /\ pcC' = "append" /\ cSession' = session
    BY <1>5 DEF StopRecord, logs
  <2>2. pointer \in {None, session} \/ pointer \in early
    BY <1>1, <2>1 DEF Claims, Sessions
  <2> QED
    BY <1>1, <2>1, <2>2 DEF Claims
<1>6. CASE StopAppend \/ FinEvent
  <2>1. /\ UNCHANGED <<runs, session, pointer, early, noted>>
        /\ \/ pcR' = pcR /\ pcC' = "clear"
           \/ pcC' = pcC /\ cSession' = cSession /\ pcR = "event" /\ pcR' = "finalize"
    BY <1>6 DEF StopAppend, FinEvent, control
  <2> QED
    BY <1>1, <2>1 DEF Claims
<1>7. CASE RunRecover \/ RunCreate
  <2>1. /\ UNCHANGED <<runs, session, early, noted, pcC, cSession>>
        /\ pcR \in {"logs", "newLogs"} /\ pcR' \in {"newLogs", "assign"} /\ pointer' \in {None, pointer, runs}
    BY <1>7 DEF RunRecover, RunCreate, control
  <2> QED
    BY <1>1, <2>1 DEF Claims
<1>8. CASE RunAssign \/ RunReset
  <2>1. /\ UNCHANGED <<runs, pointer, early, pcC, cSession>>
        /\ pcR \in {"assign", "reset"} /\ pcR' \in {"reset", "device"}
    BY <1>8 DEF RunAssign, RunReset, control
  <2> QED
    BY <1>1, <2>1 DEF Claims
<1>9. CASE FinNote
  <2>1. /\ UNCHANGED <<runs, session, pointer, early, pcC, cSession>>
        /\ pcR' = IF Claim THEN "event" ELSE "finalize"
        /\ noted' = (noted \/ Claim)
    BY <1>9 DEF FinNote, control
  <2> QED
    BY <1>1, <2>1 DEF Claims, Claim, TypeOK
<1>10. CASE FinSession
  <2>1. /\ UNCHANGED <<runs, session, early, noted, pcC, cSession>> /\ pcR' = "off"
        /\ pointer' \in {None, pointer}
    BY <1>10 DEF FinSession, Finalize, control
  <2> QED
    BY <1>1, <2>1 DEF Claims
<1> QED
  BY <1>2, <1>3, <1>4, <1>5, <1>6, <1>7, <1>8, <1>9, <1>10, LogWriters DEF LogStep

LEMMA EventsStep ==
  ASSUME IInv, Next
  PROVE  Events' /\ StopEventOnce'
<1>1. TypeOK /\ Numbered /\ Sessions /\ Claims /\ Events /\ StopEventOnce
  BY DEF IInv
<1> USE DEF Unassigned, Pending, At
<1>2. CASE Aloof
  BY <1>1, <1>2 DEF Events, StopEventOnce, Aloof
<1>3. CASE StartRun
  BY <1>1, <1>3, Numbers DEF StartRun, IsRunning, Alive, logs, control, Events, StopEventOnce
<1>4. CASE StopNote
  <2>1. /\ UNCHANGED <<session, pointer, ledger, closed, runs, pcR>> /\ pcC = "event"
        /\ pcC' \in {"record", "clear"} /\ noted \in BOOLEAN
    BY <1>1, <1>4 DEF StopNote, TypeOK
  <2>2. pcR = "event" => ~Claim
    BY <1>1 DEF Claims, Claim
  <2>3. CASE ~Claim
    <3>1. UNCHANGED <<noted, early>> /\ pcC' = "clear"
      BY <1>4, <2>1, <2>3 DEF StopNote
    <3>2. ~Pending /\ ~Pending'
      BY <2>1, <3>1
    <3> QED
      BY <1>1, <2>1, <3>1, <3>2 DEF Events, StopEventOnce
  <2>4. CASE Claim
    <3>1. /\ noted' = TRUE /\ pcC' = "record" /\ ~noted /\ session # None
          /\ early \subseteq early' /\ (pcR = "reset" => runs \in early')
      BY <1>4, <2>4 DEF StopNote, Claim
    <3>3. pcR = "reset" => session \in early'
      BY <1>1, <3>1 DEF Sessions
    <3>2. session \notin early' => pcR # "reset" /\ pcR # "event" /\ ledger[session] = <<>>
      BY <1>1, <2>2, <2>4, <3>1, <3>3 DEF Events
    <3> QED
      BY <1>1, <2>1, <3>1, <3>2, <3>3 DEF Events, StopEventOnce
  <2> QED
    BY <2>3, <2>4
<1>5. CASE StopRecord
  BY <1>1, <1>5 DEF StopRecord, logs, Events, StopEventOnce
<1>6. CASE StopAppend
  <2>1. /\ UNCHANGED <<session, pointer, closed, runs, pcR, noted, early>>
        /\ pcC = "append" /\ pcC' = "clear" /\ RecordEvent(cSession) /\ cSession \in Ids
    BY <1>1, <1>6 DEF StopAppend, TypeOK, Ids
  <2>2. \A n \in Runs : n # pointer => ledger'[n] = ledger[n]
    BY <1>1, <2>1, Recorded
  <2>3. pointer = None \/ pointer \in early \/ (pointer = session /\ cSession = session)
    BY <1>1, <2>1 DEF Sessions, Claims
  <2>4. pointer \notin closed
    BY <1>1, Numbers DEF Sessions
  <2>5. CASE pointer = None \/ pointer \in early
    <3>1. \A n \in Runs \ early : ledger'[n] = ledger[n]
      BY <1>1, <2>2, <2>5, Numbers
    <3>2. pointer = session => session = None \/ session \in early
      BY <2>5
    <3>3. session \in Runs \union {None}
      BY <1>1 DEF TypeOK
    <3> QED
      BY <1>1, <2>1, <3>1, <3>2, <3>3, Numbers DEF Events, StopEventOnce
  <2>6. CASE pointer = session /\ cSession = session /\ session # None /\ session \notin early
    <3>1. ledger[session] = <<>> /\ noted /\ pcR # "event" /\ session \in Runs
      BY <1>1, <2>1, <2>6 DEF Events, TypeOK
    <3>2. ledger'[session] = <<session>>
      BY <1>1, <2>1, <2>6, <3>1, Recorded
    <3>3. pcR \notin {"assign", "reset"}
      BY <1>1, <2>1, <2>6 DEF Sessions, Claims
    <3> QED
      BY <1>1, <2>1, <2>2, <2>4, <2>6, <3>1, <3>2, <3>3 DEF Events, StopEventOnce
  <2> QED
    BY <2>3, <2>5, <2>6
<1>7. CASE RunRecover \/ RunCreate
  <2>1. /\ UNCHANGED <<session, ledger, closed, runs, noted, early, pcC>>
        /\ \/ pcR = "logs" /\ pcR' = "newLogs" /\ pointer' \in {None, pointer}
           \/ pcR = "newLogs" /\ pcR' = "assign" /\ pointer' = runs
    BY <1>7 DEF RunRecover, RunCreate, control
  <2>2. runs \in Runs /\ session # runs /\ (pcR = "newLogs" => ledger[runs] = <<>>)
    BY <1>1, <2>1, Numbers DEF Sessions
  <2> QED
    BY <1>1, <2>1, <2>2 DEF Events, StopEventOnce
<1>8. CASE RunAssign
  <2>1. /\ UNCHANGED <<pointer, ledger, closed, runs, noted, early, pcC>>
        /\ pcR = "assign" /\ pcR' = "reset" /\ session' = runs
    BY <1>8 DEF RunAssign, control
  <2>2. Pending => runs \in early
    BY <1>1, <2>1 DEF Claims
  <2> QED
    BY <1>1, <2>1, <2>2 DEF Events, StopEventOnce
<1>9. CASE RunReset
  <2>1. /\ UNCHANGED <<session, pointer, ledger, closed, runs, early, pcC>>
        /\ pcR = "reset" /\ pcR' = "device" /\ noted' = FALSE
    BY <1>9 DEF RunReset, control
  <2>2. session = runs /\ (Pending => runs \in early)
    BY <1>1, <2>1 DEF Sessions, Claims
  <2> QED
    BY <1>1, <2>1, <2>2 DEF Events, StopEventOnce
<1>10. CASE FinNote
  <2>1. /\ UNCHANGED <<session, pointer, ledger, closed, runs, early, pcC>>
        /\ pcR = "session" /\ pcR' = IF Claim THEN "event" ELSE "finalize"
        /\ noted' = (noted \/ Claim)
    BY <1>10 DEF FinNote, control
  <2>2. noted \in BOOLEAN /\ noted' \in BOOLEAN
    BY <1>1, <2>1 DEF TypeOK, Claim
  <2> QED
    BY <1>1, <2>1, <2>2 DEF Events, StopEventOnce, Claim
<1>11. CASE FinEvent
  <2>1. /\ UNCHANGED <<session, pointer, closed, runs, noted, early, pcC>>
        /\ pcR = "event" /\ pcR' = "finalize" /\ RecordEvent(session) /\ session \in Ids
    BY <1>1, <1>11 DEF FinEvent, TypeOK, Ids, control
  <2>2. noted /\ session \in Runs /\ pointer \in {None, session} /\ pointer \notin closed
    BY <1>1, <2>1, Numbers DEF Claims, Sessions, TypeOK
  <2>3. \A n \in Runs : n # session => ledger'[n] = ledger[n]
    BY <1>1, <2>1, <2>2, Recorded, Numbers
  <2>4. session \notin early => ledger[session] = <<>> /\ ~Pending
    BY <1>1, <2>1, <2>2, Numbers DEF Events
  <2>5. /\ pointer = session /\ session \notin early => ledger'[session] = <<session>>
        /\ pointer # session => ledger'[session] = ledger[session]
    BY <1>1, <2>1, <2>2, <2>4, Recorded, Numbers
  <2> QED
    BY <1>1, <2>1, <2>2, <2>3, <2>4, <2>5 DEF Events, StopEventOnce
<1>12. CASE FinSession
  <2>1. /\ UNCHANGED <<session, ledger, runs, noted, early, pcC>>
        /\ pcR = "finalize" /\ pcR' = "off" /\ Close
        /\ pointer' \in {None, pointer}
    BY <1>12 DEF FinSession, Finalize, control
  <2>2. session \in Runs /\ session \notin early /\ session = runs /\ ~Pending => ledger[session] = <<session>>
    BY <1>1, <2>1, Numbers DEF Events, Claims, Sessions, Alive
  <2>3. closed' = closed \/ (closed' = closed \union {session} /\ session = runs /\ ~Pending)
    BY <2>1 DEF Close
  <2>4. session # None => session \in Runs
    BY <1>1 DEF TypeOK
  <2> QED
    BY <1>1, <2>1, <2>2, <2>3, <2>4 DEF Events, StopEventOnce
<1> QED
  BY <1>2, <1>3, <1>4, <1>5, <1>6, <1>7, <1>8, <1>9, <1>10, <1>11, <1>12, LogWriters DEF LogStep

-----------------------------------------------------------------------------
(* Stop reasons                                                            *)

LEMMA ReasonStep ==
  ASSUME IInv, Next
  PROVE  Reason' /\ FailureReasonKept'
<1>1. TypeOK /\ Reason /\ FailureReasonKept
  BY DEF IInv
<1> USE DEF At, XAt, why, control
<1>2. CASE /\ reason' = reason /\ standing' = standing
           /\ pcC' = "write" => pcC = "write" /\ cReason' = cReason
  BY <1>1, <1>2 DEF Reason, FailureReasonKept
<1>3. CASE StartRun \/ StopRequest \/ StopNote \/ StopRecord \/ StopAppend \/ StopClear \/ StopDetach
           \/ StopBridge \/ StopDevice
  BY <1>2, <1>3 DEF StartRun, StopRequest, StopNote, StopRecord, StopAppend, StopClear, StopDetach,
     StopBridge, StopDevice
<1>4. CASE StopRead
  BY <1>1, <1>4 DEF StopRead, Reason, FailureReasonKept, CleanupReasons
<1>5. CASE StopWrite
  BY <1>1, <1>5 DEF StopWrite, Reason, FailureReasonKept
<1>6. CASE RunStep \/ RunRaises
  <2>1. \/ RunBegin \/ RunExcept
        \/ UNCHANGED <<reason, standing, pcC, cReason>>
    BY <1>6 DEF RunStep, RunRaises, RunRecover, RunCreate, RunAssign, RunReset, RunDevice, RunBridge,
       RunLaunch, RunPopen, RunOpen, RunOpenFails, RunWire, RunPrime, RunSpawn, RunMain, FinBegin,
       FinJoin, FinCheckBridge, FinStopBridge, FinCrash, FinDevice, FinNote, FinEvent, FinSession
  <2>2. CASE RunBegin \/ RunExcept
    BY <1>1, <2>2 DEF RunBegin, RunExcept, Reason, FailureReasonKept
  <2> QED
    BY <1>2, <2>1, <2>2
<1>7. CASE \E n \in Runs : RxStep(n)
  <2>1. \/ UNCHANGED <<reason, standing, pcC, cReason>>
        \/ UNCHANGED <<pcC, cReason>> /\ reason' = "rx failure" /\ standing' = (pcC # "write")
    BY <1>7 DEF RxStep, RxLoop, RxRecv, RxPipelineError, RxStopBridge, RxFail, RxClear, RxStopDevice
  <2> QED
    BY <1>1, <1>2, <2>1 DEF Reason, FailureReasonKept
<1> QED
  BY <1>3, <1>4, <1>5, <1>6, <1>7 DEF Next, ControlStep

-----------------------------------------------------------------------------
(* GNSS-SDR processes                                                      *)

LEMMA NoOrphanStep ==
  ASSUME IInv, Next
  PROVE  NoOrphan'
<1> USE DEF bridges, At, Alive
<1>1. TypeOK /\ NoOrphan
  BY DEF IInv
<1>2. CASE StartRun
  <2>1. ~Alive /\ gnss' = gnss
    BY <1>2 DEF StartRun, IsRunning
  <2> QED
    BY <1>1, <2>1 DEF NoOrphan
<1>3. CASE /\ pcR' \notin {"off", "crashed"} \/ pcR' = pcR
           /\ runs' = runs
           /\ \A n \in Runs : gnss'[n] \in {"launched", "open"} =>
                gnss[n] \in {"launched", "open"} \/ (n = runs /\ pcR' \notin {"off", "crashed"})
  BY <1>1, <1>3 DEF NoOrphan
<1>4. CASE FinSession \/ FinCrash
  <2>1. \A n \in Runs : gnss'[n] \notin {"launched", "open"}
    BY <1>4 DEF FinSession, FinCrash, ParentGuard
  <2> QED
    BY <2>1 DEF NoOrphan
<1>5. \A b : \A n \in Runs : Terminated(b)[n] \in {"launched", "open"} => gnss[n] \in {"launched", "open"}
  BY <1>1 DEF Terminated, TypeOK
<1>6. CASE StopRequest \/ ControlStep
  <2>1. gnss' = gnss \/ gnss' = Terminated(cBridge)
    BY <1>6 DEF StopRequest, ControlStep, StopRead, StopWrite, StopNote, StopRecord,
       StopAppend, StopClear, StopDetach, StopBridge, StopDevice
  <2>2. pcR' = pcR /\ runs' = runs
    BY <1>6 DEF StopRequest, ControlStep, StopRead, StopWrite, StopNote, StopRecord,
       StopAppend, StopClear, StopDetach, StopBridge, StopDevice
  <2> QED
    BY <1>3, <1>5, <2>1, <2>2
<1>7. CASE \E n \in Runs : RxStep(n)
  <2>1. gnss' = gnss \/ \E n \in Runs : gnss' = Terminated(xBridge[n])
    BY <1>7 DEF RxStep, RxLoop, RxRecv, RxPipelineError, RxStopBridge, RxFail, RxClear, RxStopDevice
  <2>2. pcR' = pcR /\ runs' = runs
    BY <1>7 DEF RxStep, RxLoop, RxRecv, RxPipelineError, RxStopBridge, RxFail, RxClear, RxStopDevice
  <2> QED
    BY <1>3, <1>5, <2>1, <2>2
<1>8. CASE RunBegin \/ RunRecover \/ RunCreate \/ RunAssign \/ RunReset \/ RunDevice \/ RunLaunch \/ RunWire
           \/ RunPrime \/ RunSpawn
  BY <1>3, <1>8 DEF RunBegin, RunRecover, RunCreate, RunAssign, RunReset, RunDevice, RunLaunch, RunWire,
     RunPrime, RunSpawn
<1>9. CASE RunMain \/ RunExcept \/ RunRaises \/ FinBegin \/ FinJoin \/ FinCheckBridge \/ FinDevice
           \/ FinNote \/ FinEvent
  BY <1>3, <1>9 DEF RunMain, RunExcept, RunRaises, FinBegin, FinJoin, FinCheckBridge, FinDevice, FinNote,
     FinEvent
<1>10. CASE RunBridge \/ RunPopen \/ RunOpen \/ RunOpenFails
  <2>1. \E v : gnss' = [gnss EXCEPT ![runs] = v] \/ gnss' = gnss
    BY <1>10 DEF RunBridge, RunPopen, RunOpen, RunOpenFails
  <2>2. pcR' \notin {"off", "crashed"} /\ runs' = runs
    BY <1>10 DEF RunBridge, RunPopen, RunOpen, RunOpenFails
  <2> QED
    BY <1>1, <1>3, <2>1, <2>2 DEF TypeOK
<1>11. CASE FinStopBridge
  <2>1. gnss' = Terminated(bridgeRef) /\ pcR' = "device!" /\ runs' = runs
    BY <1>11 DEF FinStopBridge
  <2> QED
    BY <1>3, <1>5, <2>1
<1> QED
  BY <1>2, <1>4, <1>6, <1>7, <1>8, <1>9, <1>10, <1>11 DEF Next, RunStep

-----------------------------------------------------------------------------
(* The device                                                              *)

\* _running is set by RunBegin only, and FinBegin is the way to the finalizer.
LEMMA StoppedStep ==
  ASSUME IInv, Next
  PROVE  Stopped'
<1> USE DEF At, Cleared
<1>1. TypeOK /\ Stopped
  BY DEF IInv
<1>2. CASE RunStep \/ RunRaises
  <2>1. CASE RunBegin \/ FinBegin
    BY <2>1 DEF RunBegin, FinBegin, Stopped
  <2>2. \/ running' = running /\ (pcR' \in Cleared => pcR \in Cleared)
        \/ RunBegin \/ FinBegin
    BY <1>2 DEF RunStep, RunRaises, RunRecover, RunCreate, RunAssign, RunReset,
       RunDevice, RunBridge, RunLaunch, RunPopen, RunOpen, RunOpenFails,
       RunWire, RunPrime, RunSpawn, RunMain, RunExcept, FinJoin, FinCheckBridge,
       FinStopBridge, FinCrash, FinDevice, FinNote, FinEvent, FinSession
  <2> QED
    BY <1>1, <2>1, <2>2 DEF Stopped
<1>3. CASE StartRun
  BY <1>3 DEF StartRun, Stopped
<1>4. CASE StopRequest \/ ControlStep
  <2>1. pcR' = pcR /\ (running' = running \/ running' = FALSE)
    BY <1>4 DEF StopRequest, ControlStep, StopRead, StopWrite, StopNote, StopRecord,
       StopAppend, StopClear, StopDetach, StopBridge, StopDevice
  <2> QED
    BY <1>1, <2>1 DEF Stopped
<1>5. CASE \E n \in Runs : RxStep(n)
  <2>1. pcR' = pcR /\ (running' = running \/ running' = FALSE)
    BY <1>5 DEF RxStep, RxLoop, RxRecv, RxPipelineError, RxStopBridge, RxFail, RxClear, RxStopDevice
  <2> QED
    BY <1>1, <2>1 DEF Stopped
<1> QED
  BY <1>2, <1>3, <1>4, <1>5 DEF Next

LEMMA FirstStreamStep ==
  ASSUME IInv, Next
  PROVE  FirstStream'
<1> USE DEF At, XAt, rx, Cleared, Joined, Quieted
<1>1. /\ TypeOK /\ Numbered /\ Stopped /\ FirstStream
      /\ runs \in Nat /\ Runs \subseteq Nat /\ (pcR # "off" => runs \in Runs)
      /\ \A n \in Runs : n # 0
  BY MaxRunsAssumption DEF IInv, TypeOK, Runs, Numbered
<1>2. CASE StartRun
  BY <1>1, <1>2 DEF StartRun, FirstStream
<1>3. CASE StopRequest \/ ControlStep
  <2>1. /\ UNCHANGED <<pcX, pcR, runs>>
        /\ dev' = dev \/ dev' # "live"
    BY <1>3 DEF StopRequest, ControlStep, StopRead, StopWrite, StopNote, StopRecord,
       StopAppend, StopClear, StopDetach, StopBridge, StopDevice, DevStopped, DevPaused
  <2> QED
    BY <1>1, <2>1 DEF FirstStream
<1>4. CASE RunSpawn
  <2>1. runs' = runs /\ dev' = dev /\ pcX' = [pcX EXCEPT ![runs] = "loop"] /\ pcR' = "main" /\ pcR = "spawn"
    BY <1>4 DEF RunSpawn
  <2> QED
    BY <1>1, <2>1 DEF FirstStream, TypeOK
<1>5. CASE FinJoin
  <2>1. /\ pcX[runs] \in {"off", "done", "stopBridge"} /\ UNCHANGED <<pcX, runs, dev>>
        /\ pcR = "join" /\ pcR' = "checkBridge"
    BY <1>5 DEF FinJoin
  <2>2. runs <= 1 => \A n \in Runs : n = runs \/ n > runs
    BY <1>1, <2>1
  <2> QED
    BY <1>1, <2>1, <2>2 DEF FirstStream
<1>6. CASE FinDevice
  <2>1. UNCHANGED <<pcX, runs>> /\ pcR = "device!" /\ pcR' = "session" /\ dev' # "live"
    BY <1>6 DEF FinDevice, DevPaused
  <2> QED
    BY <1>1, <2>1 DEF FirstStream
<1>7. CASE RunStep \/ RunRaises
  <2>1. \/ RunSpawn \/ FinJoin \/ FinDevice
        \/ /\ UNCHANGED <<pcX, runs>>
           /\ pcR' \in Joined => pcR \in Joined /\ dev' = dev
           /\ pcR' \in Quieted => pcR \in Quieted
    BY <1>7 DEF RunStep, RunRaises, RunBegin, RunRecover, RunCreate, RunAssign, RunReset,
       RunDevice, RunBridge, RunLaunch, RunPopen, RunOpen, RunOpenFails,
       RunWire, RunPrime, RunMain, RunExcept, FinBegin, FinCheckBridge, FinStopBridge, FinCrash, FinNote, FinEvent, FinSession
  <2> QED
    BY <1>1, <1>4, <1>5, <1>6, <2>1 DEF FirstStream
<1>8. ASSUME NEW n \in Runs, RxStep(n) PROVE FirstStream'
  <2>1. pcR' = pcR /\ runs' = runs
    BY <1>8 DEF RxStep, RxLoop, RxRecv, RxPipelineError, RxStopBridge, RxFail, RxClear, RxStopDevice
  <2>2. \E to \in RxPCs : pcX' = [pcX EXCEPT ![n] = to]
    BY <1>8 DEF RxStep, RxLoop, RxRecv, RxPipelineError, RxStopBridge, RxFail, RxClear, RxStopDevice, RxPCs
  <2>3. pcX[n] # "off"
    BY <1>8 DEF RxStep, RxLoop, RxRecv, RxPipelineError, RxStopBridge, RxFail, RxClear, RxStopDevice
  <2>4. n <= runs
    BY <1>1, <2>3 DEF FirstStream
  <2>5. \A m \in Runs : m > runs' => pcX'[m] = "off"
    BY <1>1, <2>1, <2>2, <2>4 DEF FirstStream, TypeOK
  <2>6. ASSUME runs <= 1, pcR \in Joined
        PROVE  /\ \A m \in Runs : pcX'[m] \in {"off", "done", "stopBridge", "loop"}
               /\ pcR \in Quieted => dev' # "live"
    <3>1. ~running /\ pcX[n] \in {"stopBridge", "loop"}
      BY <1>1, <2>3, <2>6, <1>8 DEF Stopped, FirstStream, RxStep, RxLoop, RxRecv, RxPipelineError, RxStopBridge, RxFail, RxClear, RxStopDevice
    <3>2. (RxLoop(n) \/ RxStopBridge(n)) /\ dev' = dev
      BY <1>8, <3>1 DEF RxStep, RxLoop, RxRecv, RxPipelineError, RxStopBridge, RxFail, RxClear, RxStopDevice
    <3>3. pcX' = [pcX EXCEPT ![n] = "loop"] \/ pcX' = [pcX EXCEPT ![n] = "done"]
      BY <3>1, <3>2 DEF RxLoop, RxStopBridge
    <3> QED
      BY <1>1, <2>6, <3>2, <3>3 DEF FirstStream, TypeOK
  <2> QED
    BY <2>1, <2>5, <2>6 DEF FirstStream
<1> QED
  BY <1>2, <1>3, <1>7, <1>8 DEF Next

-----------------------------------------------------------------------------
(* The theorems                                                            *)

LEMMA Initially == Init => IInv
<1> SUFFICES ASSUME Init PROVE IInv
  OBVIOUS
<1>1. TypeOK
  <2>1. runs \in 0..MaxRuns /\ stops \in 0..MaxStops /\ ledger \in [Runs -> Seq(Runs \union {None})]
    <3>1. runs = 0 /\ stops = 0 /\ ledger = [n \in Runs |-> <<>>]
      BY DEF Init
    <3> QED
      BY <3>1, MaxRunsAssumption, MaxStopsAssumption
  <2>2. reason \in Reasons /\ cReason \in StopReasons /\ pcR \in RunPCs /\ pcX \in [Runs -> RxPCs]
    BY DEF Init, Reasons, StopReasons, CleanupReasons, RunPCs, RxPCs
  <2>3. /\ preserve \in BOOLEAN /\ running \in BOOLEAN /\ noted \in BOOLEAN /\ failed \in BOOLEAN
        /\ queueRef \in BOOLEAN /\ standing \in BOOLEAN /\ early = {} /\ closed = {} /\ pcC \in ControlPCs
    BY DEF Init, ControlPCs
  <2> QED
    BY <2>1, <2>2, <2>3 DEF Init, TypeOK
<1>2. /\ Numbered /\ Sessions /\ Claims /\ Events /\ StopEventOnce /\ Reason /\ FailureReasonKept
      /\ NoOrphan /\ Stopped
  <2>1. /\ runs = 0 /\ session = 0 /\ pointer = 0 /\ pcR = "off" /\ pcC = "idle" /\ ~running /\ ~standing
        /\ closed = {} /\ \A n \in Runs : ledger[n] = <<>> /\ outcome[n] = "none" /\ gnss[n] = "none"
    BY DEF Init, None
  <2>2. Numbered /\ Sessions
    BY <2>1 DEF Numbered, Sessions, None, Unassigned, Alive
  <2>3. Claims /\ Events /\ StopEventOnce
    BY <2>1 DEF Claims, Events, StopEventOnce, None, Unassigned, Pending
  <2> QED
    BY <2>1, <2>2, <2>3 DEF Reason, FailureReasonKept, NoOrphan, Stopped
<1>3. FirstStream
  BY DEF Init, FirstStream
<1> QED
  BY <1>1, <1>2, <1>3 DEF IInv

LEMMA Inductive == IInv /\ [Next]_vars => IInv'
<1>1. ASSUME IInv, Next PROVE IInv'
  BY <1>1, Types, SessionsStep, ClaimsStep, EventsStep, ReasonStep, NoOrphanStep, StoppedStep, FirstStreamStep DEF IInv
<1>2. ASSUME IInv, UNCHANGED vars PROVE IInv'
  <2>1. TypeOK'
    BY <1>2, Types
  <2>2. Numbered' /\ Sessions' /\ Claims' /\ Events' /\ StopEventOnce'
    BY <1>2 DEF IInv, vars, logs, control, Numbered, Sessions, Claims, Events, Pending, StopEventOnce, Alive
  <2>3. Reason' /\ FailureReasonKept' /\ NoOrphan' /\ Stopped' /\ FirstStream'
    BY <1>2 DEF IInv, vars, why, bridges, rx, control, Reason, FailureReasonKept, NoOrphan, Alive, Stopped,
       FirstStream
  <2> QED
    BY <2>1, <2>2, <2>3 DEF IInv
<1> QED
  BY <1>1, <1>2

\* The inductive invariant holds in every state.
THEOREM Invariance == Spec => []IInv
  BY Initially, Inductive, PTL DEF Spec

\* A run leaves its one stop event in its own session unless a stop came before
\* the flag was reset, and no receiver and, the first one, a quiet device: for
\* every number of runs and of stop commands, whichever thread gets to the bridge
\* first, be it in the middle of the bridge's start.
THEOREM EndsClean == Spec => []RunsEndClean
<1>1. IInv => RunsEndClean
  BY DEF IInv, RunsEndClean, EndsQuiet, FirstStream, Quieted
<1> QED
  BY <1>1, Invariance, PTL

\* A failure stays the reason until an IPC stop or the next run, unless it fell
\* between the read and the write of a stop.
THEOREM ReasonKept == Spec => []FailureReasonKept
<1>1. IInv => FailureReasonKept
  BY DEF IInv
<1> QED
  BY <1>1, Invariance, PTL

\* The manifest of a session that was finalized is never written again, although
\* the logs of a later run recover what is unfinished.
THEOREM OutcomeFinal == Spec => OutcomeIsFinal
<1>1. IInv /\ [Next]_vars =>
        [\A n \in Runs : outcome[n] \in {"stopped", "failed"} => outcome'[n] = outcome[n]]_vars
  <2> SUFFICES ASSUME IInv, Next, NEW n \in Runs, outcome[n] \in {"stopped", "failed"}
               PROVE  outcome'[n] = outcome[n]
    OBVIOUS
  <2>1. CASE RunRecover
    BY <2>1 DEF RunRecover, IInv, TypeOK
  <2>2. CASE RunCreate
    <3>1. pcR = "newLogs" /\ n # runs
      BY <2>2, Numbers DEF RunCreate, At, IInv, Sessions
    <3> QED
      BY <2>2, <3>1 DEF RunCreate, IInv, TypeOK
  <2>3. CASE FinSession
    BY <2>3 DEF FinSession, Finalize, IInv, TypeOK
  <2>4. CASE StartRun \/ StopNote \/ StopRecord \/ StopAppend \/ RunAssign \/ RunReset \/ FinNote \/ FinEvent
    BY <2>4 DEF StartRun, StopNote, StopRecord, StopAppend, RunAssign, RunReset, FinNote, FinEvent, logs
  <2>5. CASE Aloof
    BY <2>5 DEF Aloof
  <2> QED
    BY <2>1, <2>2, <2>3, <2>4, <2>5, LogWriters DEF LogStep
<1> QED
  BY <1>1, Invariance, PTL DEF Spec, OutcomeIsFinal

=============================================================================
