-------------------------- MODULE GnssHandoffProofs --------------------------
(***************************************************************************)
(* Proofs about GnssHandoff, for every queue capacity and every number of  *)
(* received chunks.                                                        *)
(***************************************************************************)
EXTENDS GnssHandoff, TLAPS

-----------------------------------------------------------------------------
(* The strengthening that makes the safety properties inductive.           *)

\* Whoever set _gnss_pipeline_failed has detached queue and bridge.
FailedDetached == failed => ~queueRef /\ ~bridgeRef

\* A thread that took the bridge under the lock left none to take.
Owners == \A t \in {"rx", "handoff", "ctl"} : hasBridge[t] => ~bridgeRef

Ownership == FailedDetached /\ Owners /\ OneOwnerStops

\* The FIFO is open and not torn while the handoff thread writes to it.
Writing == /\ pc["handoff"] = "write" <=> fifoLock = "handoff"
           /\ pc["handoff"] = "write" => fifoOpen
           /\ torn => ~Working

\* The thread t is bound to run bridge.stop.
WillStop(t) == \/ pc[t] \in {"close", "reap"}
               \/ t \in {"rx", "handoff"} /\ pc[t] = "wake" /\ hasBridge[t]

Released == ~fifoOpen /\ proc = "none"

\* Until the bridge is stopped, it is attached or some thread will stop it.
Responsible ==
  /\ \A t \in Threads : pc[t] = "reap" => ~fifoOpen
  /\ proc = "none" => ~fifoOpen
  /\ bridgeRef \/ Released \/ \E t \in Threads : WillStop(t)
  /\ pc["fin"] \in {"done", "crashed"} => ~bridgeRef
  /\ pc["fin"] = "detach" => ~bridgeRef \/ Released

\* A rejection keeps the RX thread from publishing again.
Rejection == /\ rawDrops <= 1
             /\ rawDrops = 1 => /\ pc["rx"] # "publish"
                                /\ pc["rx"] = "error" \/ ~bridgeRef

\* The RX thread is between a receive and its publication.
Holding == IF pc["rx"] \in {"readQueue", "readBridge", "publish"} THEN 1 ELSE 0

\* No chunk was skipped so far: the RX thread is about to publish, or every
\* test it makes before publishing still holds.
Publishing == \/ pc["rx"] = "publish"
              \/ /\ bridgeRef /\ Active /\ pc["rx"] # "error"
                 /\ queueRef \/ (pc["rx"] = "readBridge" /\ hasQueue["rx"])

\* The queue holds everything received that the handoff thread has not taken.
NoneSkipped ==
  /\ pc["rx"] \in {"readQueue", "readBridge", "publish"} => rxCount >= 1
  /\ pc["rx"] = "readBridge" /\ queueRef => hasQueue["rx"]
  /\ Working /\ Publishing /\ (\A i \in 1..Len(rawQueue) : rawQueue[i] # Sentinel)
       => Taken + Len(rawQueue) + Holding = rxCount

\* The sample counter and the chunk being submitted follow the FIFO.
Counting == /\ pc["handoff"] = "submit"
                 => Len(written) >= 1 /\ samples = Len(written) - 1 /\ cur = Len(written)
            /\ Working /\ pc["handoff"] # "submit" => samples = Len(written)

IInv == /\ TypeOK /\ Ownership /\ Writing /\ Responsible /\ Rejection
        /\ NoneSkipped /\ GapFree /\ Counting /\ MonitorAligned

-----------------------------------------------------------------------------
(* Sequences.                                                              *)

LEMMA AppendFacts ==
  ASSUME NEW S, NEW s \in Seq(S), NEW e \in S
  PROVE  /\ Append(s, e) \in Seq(S)
         /\ Len(s) \in Nat
         /\ Len(Append(s, e)) = Len(s) + 1
         /\ \A i \in 1..Len(s) : Append(s, e)[i] = s[i]
         /\ Append(s, e)[Len(s) + 1] = e
OBVIOUS

LEMMA TailFacts ==
  ASSUME NEW S, NEW s \in Seq(S), s # << >>
  PROVE  /\ Tail(s) \in Seq(S)
         /\ Len(s) \in Nat /\ Len(s) >= 1
         /\ Len(Tail(s)) = Len(s) - 1
         /\ Head(s) = s[1] /\ Head(s) \in S
         /\ \A i \in 1..Len(Tail(s)) : Tail(s)[i] = s[i + 1]
OBVIOUS

\* Flags, references and locals keep their types.
LEMMA FlagTypes ==
  ASSUME TypeOK, [Next]_vars
  PROVE  TypeRefs' /\ TypeBridge' /\ TypeLocals'
<1> DEFINE Goal == TypeRefs' /\ TypeBridge' /\ TypeLocals'
<1> USE DEF TypeOK, TypeRefs, TypeBridge, TypeLocals, refs, bridge, locals
<1>1. ASSUME RxRecv \/ RxExit \/ RxFail \/ RxPublish PROVE Goal
  <2>1. CASE RxRecv \/ RxExit
    BY <2>1 DEF RxRecv, RxExit
  <2>2. CASE RxFail
    BY <2>2 DEF RxFail
  <2>3. CASE RxPublish
    BY <2>3 DEF RxPublish
  <2> QED
    BY <1>1, <2>1, <2>2, <2>3
<1>2. ASSUME RxReadQueue \/ RxReadBridge \/ RxErrJoin PROVE Goal
  BY <1>2 DEF RxReadQueue, RxReadBridge, RxErrJoin
<1>3. ASSUME HandoffLoop \/ HandoffGet \/ HandoffTimeout \/ HandoffCheck \/ HandoffCombineFails
      PROVE  Goal
  BY <1>3 DEF HandoffLoop, HandoffGet, HandoffTimeout, HandoffCheck, HandoffCombineFails
<1>4. ASSUME HandoffLock \/ HandoffWrite PROVE Goal
  BY <1>4 DEF HandoffLock, HandoffWrite
<1>5. ASSUME HandoffWriteFails \/ HandoffSubmit PROVE Goal
  BY <1>5 DEF HandoffWriteFails, HandoffSubmit
<1>6. ASSUME NEW t \in {"rx", "handoff"}, ErrDetach(t) PROVE Goal
  BY <1>6 DEF ErrDetach
<1>7. ASSUME NEW t \in {"rx", "handoff"}, ErrWake(t) PROVE Goal
  BY <1>7 DEF ErrWake
<1>8. ASSUME NEW t \in Threads, BridgeStop(t) PROVE Goal
  BY <1>8 DEF BridgeStop, BridgeClose, BridgeReap
<1>9. ASSUME StopRequest \/ StopTakeBridge PROVE Goal
  BY <1>9 DEF StopRequest, StopTakeBridge
<1>10. ASSUME FinBegin \/ FinWake \/ FinDropQueue PROVE Goal
  BY <1>10 DEF FinBegin, FinWake, FinDropQueue
<1>11. ASSUME FinCheckBridge \/ FinDeref \/ FinDetach PROVE Goal
  BY <1>11 DEF FinCheckBridge, FinDeref, FinDetach
<1>12. ASSUME ProcExit PROVE Goal
  BY <1>12 DEF ProcExit
<1>13. ASSUME UNCHANGED vars PROVE Goal
  BY <1>13 DEF vars
<1> HIDE DEF TypeOK, Goal
<1>14. ASSUME RxNext \/ HandoffNext PROVE Goal
  BY <1>1, <1>2, <1>3, <1>4, <1>5, <1>6, <1>7, <1>8, <1>14
     DEF RxNext, HandoffNext, PipelineError, Threads
<1>15. ASSUME StopNext \/ FinNext PROVE Goal
  BY <1>8, <1>9, <1>10, <1>11, <1>15 DEF StopNext, FinNext, Threads
<1>16. Goal
  BY <1>1, <1>9, <1>10, <1>12, <1>13, <1>14, <1>15 DEF Next
<1>17. QED
  BY <1>16 DEF Goal

LEMMA TypePCStep ==
  ASSUME TypeOK, [Next]_vars
  PROVE  TypePC'
<1>1. ASSUME RxNext PROVE TypePC'
  BY <1>1 DEF TypeOK, TypePC, RxPCs, HandoffPCs, CtlPCs, FinPCs, Goto, Threads,
     data, refs, bridge, locals, RxNext, RxRecv, RxExit, RxReadQueue, RxReadBridge,
     RxPublish, RxErrJoin, PipelineError, ErrDetach, ErrWake, BridgeStop,
     BridgeClose, BridgeReap, AfterStop
<1>2. ASSUME RxFail PROVE TypePC'
  BY <1>2 DEF TypeOK, TypePC, RxPCs, HandoffPCs, CtlPCs, FinPCs, Goto, Threads,
     data, refs, bridge, locals, RxFail
<1>3. ASSUME HandoffLoop \/ HandoffGet \/ HandoffTimeout \/ HandoffCheck \/ HandoffCombineFails
      PROVE  TypePC'
  BY <1>3 DEF TypeOK, TypePC, RxPCs, HandoffPCs, CtlPCs, FinPCs, Goto, Threads,
     data, refs, bridge, locals, HandoffLoop, HandoffGet, HandoffTimeout,
     HandoffCheck, HandoffCombineFails
<1>4. ASSUME HandoffLock PROVE TypePC'
  BY <1>4 DEF TypeOK, TypePC, RxPCs, HandoffPCs, CtlPCs, FinPCs, Goto, Threads,
     data, refs, bridge, locals, HandoffLock
<1>5. ASSUME HandoffWrite \/ HandoffSubmit PROVE TypePC'
  BY <1>5 DEF TypeOK, TypePC, RxPCs, HandoffPCs, CtlPCs, FinPCs, Goto, Threads,
     data, refs, bridge, locals, HandoffWrite, HandoffSubmit
<1>6. ASSUME HandoffWriteFails PROVE TypePC'
  BY <1>6 DEF TypeOK, TypePC, RxPCs, HandoffPCs, CtlPCs, FinPCs, Goto, Threads,
     data, refs, bridge, locals, HandoffWriteFails
<1>7. ASSUME PipelineError("handoff") PROVE TypePC'
  BY <1>7 DEF TypeOK, TypePC, RxPCs, HandoffPCs, CtlPCs, FinPCs, Goto, Threads,
     data, refs, bridge, locals, PipelineError, ErrDetach, ErrWake, AfterStop
<1>8. ASSUME BridgeStop("handoff") PROVE TypePC'
  BY <1>8 DEF TypeOK, TypePC, RxPCs, HandoffPCs, CtlPCs, FinPCs, Goto, Threads,
     data, refs, bridge, locals, BridgeStop, BridgeClose, BridgeReap, AfterStop
<1>9. ASSUME StopRequest \/ StopNext PROVE TypePC'
  BY <1>9 DEF TypeOK, TypePC, RxPCs, HandoffPCs, CtlPCs, FinPCs, Goto, Threads,
     data, refs, bridge, locals, StopRequest, StopNext, StopTakeBridge, BridgeStop,
     BridgeClose, BridgeReap, AfterStop
<1>10. ASSUME FinBegin \/ FinNext PROVE TypePC'
  BY <1>10 DEF TypeOK, TypePC, RxPCs, HandoffPCs, CtlPCs, FinPCs, Goto, Threads,
     data, refs, bridge, locals, FinBegin, FinNext, FinWake, FinDropQueue,
     FinCheckBridge, FinDeref, FinDetach, BridgeStop, BridgeClose, BridgeReap,
     AfterStop
<1>11. ASSUME ProcExit PROVE TypePC'
  BY <1>11 DEF TypeOK, TypePC, RxPCs, HandoffPCs, CtlPCs, FinPCs, Goto, Threads,
     data, refs, bridge, locals, ProcExit
<1>12. ASSUME UNCHANGED vars PROVE TypePC'
  BY <1>12 DEF TypeOK, TypePC, RxPCs, HandoffPCs, CtlPCs, FinPCs, Goto, Threads,
     data, refs, bridge, locals, vars
<1>13. QED
  BY <1>1, <1>2, <1>3, <1>4, <1>5, <1>6, <1>7, <1>8, <1>9, <1>10, <1>11, <1>12 DEF
     Next, HandoffNext

LEMMA RxCounters ==
  ASSUME TypeOK, [Next]_vars
  PROVE  rawDrops' \in Nat /\ rxCount' \in Nat
<1> DEFINE Goal == rawDrops' \in Nat /\ rxCount' \in Nat
<1>1. ASSUME RxNext PROVE Goal
  BY <1>1 DEF TypeOK, TypeStream, Goto, Threads, data, refs, bridge, locals, RxNext,
     RxRecv, RxExit, RxReadQueue, RxReadBridge, RxPublish, RxErrJoin, PipelineError,
     ErrDetach, ErrWake, BridgeStop, BridgeClose, BridgeReap, AfterStop
<1>2. ASSUME RxFail PROVE Goal
  BY <1>2 DEF TypeOK, TypeStream, Goto, Threads, data, refs, bridge, locals, RxFail
<1>3. ASSUME HandoffLoop \/ HandoffGet \/ HandoffTimeout \/ HandoffCheck \/ HandoffCombineFails
      PROVE  Goal
  BY <1>3 DEF TypeOK, TypeStream, Goto, Threads, data, refs, bridge, locals,
     HandoffLoop, HandoffGet, HandoffTimeout, HandoffCheck, HandoffCombineFails
<1>4. ASSUME HandoffLock PROVE Goal
  BY <1>4 DEF TypeOK, TypeStream, Goto, Threads, data, refs, bridge, locals,
     HandoffLock
<1>5. ASSUME HandoffWrite \/ HandoffSubmit PROVE Goal
  BY <1>5 DEF TypeOK, TypeStream, Goto, Threads, data, refs, bridge, locals,
     HandoffWrite, HandoffSubmit
<1>6. ASSUME HandoffWriteFails PROVE Goal
  BY <1>6 DEF TypeOK, TypeStream, Goto, Threads, data, refs, bridge, locals,
     HandoffWriteFails
<1>7. ASSUME PipelineError("handoff") PROVE Goal
  BY <1>7 DEF TypeOK, TypeStream, Goto, Threads, data, refs, bridge, locals,
     PipelineError, ErrDetach, ErrWake, AfterStop
<1>8. ASSUME BridgeStop("handoff") PROVE Goal
  BY <1>8 DEF TypeOK, TypeStream, Goto, Threads, data, refs, bridge, locals,
     BridgeStop, BridgeClose, BridgeReap, AfterStop
<1>9. ASSUME StopRequest \/ StopNext PROVE Goal
  BY <1>9 DEF TypeOK, TypeStream, Goto, Threads, data, refs, bridge, locals,
     StopRequest, StopNext, StopTakeBridge, BridgeStop, BridgeClose, BridgeReap,
     AfterStop
<1>10. ASSUME FinBegin \/ FinNext PROVE Goal
  BY <1>10 DEF TypeOK, TypeStream, Goto, Threads, data, refs, bridge, locals,
     FinBegin, FinNext, FinWake, FinDropQueue, FinCheckBridge, FinDeref, FinDetach,
     BridgeStop, BridgeClose, BridgeReap, AfterStop
<1>11. ASSUME ProcExit PROVE Goal
  BY <1>11 DEF TypeOK, TypeStream, Goto, Threads, data, refs, bridge, locals,
     ProcExit
<1>12. ASSUME UNCHANGED vars PROVE Goal
  BY <1>12 DEF TypeOK, TypeStream, Goto, Threads, data, refs, bridge, locals, vars
<1>13. QED
  BY <1>1, <1>2, <1>3, <1>4, <1>5, <1>6, <1>7, <1>8, <1>9, <1>10, <1>11, <1>12 DEF
     Next, HandoffNext

\* No step attaches, opens or revives anything: within a run the references,
\* the FIFO and the process are only ever lost.
LEMMA OnlyCleared ==
  ASSUME TypeOK, [Next]_vars
  PROVE  /\ queueRef' => queueRef
         /\ bridgeRef' => bridgeRef
         /\ fifoOpen' => fifoOpen
         /\ torn => torn'
         /\ Active' => Active
<1> DEFINE Goal == /\ queueRef' => queueRef
                   /\ bridgeRef' => bridgeRef
                   /\ fifoOpen' => fifoOpen
                   /\ torn => torn'
                   /\ Active' => Active
<1>1. ASSUME RxNext PROVE Goal
  BY <1>1 DEF TypeOK, TypeBridge, Active, Goto, Threads, data, refs, bridge, locals,
     RxNext, RxRecv, RxExit, RxReadQueue, RxReadBridge, RxPublish, RxErrJoin,
     PipelineError, ErrDetach, ErrWake, BridgeStop, BridgeClose, BridgeReap,
     AfterStop
<1>2. ASSUME RxFail PROVE Goal
  BY <1>2 DEF TypeOK, TypeBridge, Active, Goto, Threads, data, refs, bridge, locals,
     RxFail
<1>3. ASSUME HandoffLoop \/ HandoffGet \/ HandoffTimeout \/ HandoffCheck \/ HandoffCombineFails
      PROVE  Goal
  BY <1>3 DEF TypeOK, TypeBridge, Active, Goto, Threads, data, refs, bridge, locals,
     HandoffLoop, HandoffGet, HandoffTimeout, HandoffCheck, HandoffCombineFails
<1>4. ASSUME HandoffLock PROVE Goal
  BY <1>4 DEF TypeOK, TypeBridge, Active, Goto, Threads, data, refs, bridge, locals,
     HandoffLock
<1>5. ASSUME HandoffWrite \/ HandoffSubmit PROVE Goal
  BY <1>5 DEF TypeOK, TypeBridge, Active, Goto, Threads, data, refs, bridge, locals,
     HandoffWrite, HandoffSubmit
<1>6. ASSUME HandoffWriteFails PROVE Goal
  BY <1>6 DEF TypeOK, TypeBridge, Active, Goto, Threads, data, refs, bridge, locals,
     HandoffWriteFails
<1>7. ASSUME PipelineError("handoff") PROVE Goal
  BY <1>7 DEF TypeOK, TypeBridge, Active, Goto, Threads, data, refs, bridge, locals,
     PipelineError, ErrDetach, ErrWake, AfterStop
<1>8. ASSUME BridgeStop("handoff") PROVE Goal
  BY <1>8 DEF TypeOK, TypeBridge, Active, Goto, Threads, data, refs, bridge, locals,
     BridgeStop, BridgeClose, BridgeReap, AfterStop
<1>9. ASSUME StopRequest \/ StopNext PROVE Goal
  BY <1>9 DEF TypeOK, TypeBridge, Active, Goto, Threads, data, refs, bridge, locals,
     StopRequest, StopNext, StopTakeBridge, BridgeStop, BridgeClose, BridgeReap,
     AfterStop
<1>10. ASSUME FinBegin \/ FinNext PROVE Goal
  BY <1>10 DEF TypeOK, TypeBridge, Active, Goto, Threads, data, refs, bridge,
     locals, FinBegin, FinNext, FinWake, FinDropQueue, FinCheckBridge, FinDeref,
     FinDetach, BridgeStop, BridgeClose, BridgeReap, AfterStop
<1>11. ASSUME ProcExit PROVE Goal
  BY <1>11 DEF TypeOK, TypeBridge, Active, Goto, Threads, data, refs, bridge,
     locals, ProcExit
<1>12. ASSUME UNCHANGED vars PROVE Goal
  BY <1>12 DEF TypeOK, TypeBridge, Active, Goto, Threads, data, refs, bridge,
     locals, vars
<1>13. QED
  BY <1>1, <1>2, <1>3, <1>4, <1>5, <1>6, <1>7, <1>8, <1>9, <1>10, <1>11, <1>12 DEF
     Next, HandoffNext

\* What the RX thread holds between receiving and publishing.
LEMMA RxHolds ==
  ASSUME TypeOK, NoneSkipped, [Next]_vars
  PROVE  /\ pc'["rx"] \in {"readQueue", "readBridge", "publish"} => rxCount' >= 1
         /\ pc'["rx"] = "readBridge" /\ queueRef' => hasQueue'["rx"]
<1> DEFINE Goal == /\ pc'["rx"] \in {"readQueue", "readBridge", "publish"} => rxCount' >= 1
                   /\ pc'["rx"] = "readBridge" /\ queueRef' => hasQueue'["rx"]
<1>1. ASSUME RxNext PROVE Goal
  BY <1>1 DEF TypeOK, TypePC, TypeLocals, TypeStream, NoneSkipped, Goto, Threads,
     data, refs, bridge, locals, RxNext, RxRecv, RxExit, RxReadQueue, RxReadBridge,
     RxPublish, RxErrJoin, PipelineError, ErrDetach, ErrWake, BridgeStop,
     BridgeClose, BridgeReap, AfterStop
<1>2. ASSUME RxFail PROVE Goal
  BY <1>2 DEF TypeOK, TypePC, TypeLocals, TypeStream, NoneSkipped, Goto, Threads,
     data, refs, bridge, locals, RxFail
<1>3. ASSUME HandoffLoop \/ HandoffGet \/ HandoffTimeout \/ HandoffCheck \/ HandoffCombineFails
      PROVE  Goal
  BY <1>3 DEF TypeOK, TypePC, TypeLocals, TypeStream, NoneSkipped, Goto, Threads,
     data, refs, bridge, locals, HandoffLoop, HandoffGet, HandoffTimeout,
     HandoffCheck, HandoffCombineFails
<1>4. ASSUME HandoffLock PROVE Goal
  BY <1>4 DEF TypeOK, TypePC, TypeLocals, TypeStream, NoneSkipped, Goto, Threads,
     data, refs, bridge, locals, HandoffLock
<1>5. ASSUME HandoffWrite \/ HandoffSubmit PROVE Goal
  BY <1>5 DEF TypeOK, TypePC, TypeLocals, TypeStream, NoneSkipped, Goto, Threads,
     data, refs, bridge, locals, HandoffWrite, HandoffSubmit
<1>6. ASSUME HandoffWriteFails PROVE Goal
  BY <1>6 DEF TypeOK, TypePC, TypeLocals, TypeStream, NoneSkipped, Goto, Threads,
     data, refs, bridge, locals, HandoffWriteFails
<1>7. ASSUME PipelineError("handoff") PROVE Goal
  BY <1>7 DEF TypeOK, TypePC, TypeLocals, TypeStream, NoneSkipped, Goto, Threads,
     data, refs, bridge, locals, PipelineError, ErrDetach, ErrWake, AfterStop
<1>8. ASSUME BridgeStop("handoff") PROVE Goal
  BY <1>8 DEF TypeOK, TypePC, TypeLocals, TypeStream, NoneSkipped, Goto, Threads,
     data, refs, bridge, locals, BridgeStop, BridgeClose, BridgeReap, AfterStop
<1>9. ASSUME StopRequest \/ StopNext PROVE Goal
  BY <1>9 DEF TypeOK, TypePC, TypeLocals, TypeStream, NoneSkipped, Goto, Threads,
     data, refs, bridge, locals, StopRequest, StopNext, StopTakeBridge, BridgeStop,
     BridgeClose, BridgeReap, AfterStop
<1>10. ASSUME FinBegin \/ FinNext PROVE Goal
  BY <1>10 DEF TypeOK, TypePC, TypeLocals, TypeStream, NoneSkipped, Goto, Threads,
     data, refs, bridge, locals, FinBegin, FinNext, FinWake, FinDropQueue,
     FinCheckBridge, FinDeref, FinDetach, BridgeStop, BridgeClose, BridgeReap,
     AfterStop
<1>11. ASSUME ProcExit PROVE Goal
  BY <1>11 DEF TypeOK, TypePC, TypeLocals, TypeStream, NoneSkipped, Goto, Threads,
     data, refs, bridge, locals, ProcExit
<1>12. ASSUME UNCHANGED vars PROVE Goal
  BY <1>12 DEF TypeOK, TypePC, TypeLocals, TypeStream, NoneSkipped, Goto, Threads,
     data, refs, bridge, locals, vars
<1>13. QED
  BY <1>1, <1>2, <1>3, <1>4, <1>5, <1>6, <1>7, <1>8, <1>9, <1>10, <1>11, <1>12 DEF
     Next, HandoffNext

LEMMA OwnershipStep ==
  ASSUME TypeOK, Ownership, [Next]_vars
  PROVE  Ownership'
<1>1. ASSUME RxNext PROVE Ownership'
  BY <1>1 DEF Ownership, FailedDetached, Owners, OneOwnerStops, TypeOK, TypePC,
     TypeRefs, TypeLocals, Goto, Threads, data, refs, bridge, locals, RxNext,
     RxRecv, RxExit, RxReadQueue, RxReadBridge, RxPublish, RxErrJoin, PipelineError,
     ErrDetach, ErrWake, BridgeStop, BridgeClose, BridgeReap, AfterStop
<1>2. ASSUME RxFail PROVE Ownership'
  BY <1>2 DEF Ownership, FailedDetached, Owners, OneOwnerStops, TypeOK, TypePC,
     TypeRefs, TypeLocals, Goto, Threads, data, refs, bridge, locals, RxFail
<1>3. ASSUME HandoffLoop \/ HandoffGet \/ HandoffTimeout \/ HandoffCheck \/ HandoffCombineFails
      PROVE  Ownership'
  BY <1>3 DEF Ownership, FailedDetached, Owners, OneOwnerStops, TypeOK, TypePC,
     TypeRefs, TypeLocals, Goto, Threads, data, refs, bridge, locals, HandoffLoop,
     HandoffGet, HandoffTimeout, HandoffCheck, HandoffCombineFails
<1>4. ASSUME HandoffLock PROVE Ownership'
  BY <1>4 DEF Ownership, FailedDetached, Owners, OneOwnerStops, TypeOK, TypePC,
     TypeRefs, TypeLocals, Goto, Threads, data, refs, bridge, locals, HandoffLock
<1>5. ASSUME HandoffWrite \/ HandoffSubmit PROVE Ownership'
  BY <1>5 DEF Ownership, FailedDetached, Owners, OneOwnerStops, TypeOK, TypePC,
     TypeRefs, TypeLocals, Goto, Threads, data, refs, bridge, locals, HandoffWrite,
     HandoffSubmit
<1>6. ASSUME HandoffWriteFails PROVE Ownership'
  BY <1>6 DEF Ownership, FailedDetached, Owners, OneOwnerStops, TypeOK, TypePC,
     TypeRefs, TypeLocals, Goto, Threads, data, refs, bridge, locals,
     HandoffWriteFails
<1>7. ASSUME PipelineError("handoff") PROVE Ownership'
  BY <1>7 DEF Ownership, FailedDetached, Owners, OneOwnerStops, TypeOK, TypePC,
     TypeRefs, TypeLocals, Goto, Threads, data, refs, bridge, locals, PipelineError,
     ErrDetach, ErrWake, AfterStop
<1>8. ASSUME BridgeStop("handoff") PROVE Ownership'
  BY <1>8 DEF Ownership, FailedDetached, Owners, OneOwnerStops, TypeOK, TypePC,
     TypeRefs, TypeLocals, Goto, Threads, data, refs, bridge, locals, BridgeStop,
     BridgeClose, BridgeReap, AfterStop
<1>9. ASSUME StopRequest \/ StopNext PROVE Ownership'
  BY <1>9 DEF Ownership, FailedDetached, Owners, OneOwnerStops, TypeOK, TypePC,
     TypeRefs, TypeLocals, Goto, Threads, data, refs, bridge, locals, StopRequest,
     StopNext, StopTakeBridge, BridgeStop, BridgeClose, BridgeReap, AfterStop
<1>10. ASSUME FinBegin \/ FinNext PROVE Ownership'
  BY <1>10 DEF Ownership, FailedDetached, Owners, OneOwnerStops, TypeOK, TypePC,
     TypeRefs, TypeLocals, Goto, Threads, data, refs, bridge, locals, FinBegin,
     FinNext, FinWake, FinDropQueue, FinCheckBridge, FinDeref, FinDetach,
     BridgeStop, BridgeClose, BridgeReap, AfterStop
<1>11. ASSUME ProcExit PROVE Ownership'
  BY <1>11 DEF Ownership, FailedDetached, Owners, OneOwnerStops, TypeOK, TypePC,
     TypeRefs, TypeLocals, Goto, Threads, data, refs, bridge, locals, ProcExit
<1>12. ASSUME UNCHANGED vars PROVE Ownership'
  BY <1>12 DEF Ownership, FailedDetached, Owners, OneOwnerStops, TypeOK, TypePC,
     TypeRefs, TypeLocals, Goto, Threads, data, refs, bridge, locals, vars
<1>13. QED
  BY <1>1, <1>2, <1>3, <1>4, <1>5, <1>6, <1>7, <1>8, <1>9, <1>10, <1>11, <1>12 DEF
     Next, HandoffNext

LEMMA WritingStep ==
  ASSUME TypeOK, Writing, [Next]_vars
  PROVE  Writing'
<1>1. ASSUME RxNext PROVE Writing'
  BY <1>1 DEF Writing, Working, TypeOK, TypePC, TypeBridge, NoThread, HandoffPCs,
     Goto, Threads, data, refs, bridge, locals, RxNext, RxRecv, RxExit, RxReadQueue,
     RxReadBridge, RxPublish, RxErrJoin, PipelineError, ErrDetach, ErrWake,
     BridgeStop, BridgeClose, BridgeReap, AfterStop
<1>2. ASSUME RxFail PROVE Writing'
  BY <1>2 DEF Writing, Working, TypeOK, TypePC, TypeBridge, NoThread, HandoffPCs,
     Goto, Threads, data, refs, bridge, locals, RxFail
<1>3. ASSUME HandoffLoop \/ HandoffGet \/ HandoffTimeout \/ HandoffCheck \/ HandoffCombineFails
      PROVE  Writing'
  BY <1>3 DEF Writing, Working, TypeOK, TypePC, TypeBridge, NoThread, HandoffPCs,
     Goto, Threads, data, refs, bridge, locals, HandoffLoop, HandoffGet,
     HandoffTimeout, HandoffCheck, HandoffCombineFails
<1>4. ASSUME HandoffLock PROVE Writing'
  BY <1>4 DEF Writing, Working, TypeOK, TypePC, TypeBridge, NoThread, HandoffPCs,
     Goto, Threads, data, refs, bridge, locals, HandoffLock
<1>5. ASSUME HandoffWrite \/ HandoffSubmit PROVE Writing'
  BY <1>5 DEF Writing, Working, TypeOK, TypePC, TypeBridge, NoThread, HandoffPCs,
     Goto, Threads, data, refs, bridge, locals, HandoffWrite, HandoffSubmit
<1>6. ASSUME HandoffWriteFails PROVE Writing'
  BY <1>6 DEF Writing, Working, TypeOK, TypePC, TypeBridge, NoThread, HandoffPCs,
     Goto, Threads, data, refs, bridge, locals, HandoffWriteFails
<1>7. ASSUME PipelineError("handoff") PROVE Writing'
  BY <1>7 DEF Writing, Working, TypeOK, TypePC, TypeBridge, NoThread, HandoffPCs,
     Goto, Threads, data, refs, bridge, locals, PipelineError, ErrDetach, ErrWake,
     AfterStop
<1>8. ASSUME BridgeStop("handoff") PROVE Writing'
  BY <1>8 DEF Writing, Working, TypeOK, TypePC, TypeBridge, NoThread, HandoffPCs,
     Goto, Threads, data, refs, bridge, locals, BridgeStop, BridgeClose, BridgeReap,
     AfterStop
<1>9. ASSUME StopRequest \/ StopNext PROVE Writing'
  BY <1>9 DEF Writing, Working, TypeOK, TypePC, TypeBridge, NoThread, HandoffPCs,
     Goto, Threads, data, refs, bridge, locals, StopRequest, StopNext,
     StopTakeBridge, BridgeStop, BridgeClose, BridgeReap, AfterStop
<1>10. ASSUME FinBegin \/ FinNext PROVE Writing'
  BY <1>10 DEF Writing, Working, TypeOK, TypePC, TypeBridge, NoThread, HandoffPCs,
     Goto, Threads, data, refs, bridge, locals, FinBegin, FinNext, FinWake,
     FinDropQueue, FinCheckBridge, FinDeref, FinDetach, BridgeStop, BridgeClose,
     BridgeReap, AfterStop
<1>11. ASSUME ProcExit PROVE Writing'
  BY <1>11 DEF Writing, Working, TypeOK, TypePC, TypeBridge, NoThread, HandoffPCs,
     Goto, Threads, data, refs, bridge, locals, ProcExit
<1>12. ASSUME UNCHANGED vars PROVE Writing'
  BY <1>12 DEF Writing, Working, TypeOK, TypePC, TypeBridge, NoThread, HandoffPCs,
     Goto, Threads, data, refs, bridge, locals, vars
<1>13. QED
  BY <1>1, <1>2, <1>3, <1>4, <1>5, <1>6, <1>7, <1>8, <1>9, <1>10, <1>11, <1>12 DEF
     Next, HandoffNext

LEMMA ResponsibleStep ==
  ASSUME TypeOK, Writing, Responsible, [Next]_vars
  PROVE  Responsible'
<1>1. ASSUME RxNext PROVE Responsible'
  BY <1>1 DEF Responsible, Writing, WillStop, Released, TypeOK, TypePC, TypeRefs,
     TypeLocals, TypeBridge, Goto, Threads, data, refs, bridge, locals, RxNext,
     RxRecv, RxExit, RxReadQueue, RxReadBridge, RxPublish, RxErrJoin, PipelineError,
     ErrDetach, ErrWake, BridgeStop, BridgeClose, BridgeReap, AfterStop
<1>2. ASSUME RxFail PROVE Responsible'
  BY <1>2 DEF Responsible, Writing, WillStop, Released, TypeOK, TypePC, TypeRefs,
     TypeLocals, TypeBridge, Goto, Threads, data, refs, bridge, locals, RxFail
<1>3. ASSUME HandoffLoop \/ HandoffGet \/ HandoffTimeout \/ HandoffCheck \/ HandoffCombineFails
      PROVE  Responsible'
  BY <1>3 DEF Responsible, Writing, WillStop, Released, TypeOK, TypePC, TypeRefs,
     TypeLocals, TypeBridge, Goto, Threads, data, refs, bridge, locals, HandoffLoop,
     HandoffGet, HandoffTimeout, HandoffCheck, HandoffCombineFails
<1>4. ASSUME HandoffLock PROVE Responsible'
  BY <1>4 DEF Responsible, Writing, WillStop, Released, TypeOK, TypePC, TypeRefs,
     TypeLocals, TypeBridge, Goto, Threads, data, refs, bridge, locals, HandoffLock
<1>5. ASSUME HandoffWrite \/ HandoffSubmit PROVE Responsible'
  BY <1>5 DEF Responsible, Writing, WillStop, Released, TypeOK, TypePC, TypeRefs,
     TypeLocals, TypeBridge, Goto, Threads, data, refs, bridge, locals,
     HandoffWrite, HandoffSubmit
<1>6. ASSUME HandoffWriteFails PROVE Responsible'
  BY <1>6 DEF Responsible, Writing, WillStop, Released, TypeOK, TypePC, TypeRefs,
     TypeLocals, TypeBridge, Goto, Threads, data, refs, bridge, locals,
     HandoffWriteFails
<1>7. ASSUME PipelineError("handoff") PROVE Responsible'
  BY <1>7 DEF Responsible, Writing, WillStop, Released, TypeOK, TypePC, TypeRefs,
     TypeLocals, TypeBridge, Goto, Threads, data, refs, bridge, locals,
     PipelineError, ErrDetach, ErrWake, AfterStop
<1>8. ASSUME BridgeStop("handoff") PROVE Responsible'
  BY <1>8 DEF Responsible, Writing, WillStop, Released, TypeOK, TypePC, TypeRefs,
     TypeLocals, TypeBridge, Goto, Threads, data, refs, bridge, locals, BridgeStop,
     BridgeClose, BridgeReap, AfterStop
<1>9. ASSUME StopRequest \/ StopNext PROVE Responsible'
  BY <1>9 DEF Responsible, Writing, WillStop, Released, TypeOK, TypePC, TypeRefs,
     TypeLocals, TypeBridge, Goto, Threads, data, refs, bridge, locals, StopRequest,
     StopNext, StopTakeBridge, BridgeStop, BridgeClose, BridgeReap, AfterStop
<1>10. ASSUME FinBegin \/ FinNext PROVE Responsible'
  BY <1>10 DEF Responsible, Writing, WillStop, Released, TypeOK, TypePC, TypeRefs,
     TypeLocals, TypeBridge, Goto, Threads, data, refs, bridge, locals, FinBegin,
     FinNext, FinWake, FinDropQueue, FinCheckBridge, FinDeref, FinDetach,
     BridgeStop, BridgeClose, BridgeReap, AfterStop
<1>11. ASSUME ProcExit PROVE Responsible'
  BY <1>11 DEF Responsible, Writing, WillStop, Released, TypeOK, TypePC, TypeRefs,
     TypeLocals, TypeBridge, Goto, Threads, data, refs, bridge, locals, ProcExit
<1>12. ASSUME UNCHANGED vars PROVE Responsible'
  BY <1>12 DEF Responsible, Writing, WillStop, Released, TypeOK, TypePC, TypeRefs,
     TypeLocals, TypeBridge, Goto, Threads, data, refs, bridge, locals, vars
<1>13. QED
  BY <1>1, <1>2, <1>3, <1>4, <1>5, <1>6, <1>7, <1>8, <1>9, <1>10, <1>11, <1>12 DEF
     Next, HandoffNext

LEMMA RejectionStep ==
  ASSUME TypeOK, Ownership, Rejection, [Next]_vars
  PROVE  Rejection'
<1>1. ASSUME RxNext PROVE Rejection'
  BY <1>1 DEF Rejection, Ownership, FailedDetached, TypeOK, TypePC, TypeRefs,
     TypeLocals, TypeStream, RxPCs, Goto, Threads, data, refs, bridge, locals,
     RxNext, RxRecv, RxExit, RxReadQueue, RxReadBridge, RxPublish, RxErrJoin,
     PipelineError, ErrDetach, ErrWake, BridgeStop, BridgeClose, BridgeReap,
     AfterStop
<1>2. ASSUME RxFail PROVE Rejection'
  BY <1>2 DEF Rejection, Ownership, FailedDetached, TypeOK, TypePC, TypeRefs,
     TypeLocals, TypeStream, RxPCs, Goto, Threads, data, refs, bridge, locals,
     RxFail
<1>3. ASSUME HandoffLoop \/ HandoffGet \/ HandoffTimeout \/ HandoffCheck \/ HandoffCombineFails
      PROVE  Rejection'
  BY <1>3 DEF Rejection, Ownership, FailedDetached, TypeOK, TypePC, TypeRefs,
     TypeLocals, TypeStream, RxPCs, Goto, Threads, data, refs, bridge, locals,
     HandoffLoop, HandoffGet, HandoffTimeout, HandoffCheck, HandoffCombineFails
<1>4. ASSUME HandoffLock PROVE Rejection'
  BY <1>4 DEF Rejection, Ownership, FailedDetached, TypeOK, TypePC, TypeRefs,
     TypeLocals, TypeStream, RxPCs, Goto, Threads, data, refs, bridge, locals,
     HandoffLock
<1>5. ASSUME HandoffWrite \/ HandoffSubmit PROVE Rejection'
  BY <1>5 DEF Rejection, Ownership, FailedDetached, TypeOK, TypePC, TypeRefs,
     TypeLocals, TypeStream, RxPCs, Goto, Threads, data, refs, bridge, locals,
     HandoffWrite, HandoffSubmit
<1>6. ASSUME HandoffWriteFails PROVE Rejection'
  BY <1>6 DEF Rejection, Ownership, FailedDetached, TypeOK, TypePC, TypeRefs,
     TypeLocals, TypeStream, RxPCs, Goto, Threads, data, refs, bridge, locals,
     HandoffWriteFails
<1>7. ASSUME PipelineError("handoff") PROVE Rejection'
  BY <1>7 DEF Rejection, Ownership, FailedDetached, TypeOK, TypePC, TypeRefs,
     TypeLocals, TypeStream, RxPCs, Goto, Threads, data, refs, bridge, locals,
     PipelineError, ErrDetach, ErrWake, AfterStop
<1>8. ASSUME BridgeStop("handoff") PROVE Rejection'
  BY <1>8 DEF Rejection, Ownership, FailedDetached, TypeOK, TypePC, TypeRefs,
     TypeLocals, TypeStream, RxPCs, Goto, Threads, data, refs, bridge, locals,
     BridgeStop, BridgeClose, BridgeReap, AfterStop
<1>9. ASSUME StopRequest \/ StopNext PROVE Rejection'
  BY <1>9 DEF Rejection, Ownership, FailedDetached, TypeOK, TypePC, TypeRefs,
     TypeLocals, TypeStream, RxPCs, Goto, Threads, data, refs, bridge, locals,
     StopRequest, StopNext, StopTakeBridge, BridgeStop, BridgeClose, BridgeReap,
     AfterStop
<1>10. ASSUME FinBegin \/ FinNext PROVE Rejection'
  BY <1>10 DEF Rejection, Ownership, FailedDetached, TypeOK, TypePC, TypeRefs,
     TypeLocals, TypeStream, RxPCs, Goto, Threads, data, refs, bridge, locals,
     FinBegin, FinNext, FinWake, FinDropQueue, FinCheckBridge, FinDeref, FinDetach,
     BridgeStop, BridgeClose, BridgeReap, AfterStop
<1>11. ASSUME ProcExit PROVE Rejection'
  BY <1>11 DEF Rejection, Ownership, FailedDetached, TypeOK, TypePC, TypeRefs,
     TypeLocals, TypeStream, RxPCs, Goto, Threads, data, refs, bridge, locals,
     ProcExit
<1>12. ASSUME UNCHANGED vars PROVE Rejection'
  BY <1>12 DEF Rejection, Ownership, FailedDetached, TypeOK, TypePC, TypeRefs,
     TypeLocals, TypeStream, RxPCs, Goto, Threads, data, refs, bridge, locals, vars
<1>13. QED
  BY <1>1, <1>2, <1>3, <1>4, <1>5, <1>6, <1>7, <1>8, <1>9, <1>10, <1>11, <1>12 DEF
     Next, HandoffNext

-----------------------------------------------------------------------------
(* What a step can do to the queue and the streams.                        *)

\* The handoff thread stays where it is or has left its loop.
StaysOrLeaves == \/ pc'["handoff"] = pc["handoff"]
                 \/ pc'["handoff"] \in {"error", "wake", "close", "reap", "done"}

Frame == UNCHANGED <<rawQueue, written, samples, monitored, cur>> /\ StaysOrLeaves

PutsSentinel == /\ rawQueue' = Append(rawQueue, Sentinel) /\ Len(rawQueue) < Cap
                /\ UNCHANGED <<written, samples, monitored, cur>> /\ StaysOrLeaves

\* The handoff thread moves on within its loop.
Moves == /\ UNCHANGED <<rawQueue, written, samples, monitored, cur>>
         /\ \/ pc["handoff"] = "loop" /\ pc'["handoff"] = "get"
            \/ pc["handoff"] = "get" /\ pc'["handoff"] = "loop"
            \/ pc["handoff"] = "check" /\ pc'["handoff"] = "combine"
            \/ pc["handoff"] = "combine" /\ pc'["handoff"] = "write"

Publishes == /\ pc["rx"] = "publish" /\ pc'["rx"] = "loop"
             /\ rawQueue' = Append(rawQueue, rxCount) /\ Len(rawQueue) < Cap
             /\ UNCHANGED <<written, samples, monitored, cur, rxCount>>
             /\ pc'["handoff"] = pc["handoff"]

LEMMA StreamSteps ==
  ASSUME TypeOK, [Next]_vars
  PROVE  \/ Frame \/ PutsSentinel \/ Moves \/ Publishes
         \/ HandoffGet \/ HandoffWrite \/ HandoffSubmit
<1>1. ASSUME RxPublish PROVE Frame \/ Publishes
  <2>1. CASE IsFull
    BY <1>1, <2>1 DEF RxPublish, Frame, StaysOrLeaves, TypeOK, TypePC, Goto, Threads
  <2>2. CASE ~IsFull
    BY <1>1, <2>2, CapAssumption
       DEF RxPublish, IsFull, Publishes, TypeOK, TypePC, TypeQueue, Goto, Threads
  <2>3. QED
    BY <2>1, <2>2
<1>2. ASSUME RxRecv \/ RxExit \/ RxReadQueue \/ RxReadBridge \/ RxErrJoin \/ RxFail
      PROVE  Frame
  BY <1>2 DEF RxRecv, RxExit, RxReadQueue, RxReadBridge, RxErrJoin, RxFail, Frame,
     StaysOrLeaves, TypeOK, TypePC, Goto, Threads, data
<1>3. ASSUME NEW t \in {"rx", "handoff"}, ErrDetach(t) PROVE Frame
  BY <1>3 DEF ErrDetach, Frame, StaysOrLeaves, TypeOK, TypePC, Threads, data
<1>4. ASSUME NEW t \in {"rx", "handoff"}, ErrWake(t) PROVE Frame \/ PutsSentinel
  <2>1. StaysOrLeaves /\ UNCHANGED <<written, samples, monitored, cur>>
    BY <1>4 DEF ErrWake, StaysOrLeaves, AfterStop, TypeOK, TypePC, Goto, Threads
  <2>2. UNCHANGED rawQueue \/ (rawQueue' = Append(rawQueue, Sentinel) /\ Len(rawQueue) < Cap)
    BY <1>4, CapAssumption DEF ErrWake, PutSentinelNowait, IsFull, TypeOK, TypeQueue
  <2>3. QED
    BY <2>1, <2>2 DEF Frame, PutsSentinel
<1>5. ASSUME NEW t \in Threads, BridgeStop(t) PROVE Frame
  BY <1>5 DEF BridgeStop, BridgeClose, BridgeReap, Frame, StaysOrLeaves, AfterStop,
     TypeOK, TypePC, Goto, Threads, data
<1>6. ASSUME HandoffLoop \/ HandoffTimeout \/ HandoffCheck \/ HandoffCombineFails
      PROVE  Frame \/ Moves
  BY <1>6 DEF HandoffLoop, HandoffTimeout, HandoffCheck, HandoffCombineFails, Frame,
     Moves, StaysOrLeaves, TypeOK, TypePC, Goto, Threads, data
<1>7. ASSUME HandoffLock PROVE Frame \/ Moves
  BY <1>7 DEF HandoffLock, Frame, Moves, StaysOrLeaves, TypeOK, TypePC, Goto, Threads, data
<1>8. ASSUME HandoffWriteFails PROVE Frame
  BY <1>8 DEF HandoffWriteFails, Frame, StaysOrLeaves, TypeOK, TypePC, Goto, Threads, data
<1>9. ASSUME StopRequest \/ StopTakeBridge \/ FinBegin \/ FinDropQueue \/ FinCheckBridge
             \/ FinDeref \/ FinDetach \/ ProcExit \/ UNCHANGED vars
      PROVE  Frame
  BY <1>9 DEF StopRequest, StopTakeBridge, FinBegin, FinDropQueue, FinCheckBridge,
     FinDeref, FinDetach, ProcExit, Frame, StaysOrLeaves, TypeOK, TypePC, Goto, Threads,
     data, vars
<1>10. ASSUME FinWake PROVE Frame \/ PutsSentinel
  <2>1. StaysOrLeaves /\ UNCHANGED <<written, samples, monitored, cur>>
    BY <1>10 DEF FinWake, StaysOrLeaves, TypeOK, TypePC, Goto, Threads
  <2>2. UNCHANGED rawQueue \/ (rawQueue' = Append(rawQueue, Sentinel) /\ Len(rawQueue) < Cap)
    BY <1>10, CapAssumption DEF FinWake, PutSentinelNowait, IsFull, TypeOK, TypeQueue
  <2>3. QED
    BY <2>1, <2>2 DEF Frame, PutsSentinel
<1>11. QED
  BY <1>1, <1>2, <1>3, <1>4, <1>5, <1>6, <1>7, <1>8, <1>9, <1>10
     DEF Next, RxNext, HandoffNext, StopNext, FinNext, PipelineError, Threads

LEMMA TypeQueueStep ==
  ASSUME TypeOK, [Next]_vars
  PROVE  TypeQueue'
<1>1. CASE Frame \/ Moves
  BY <1>1 DEF Frame, Moves, TypeOK, TypeQueue
<1>2. CASE PutsSentinel
  BY <1>2, AppendFacts, CapAssumption DEF PutsSentinel, TypeOK, TypeQueue, Sentinel
<1>3. CASE Publishes
  BY <1>3, AppendFacts, CapAssumption DEF Publishes, TypeOK, TypeQueue, TypeStream
<1>4. CASE HandoffGet
  BY <1>4, TailFacts, CapAssumption DEF HandoffGet, TypeOK, TypeQueue
<1>5. CASE HandoffWrite \/ HandoffSubmit
  BY <1>5 DEF HandoffWrite, HandoffSubmit, TypeOK, TypeQueue
<1>6. QED
  BY <1>1, <1>2, <1>3, <1>4, <1>5, StreamSteps

LEMMA TypeStreamStep ==
  ASSUME TypeOK, [Next]_vars
  PROVE  TypeStream'
<1>1. rawDrops' \in Nat /\ rxCount' \in Nat
  BY RxCounters
<1>2. CASE Frame \/ Moves \/ PutsSentinel \/ Publishes
  BY <1>1, <1>2 DEF Frame, Moves, PutsSentinel, Publishes, TypeOK, TypeStream
<1>3. CASE HandoffGet
  BY <1>1, <1>3, TailFacts DEF HandoffGet, TypeOK, TypeStream, TypeQueue
<1>4. CASE HandoffWrite
  BY <1>1, <1>4, AppendFacts DEF HandoffWrite, TypeOK, TypeStream
<1>5. CASE HandoffSubmit
  <2>1. samples' \in Nat /\ cur' \in Nat /\ written' \in Seq(Nat)
    BY <1>5 DEF HandoffSubmit, TypeOK, TypeStream
  <2>2. monitored' \subseteq Nat \X Nat
    BY <1>5 DEF HandoffSubmit, TypeOK, TypeStream
  <2>3. QED
    BY <1>1, <2>1, <2>2 DEF TypeStream
<1>6. QED
  BY <1>2, <1>3, <1>4, <1>5, StreamSteps

LEMMA TypeOKStep ==
  ASSUME TypeOK, [Next]_vars
  PROVE  TypeOK'
BY FlagTypes, TypePCStep, TypeQueueStep, TypeStreamStep
   DEF TypeOK

-----------------------------------------------------------------------------
(* No gap.                                                                 *)

LEMMA CountingStep ==
  ASSUME TypeOK, Counting, GapFree, [Next]_vars
  PROVE  Counting'
<1>1. CASE Frame \/ PutsSentinel \/ Publishes
  BY <1>1 DEF Frame, PutsSentinel, Publishes, StaysOrLeaves, Counting, Working
<1>2. CASE Moves
  BY <1>2 DEF Moves, Counting, Working
<1>3. CASE HandoffGet
  BY <1>3 DEF HandoffGet, Goto, Counting, Working, TypeOK, TypePC, Threads
<1>4. CASE HandoffWrite
  <2>1. pc["handoff"] = "write" /\ pc'["handoff"] = "submit"
    BY <1>4 DEF HandoffWrite, Goto, TypeOK, TypePC, Threads
  <2>2. cur = Len(written) + 1 /\ samples = Len(written)
    BY <2>1 DEF GapFree, Working, Taken, Counting
  <2>3. Len(written') = Len(written) + 1 /\ Len(written) \in Nat
    BY <1>4, AppendFacts DEF HandoffWrite, TypeOK, TypeStream
  <2>4. cur' = cur /\ samples' = samples
    BY <1>4 DEF HandoffWrite
  <2>5. QED
    BY <2>1, <2>2, <2>3, <2>4 DEF Counting
<1>5. CASE HandoffSubmit
  <2>1. pc["handoff"] = "submit" /\ pc'["handoff"] = "loop"
    BY <1>5 DEF HandoffSubmit, Goto, TypeOK, TypePC, Threads
  <2>2. samples' = samples + 1 /\ written' = written /\ Len(written) \in Nat
    BY <1>5 DEF HandoffSubmit, TypeOK, TypeStream
  <2>3. QED
    BY <2>1, <2>2 DEF Counting
<1>6. QED
  BY <1>1, <1>2, <1>3, <1>4, <1>5, StreamSteps

LEMMA GapFreeStep ==
  ASSUME TypeOK, GapFree, NoneSkipped, [Next]_vars
  PROVE  GapFree'
<1> DEFINE Carried == \A i \in 1..Len(written) : written[i] = i
           Held == pc["handoff"] \in {"check", "combine", "write"} => cur = Taken
           Queued == \A i \in 1..Len(rawQueue) :
                       (\A j \in 1..i : rawQueue[j] # Sentinel) => rawQueue[i] = Taken + i
<1>0. rawQueue \in Seq(Nat) /\ written \in Seq(Nat) /\ Len(rawQueue) \in Nat
      /\ Len(written) \in Nat /\ rxCount \in Nat
  BY DEF TypeOK, TypeQueue, TypeStream
<1>1. CASE Frame
  BY <1>1 DEF Frame, StaysOrLeaves, GapFree, Working, Taken
<1>2. CASE Moves
  BY <1>2 DEF Moves, GapFree, Working, Taken
<1>3. ASSUME NEW e \in Nat, rawQueue' = Append(rawQueue, e), StaysOrLeaves,
             UNCHANGED <<written, cur>>,
             Working /\ (\A i \in 1..Len(rawQueue) : rawQueue[i] # Sentinel)
               => e = Sentinel \/ e = Taken + Len(rawQueue) + 1
      PROVE  GapFree'
  <2> SUFFICES ASSUME Working' PROVE Held' /\ Queued'
    BY <1>3 DEF GapFree
  <2>1. pc'["handoff"] = pc["handoff"] /\ Working
    BY <1>3 DEF StaysOrLeaves, Working
  <2>2. Taken' = Taken /\ Held /\ Queued
    BY <1>3, <2>1 DEF Taken, GapFree
  <2>3. ASSUME NEW i \in 1..Len(rawQueue'), \A j \in 1..i : rawQueue'[j] # Sentinel
        PROVE  rawQueue'[i] = Taken + i
    <3>1. CASE i \in 1..Len(rawQueue)
      <4>1. \A j \in 1..i : j \in 1..Len(rawQueue) /\ rawQueue'[j] = rawQueue[j]
        BY <1>0, <1>3, <3>1, AppendFacts
      <4>2. rawQueue[i] = Taken + i
        BY <2>2, <2>3, <3>1, <4>1
      <4>3. QED
        BY <1>0, <3>1, <4>1, <4>2
    <3>2. CASE i = Len(rawQueue) + 1
      <4>1. \A j \in 1..Len(rawQueue) : rawQueue[j] # Sentinel
        BY <1>0, <1>3, <2>3, <3>2, AppendFacts
      <4>2. rawQueue'[i] = e /\ e # Sentinel
        BY <1>0, <1>3, <2>3, <3>2, AppendFacts
      <4>3. e = Taken + Len(rawQueue) + 1
        BY <1>3, <2>1, <4>1, <4>2
      <4>4. Taken \in Nat
        BY <1>0 DEF Taken
      <4>5. QED
        BY <1>0, <3>2, <4>2, <4>3, <4>4
    <3>3. QED
      BY <1>0, <1>3, <3>1, <3>2, AppendFacts
  <2>4. QED
    BY <1>3, <2>1, <2>2, <2>3
<1>4. CASE PutsSentinel
  BY <1>3, <1>4 DEF PutsSentinel, Sentinel
<1>5. CASE Publishes
  <2>1. Working /\ (\A i \in 1..Len(rawQueue) : rawQueue[i] # Sentinel)
          => rxCount = Taken + Len(rawQueue) + 1
    BY <1>0, <1>5 DEF Publishes, NoneSkipped, Publishing, Holding, Taken
  <2>2. QED
    BY <1>0, <1>3, <1>5, <2>1 DEF Publishes, StaysOrLeaves
<1>6. CASE HandoffGet
  <2>1. /\ pc["handoff"] = "get" /\ rawQueue # << >> /\ written' = written
        /\ cur' = Head(rawQueue) /\ rawQueue' = Tail(rawQueue)
        /\ pc'["handoff"] = IF Head(rawQueue) = Sentinel THEN "done" ELSE "check"
    BY <1>6 DEF HandoffGet, Goto, TypeOK, TypePC, Threads
  <2> SUFFICES ASSUME Working' PROVE Held' /\ Queued'
    BY <2>1 DEF GapFree
  <2>2. Head(rawQueue) # Sentinel /\ pc'["handoff"] = "check"
    BY <2>1 DEF Working
  <2>3. Taken' = Len(written) + 1 /\ Taken = Len(written) /\ Queued
    BY <2>1, <2>2 DEF Taken, GapFree, Working
  <2>4. rawQueue[1] = Taken + 1
    BY <1>0, <2>1, <2>2, <2>3, TailFacts
  <2>5. Held'
    BY <1>0, <2>1, <2>3, <2>4, TailFacts
  <2>6. ASSUME NEW i \in 1..Len(rawQueue'), \A j \in 1..i : rawQueue'[j] # Sentinel
        PROVE  rawQueue'[i] = Taken' + i
    <3>1. i + 1 \in 1..Len(rawQueue) /\ rawQueue'[i] = rawQueue[i + 1]
      BY <1>0, <2>1, TailFacts
    <3>2. ASSUME NEW j \in 1..(i + 1) PROVE rawQueue[j] # Sentinel
      <4>1. CASE j = 1
        BY <1>0, <2>1, <2>2, <4>1, TailFacts
      <4>2. CASE j # 1
        <5>1. j - 1 \in 1..i /\ j - 1 \in 1..Len(rawQueue')
          BY <1>0, <2>1, <4>2, TailFacts
        <5>2. rawQueue'[j - 1] = rawQueue[j]
          BY <1>0, <2>1, <5>1, TailFacts
        <5>3. QED
          BY <2>6, <5>1, <5>2
      <4>3. QED
        BY <4>1, <4>2
    <3>3. rawQueue[i + 1] = Taken + (i + 1)
      BY <2>3, <3>1, <3>2
    <3>4. QED
      BY <1>0, <2>3, <3>1, <3>3
  <2>7. QED
    BY <2>5, <2>6
<1>7. CASE HandoffWrite
  <2>1. /\ pc["handoff"] = "write" /\ pc'["handoff"] = "submit"
        /\ written' = Append(written, cur) /\ rawQueue' = rawQueue
    BY <1>7 DEF HandoffWrite, Goto, TypeOK, TypePC, Threads
  <2>2. cur = Len(written) + 1 /\ Taken = Len(written) + 1 /\ Queued /\ Carried
    BY <2>1 DEF GapFree, Working, Taken
  <2>3. Len(written') = Len(written) + 1 /\ Taken' = Len(written) + 1
    BY <1>0, <2>1, <2>2, AppendFacts DEF Taken
  <2>4. Carried'
    BY <1>0, <2>1, <2>2, <2>3, AppendFacts
  <2>5. Queued' /\ Held'
    BY <2>1, <2>2, <2>3
  <2>6. QED
    BY <2>4, <2>5 DEF GapFree
<1>8. CASE HandoffSubmit
  <2>1. /\ pc["handoff"] = "submit" /\ pc'["handoff"] = "loop"
        /\ written' = written /\ rawQueue' = rawQueue
    BY <1>8 DEF HandoffSubmit, Goto, TypeOK, TypePC, Threads
  <2>2. QED
    BY <2>1 DEF GapFree, Working, Taken
<1>9. QED
  BY <1>1, <1>2, <1>4, <1>5, <1>6, <1>7, <1>8, StreamSteps

\* Publishing is only ever lost, and a step that keeps it receives a
\* chunk, publishes it, or leaves the RX thread's chunk alone.
LEMMA PublishingSteps ==
  ASSUME TypeOK, Ownership, NoneSkipped, [Next]_vars, Publishing'
  PROVE  /\ Publishing
         /\ \/ Holding' = Holding /\ rxCount' = rxCount
            \/ Holding = 0 /\ Holding' = 1 /\ rxCount' = rxCount + 1
            \/ Publishes
<1> USE DEF TypeOK, TypePC, TypeStream, Goto, Threads, Publishing, Holding, Active
<1>1. CASE RxRecv
  BY <1>1 DEF RxRecv, refs, bridge
<1>2. CASE RxExit \/ RxFail \/ RxErrJoin
  BY <1>2 DEF RxExit, RxFail, RxErrJoin, data, refs, bridge, locals
<1>3. CASE RxReadQueue
  BY <1>3 DEF RxReadQueue, TypeLocals, data, refs, bridge
<1>4. CASE RxReadBridge
  BY <1>4 DEF RxReadBridge, NoneSkipped, data, refs, bridge, locals
<1>5. CASE RxPublish
  BY <1>5, CapAssumption DEF RxPublish, IsFull, Publishes, TypeQueue
<1>6. CASE PipelineError("rx")
  BY <1>6 DEF PipelineError, ErrDetach, ErrWake, AfterStop, Ownership, FailedDetached, data, refs,
     bridge, locals
<1>7. CASE BridgeStop("rx")
  BY <1>7 DEF BridgeStop, BridgeClose, BridgeReap, AfterStop, data, refs, locals
<1>8. CASE HandoffNext \/ StopRequest \/ StopNext \/ FinBegin \/ FinNext \/ ProcExit
           \/ UNCHANGED vars
  <2>1. pc'["rx"] = pc["rx"] /\ rxCount' = rxCount /\ hasQueue'["rx"] = hasQueue["rx"]
    BY <1>8 DEF HandoffNext, HandoffLoop, HandoffGet, HandoffTimeout, HandoffCheck,
       HandoffCombineFails, HandoffLock, HandoffWrite, HandoffWriteFails, HandoffSubmit,
       PipelineError, ErrDetach, ErrWake, BridgeStop, BridgeClose, BridgeReap,
       StopRequest, StopNext, StopTakeBridge, FinBegin, FinNext, FinWake, FinDropQueue,
       FinCheckBridge, FinDeref, FinDetach, ProcExit, vars, data, locals, TypeLocals
  <2>2. QED
    BY <2>1, OnlyCleared
<1>9. QED
  BY <1>1, <1>2, <1>3, <1>4, <1>5, <1>6, <1>7, <1>8 DEF Next, RxNext

LEMMA NoneSkippedStep ==
  ASSUME TypeOK, Ownership, GapFree, NoneSkipped, [Next]_vars
  PROVE  NoneSkipped'
<1> DEFINE NoSentinel == \A i \in 1..Len(rawQueue) : rawQueue[i] # Sentinel
<1>0. /\ rawQueue \in Seq(Nat) /\ written \in Seq(Nat) /\ Len(rawQueue) \in Nat
      /\ Len(written) \in Nat /\ rxCount \in Nat /\ rxCount' \in Nat
      /\ Holding \in Nat /\ Holding' \in Nat /\ Taken \in Nat
      /\ Taken' \in Nat /\ Len(rawQueue') \in Nat
  BY TypeOKStep DEF TypeOK, TypeQueue, TypeStream, Holding, Taken
<1>1. pc'["rx"] \in {"readQueue", "readBridge", "publish"} => rxCount' >= 1
  BY RxHolds DEF NoneSkipped
<1>2. pc'["rx"] = "readBridge" /\ queueRef' => hasQueue'["rx"]
  BY RxHolds DEF NoneSkipped
<1>3. ASSUME Working', Publishing', NoSentinel'
      PROVE  Taken' + Len(rawQueue') + Holding' = rxCount'
  <2>1. /\ Publishing
        /\ \/ Holding' = Holding /\ rxCount' = rxCount
           \/ Holding = 0 /\ Holding' = 1 /\ rxCount' = rxCount + 1
           \/ Publishes
    BY <1>3, PublishingSteps
  <2>2. CASE Publishes
    <3>1. Working /\ NoSentinel
      BY <1>0, <1>3, <2>2, AppendFacts DEF Publishes, Working
    <3>2. Taken + Len(rawQueue) + Holding = rxCount
      BY <2>1, <3>1 DEF NoneSkipped
    <3>3. /\ Taken' = Taken /\ Holding = 1 /\ Holding' = 0 /\ rxCount' = rxCount
          /\ Len(rawQueue') = Len(rawQueue) + 1
      BY <1>0, <2>2, AppendFacts DEF Publishes, Taken, Holding
    <3>4. QED
      BY <1>0, <3>2, <3>3
  <2>3. ASSUME Working, NoSentinel, ~Publishes,
               Taken' + Len(rawQueue') = Taken + Len(rawQueue)
        PROVE  Taken' + Len(rawQueue') + Holding' = rxCount'
    <3>1. Taken + Len(rawQueue) + Holding = rxCount
      BY <2>1, <2>3 DEF NoneSkipped
    <3>2. CASE Holding' = Holding /\ rxCount' = rxCount
      BY <2>3, <3>1, <3>2
    <3>3. CASE Holding = 0 /\ Holding' = 1 /\ rxCount' = rxCount + 1
      <4>1. Taken' + Len(rawQueue') = rxCount
        BY <1>0, <2>3, <3>1, <3>3
      <4>2. QED
        BY <3>3, <4>1
    <3>4. QED
      BY <2>1, <2>3, <3>2, <3>3
  <2>4. CASE ~Publishes /\ (Frame \/ Moves)
    <3>1. /\ Working /\ Taken' = Taken /\ NoSentinel
          /\ rawQueue' = rawQueue
      BY <1>3, <2>4 DEF Frame, StaysOrLeaves, Moves, Working, Taken
    <3>2. QED
      BY <2>3, <2>4, <3>1
  <2>5. CASE PutsSentinel
    <3>1. rawQueue' = Append(rawQueue, 0)
      BY <2>5 DEF PutsSentinel, Sentinel
    <3>2. Len(rawQueue') = Len(rawQueue) + 1 /\ rawQueue'[Len(rawQueue) + 1] = 0
      BY <1>0, <3>1, AppendFacts
    <3>3. Len(rawQueue) + 1 \in 1..Len(rawQueue')
      BY <1>0, <3>2
    <3>4. QED
      BY <1>3, <3>2, <3>3 DEF Sentinel
  <2>6. CASE ~Publishes /\ HandoffGet
    <3>1. /\ pc["handoff"] = "get" /\ rawQueue # << >> /\ written' = written
          /\ rawQueue' = Tail(rawQueue)
          /\ pc'["handoff"] = IF Head(rawQueue) = Sentinel THEN "done" ELSE "check"
      BY <2>6 DEF HandoffGet, Goto, TypeOK, TypePC, Threads
    <3>2. Head(rawQueue) # Sentinel /\ pc'["handoff"] = "check"
      BY <1>3, <3>1 DEF Working
    <3>3. NoSentinel
      <4>1. ASSUME NEW i \in 1..Len(rawQueue) PROVE rawQueue[i] # Sentinel
        <5>1. CASE i = 1
          BY <1>0, <3>1, <3>2, <5>1, TailFacts
        <5>2. CASE i # 1
          <6>1. i - 1 \in 1..Len(rawQueue') /\ rawQueue'[i - 1] = rawQueue[i]
            BY <1>0, <3>1, <5>2, TailFacts
          <6>2. QED
            BY <1>3, <6>1
        <5>3. QED
          BY <5>1, <5>2
      <4>2. QED
        BY <4>1
    <3>4. Working /\ Taken' = Taken + 1 /\ Len(rawQueue') = Len(rawQueue) - 1
      BY <1>0, <3>1, <3>2, TailFacts DEF Working, Taken
    <3>5. QED
      BY <1>0, <2>3, <2>6, <3>3, <3>4
  <2>7. CASE ~Publishes /\ HandoffWrite
    <3>1. /\ pc["handoff"] = "write" /\ pc'["handoff"] = "submit"
          /\ written' = Append(written, cur) /\ rawQueue' = rawQueue
      BY <2>7 DEF HandoffWrite, Goto, TypeOK, TypePC, Threads
    <3>2. Working /\ NoSentinel /\ Taken' = Taken
      BY <1>0, <1>3, <3>1, AppendFacts DEF Working, Taken, TypeOK, TypeStream
    <3>3. QED
      BY <2>3, <2>7, <3>1, <3>2
  <2>8. CASE ~Publishes /\ HandoffSubmit
    <3>1. /\ pc["handoff"] = "submit" /\ pc'["handoff"] = "loop"
          /\ written' = written /\ rawQueue' = rawQueue
      BY <2>8 DEF HandoffSubmit, Goto, TypeOK, TypePC, Threads
    <3>2. Working /\ NoSentinel /\ Taken' = Taken
      BY <1>3, <3>1 DEF Working, Taken
    <3>3. QED
      BY <2>3, <2>8, <3>1, <3>2
  <2>9. QED
    BY <2>2, <2>4, <2>5, <2>6, <2>7, <2>8, StreamSteps
<1>4. QED
  BY <1>1, <1>2, <1>3 DEF NoneSkipped

LEMMA MonitorAlignedStep ==
  ASSUME TypeOK, MonitorAligned, Counting, GapFree, [Next]_vars
  PROVE  MonitorAligned'
<1>0. written \in Seq(Nat) /\ Len(written) \in Nat /\ monitored \subseteq Nat \X Nat
  BY DEF TypeOK, TypeStream
<1>1. CASE Frame \/ Moves \/ PutsSentinel \/ Publishes
  BY <1>1 DEF Frame, Moves, PutsSentinel, Publishes, MonitorAligned
<1>2. CASE HandoffGet
  BY <1>2 DEF HandoffGet, MonitorAligned
<1>3. CASE HandoffWrite
  <2>1. /\ monitored' = monitored /\ written' \in Seq(Nat)
        /\ Len(written') = Len(written) + 1
        /\ \A i \in 1..Len(written) : written'[i] = written[i]
    BY <1>0, <1>3, AppendFacts DEF HandoffWrite, TypeOK, TypeStream
  <2>2. ASSUME NEW m \in monitored
        PROVE  m[1] + 1 <= Len(written') /\ written'[m[1] + 1] = m[2]
    <3>1. m[1] \in Nat /\ m[1] + 1 <= Len(written) /\ written[m[1] + 1] = m[2]
      BY <1>0, <2>2 DEF MonitorAligned
    <3>2. QED
      BY <1>0, <2>1, <3>1
  <2>3. QED
    BY <2>1, <2>2 DEF MonitorAligned
<1>4. CASE HandoffSubmit
  <2>1. pc["handoff"] = "submit" /\ written' = written
    BY <1>4 DEF HandoffSubmit, Goto, TypeOK, TypePC, Threads
  <2>2. samples + 1 = Len(written) /\ cur = Len(written) /\ Len(written) >= 1
    BY <1>0, <2>1 DEF Counting
  <2>3. written[Len(written)] = Len(written)
    BY <1>0, <2>2 DEF GapFree
  <2>4. ASSUME NEW m \in monitored'
        PROVE  m[1] + 1 <= Len(written) /\ written[m[1] + 1] = m[2]
    <3>1. CASE m \in monitored
      BY <3>1 DEF MonitorAligned
    <3>2. CASE m = <<samples, cur>>
      BY <1>0, <2>2, <2>3, <3>2
    <3>3. QED
      BY <1>4, <2>4, <3>1, <3>2 DEF HandoffSubmit
  <2>5. QED
    BY <2>1, <2>4 DEF MonitorAligned
<1>5. QED
  BY <1>1, <1>2, <1>3, <1>4, StreamSteps

-----------------------------------------------------------------------------
(* The theorems.                                                           *)

LEMMA InitIInv == Init => IInv
<1> SUFFICES ASSUME Init PROVE IInv
  OBVIOUS
<1>1. TypeRefs /\ TypeBridge /\ TypeLocals
  BY DEF Init, TypeRefs, TypeBridge, TypeLocals
<1>2. TypeQueue
  BY CapAssumption DEF Init, TypeQueue
<1>3. TypeStream
  BY DEF Init, TypeStream, Sentinel
<1>4. TypePC
  BY DEF Init, TypePC, Threads, RxPCs, HandoffPCs, CtlPCs, FinPCs
<1>5. \A t \in Threads : pc[t] = "loop" /\ ~hasBridge[t] /\ ~hasQueue[t]
  BY DEF Init
<1>6. Ownership
  BY <1>5 DEF Init, Ownership, FailedDetached, Owners, OneOwnerStops, Threads
<1>7. Writing /\ Responsible
  BY <1>5 DEF Init, Writing, Responsible, NoThread, Threads
<1>8. Rejection /\ Counting /\ MonitorAligned
  BY <1>5 DEF Init, Rejection, Counting, MonitorAligned, Threads
<1>9. GapFree
  BY <1>5 DEF Init, GapFree, Threads
<1>10. NoneSkipped
  BY <1>5 DEF Init, NoneSkipped, Taken, Holding, Threads
<1>11. QED
  BY <1>1, <1>2, <1>3, <1>4, <1>6, <1>7, <1>8, <1>9, <1>10 DEF IInv, TypeOK

LEMMA NextIInv == IInv /\ [Next]_vars => IInv'
BY TypeOKStep, OwnershipStep, WritingStep,
   ResponsibleStep, RejectionStep, NoneSkippedStep, GapFreeStep, CountingStep,
   MonitorAlignedStep DEF IInv

\* The strengthened invariant of the handoff holds in every reachable state.
THEOREM Invariance == Spec => []IInv
BY InitIInv, NextIInv, PTL DEF Spec

\* Every variable keeps its type and the raw queue its capacity.
THEOREM TypeCorrect == Spec => []TypeOK
<1>1. IInv => TypeOK
  BY DEF IInv
<1>2. QED
  BY <1>1, Invariance, PTL

\* GNSS-SDR receives exactly the first chunks the receiver delivered.
THEOREM HandoffIsGapFree == Spec => []GapFree
<1>1. IInv => GapFree
  BY DEF IInv
<1>2. QED
  BY <1>1, Invariance, PTL

\* The phase monitor correlates the samples it is told it correlates.
THEOREM MonitorIsAligned == Spec => []MonitorAligned
<1>1. IInv => MonitorAligned
  BY DEF IInv
<1>2. QED
  BY <1>1, Invariance, PTL

\* A run rejects at most one chunk.
THEOREM RejectsAtMostOnce == Spec => []OneRejection
<1>1. IInv => OneRejection
  BY DEF IInv, Rejection, OneRejection
<1>2. QED
  BY <1>1, Invariance, PTL

\* The failure lock gives the bridge to one thread only.
THEOREM BridgeHasOneOwner == Spec => []OneOwnerStops
<1>1. IInv => OneOwnerStops
  BY DEF IInv, Ownership
<1>2. QED
  BY <1>1, Invariance, PTL

\* When every thread is through, GNSS-SDR is stopped and its FIFO closed.
THEOREM ReceiverIsReleased == Spec => []ReceiverReleased
<1>1. IInv => ReceiverReleased
  BY DEF IInv, Responsible, WillStop, Released, ReceiverReleased, AllThrough, Threads
<1>2. QED
  BY <1>1, Invariance, PTL

\* The handoff as a whole: no gap, one rejection, one thread that stops the bridge.
THEOREM HandoffIsSafe == Spec => []HandoffIsSound
<1>1. IInv => HandoffIsSound
  BY DEF IInv, Rejection, OneRejection, Ownership, OneOwnerStops, HandoffIsSound
<1>2. QED
  BY <1>1, Invariance, PTL

LEMMA StreamInit == Init => CS!Init
BY DEF Init, CS!Init

LEMMA StreamStep ==
  ASSUME IInv, [Next]_vars
  PROVE  [CS!Next]_<<written, torn \/ ~fifoOpen>>
<1>1. CASE HandoffWrite
  <2>1. pc["handoff"] = "write" /\ written' = Append(written, cur)
        /\ UNCHANGED <<torn, fifoOpen>>
    BY <1>1 DEF HandoffWrite, Goto, IInv, TypeOK, TypePC, Threads
  <2>2. fifoOpen /\ ~torn
    BY <2>1 DEF IInv, Writing, Working
  <2>3. cur = Len(written) + 1
    BY <2>1 DEF IInv, GapFree, Working, Taken
  <2>4. QED
    BY <2>1, <2>2, <2>3 DEF CS!Next, CS!Deliver
<1>2. CASE ~HandoffWrite
  <2>1. written' = written
    BY <1>2, StreamSteps DEF IInv, Frame, PutsSentinel, Moves, Publishes, HandoffGet,
       HandoffSubmit
  <2>2. (torn \/ ~fifoOpen) => (torn' \/ ~fifoOpen')
    BY OnlyCleared DEF IInv
  <2>3. QED
    BY <2>1, <2>2 DEF CS!Next, CS!Seal, IInv, TypeOK, TypeBridge
<1>3. QED
  BY <1>1, <1>2

\* The handoff implements the gap-free, sealable stream.
THEOREM ImplementsStream == Spec => StreamSpec
<1>1. IInv /\ [Next]_vars => [CS!Next]_<<written, torn \/ ~fifoOpen>>
  BY StreamStep
<1>2. QED
  BY <1>1, StreamInit, Invariance, PTL DEF Spec, StreamSpec, CS!Spec
====
