------------------------- MODULE UsrpRxDeviceProofs -------------------------
(***************************************************************************)
(* Proofs about UsrpRxDevice, for every set of controls and every number   *)
(* of packets in a chunk.                                                  *)
(***************************************************************************)
EXTENDS UsrpRxDevice, TLAPS

-----------------------------------------------------------------------------
(* The strengthening that makes the safety properties inductive.           *)

\* The points between taking and releasing _stream_lock, by what the thread is
\* about to do there: the stream is idle, or it is live.
IdlePCs == {"start", "starting", "restarting", "restarted"}
LivePCs == {"packet", "receiving", "pausing", "closing"}
HeldPCs == IdlePCs \union LivePCs \union {"unlock"}
NativePCs == {"starting", "receiving", "pausing", "restarted", "closing"}

\* Only the holder of the lock is between its acquisition and its release, and
\* only there are native calls made.
Locking == \A t \in Threads : /\ pc[t] \in HeldPCs => lock = t
                              /\ t \in native => pc[t] \in NativePCs

\* _started is what the hardware does, and its holder knows which it is.
Following == /\ started = live
             /\ \A t \in Threads : /\ pc[t] \in IdlePCs => ~live
                                   /\ pc[t] \in LivePCs => live

\* Once the device is stopping, the receiver never works on the stream again,
\* and the stream ends with the stop command in progress, unless UHD refuses.
Stopped == stopping => /\ pc["rx"] \notin HeldPCs \ {"closing", "unlock"}
                       /\ ~live \/ refused \/ \E t \in Threads : pc[t] = "closing"

\* The finalizer closes the device after the receiver, and leaves it quiet.
Finalizing == /\ pc["fin"] # "idle" => pc["rx"] = "done"
              /\ pc["fin"] \in {"unlock", "done"} => ~live \/ refused

IInv == TypeOK /\ Locking /\ Following /\ Stopped /\ Finalizing

-----------------------------------------------------------------------------
(* The conjuncts are preserved by every step.                              *)

\* Where a call that raised leaves the receiver.
LEMMA RaiseFacts ==
  ASSUME TypeOK
  PROVE  OnRaise \in {"restart", "done", "failed"}
BY DEF TypeOK, TypeData, OnRaise

\* Every variable but pc keeps its type.
LEMMA TypeDataStep ==
  ASSUME TypeOK, [Next]_vars
  PROVE  TypeData'
<1>0. OnRaise \in {"restart", "done", "failed"}
  BY RaiseFacts
<1> USE PacketsAssumption DEF TypeOK, TypeData, Threads, Closers, flags, Free, Enter,
        Leave, Release
<1>1. CASE RecvLock
  BY <1>1 DEF RecvLock, Acquire
<1>2. CASE RestartLock
  BY <1>2 DEF RestartLock, Acquire, CmdStop
<1>3. CASE StartBegin
  BY <1>3 DEF StartBegin
<1>4. CASE StartEnd
  BY <1>4 DEF StartEnd
<1>5. CASE StartRaised
  BY <1>0, <1>5 DEF StartRaised
<1>6. CASE PacketBegin \/ PacketEnd
  BY <1>6 DEF PacketBegin, PacketEnd
<1>7. CASE RecvReturns
  BY <1>7 DEF RecvReturns
<1>8. CASE RecvRaised
  BY <1>0, <1>8 DEF RecvRaised
<1>9. CASE RestartPaused \/ RestartPauseRaised
  BY <1>9 DEF RestartPaused, RestartPauseRaised, StopCmdDone, StopCmdRaised
<1>10. CASE RestartBegin
  BY <1>10 DEF RestartBegin
<1>11. CASE RestartEnd \/ RestartRaised
  BY <1>11 DEF RestartEnd, RestartRaised
<1>12. CASE RxLoop \/ RxOverflow
  BY <1>12 DEF RxLoop, RxOverflow
<1>13. CASE RxFailed \/ FinRequest
  BY <1>13 DEF RxFailed, FinRequest
<1>14. ASSUME NEW t \in Controls, CloseRequest(t) PROVE TypeData'
  BY <1>14 DEF CloseRequest
<1>15. ASSUME NEW t \in Threads, CloseLock(t) PROVE TypeData'
  BY <1>15 DEF CloseLock, Acquire, CmdStop, Pauses
<1>16. ASSUME NEW t \in Threads, CloseAgain(t) PROVE TypeData'
  BY <1>16 DEF CloseAgain, Pauses
<1>17. ASSUME NEW t \in Threads, CloseEnd(t) PROVE TypeData'
  BY <1>17 DEF CloseEnd, StopCmdDone
<1>18. ASSUME NEW t \in Threads, CloseRaised(t) PROVE TypeData'
  BY <1>0, <1>18 DEF CloseRaised, StopCmdRaised
<1>19. ASSUME NEW t \in Threads, CloseUnlock(t) PROVE TypeData'
  BY <1>19 DEF CloseUnlock
<1>20. CASE UNCHANGED vars
  BY <1>20 DEF vars
<1>21. QED
  BY <1>1, <1>2, <1>3, <1>4, <1>5, <1>6, <1>7, <1>8, <1>9, <1>10,
     <1>11, <1>12, <1>13, <1>14, <1>15, <1>16, <1>17, <1>18, <1>19, <1>20
     DEF Next, Receive, Close

\* Every thread stays at points of its own code.
LEMMA TypePCStep ==
  ASSUME TypeOK, [Next]_vars
  PROVE  TypePC'
<1>0. OnRaise \in {"restart", "done", "failed"}
  BY RaiseFacts
<1> USE ControlsAssumption DEF TypeOK, TypePC, Threads, Closers, RxPCs, CloserPCs, Goto
<1>1. CASE RecvLock
  BY <1>1 DEF RecvLock, Acquire
<1>2. CASE RestartLock
  BY <1>2 DEF RestartLock, Acquire, CmdStop
<1>3. CASE StartBegin
  BY <1>3 DEF StartBegin
<1>4. CASE StartEnd
  BY <1>4 DEF StartEnd
<1>5. CASE StartRaised
  BY <1>0, <1>5 DEF StartRaised
<1>6. CASE PacketBegin \/ PacketEnd
  BY <1>6 DEF PacketBegin, PacketEnd
<1>7. CASE RecvReturns
  BY <1>7 DEF RecvReturns
<1>8. CASE RecvRaised
  BY <1>0, <1>8 DEF RecvRaised
<1>9. CASE RestartPaused \/ RestartPauseRaised
  BY <1>9 DEF RestartPaused, RestartPauseRaised, StopCmdDone, StopCmdRaised
<1>10. CASE RestartBegin
  BY <1>10 DEF RestartBegin
<1>11. CASE RestartEnd \/ RestartRaised
  BY <1>11 DEF RestartEnd, RestartRaised
<1>12. CASE RxLoop \/ RxOverflow
  BY <1>12 DEF RxLoop, RxOverflow
<1>13. CASE RxFailed \/ FinRequest
  BY <1>13 DEF RxFailed, FinRequest
<1>14. ASSUME NEW t \in Controls, CloseRequest(t) PROVE TypePC'
  BY <1>14 DEF CloseRequest
<1>15. ASSUME NEW t \in Threads, CloseLock(t) PROVE TypePC'
  BY <1>15 DEF CloseLock, Acquire, CmdStop, Pauses
<1>16. ASSUME NEW t \in Threads, CloseAgain(t) PROVE TypePC'
  BY <1>16 DEF CloseAgain, Pauses
<1>17. ASSUME NEW t \in Threads, CloseEnd(t) PROVE TypePC'
  BY <1>17 DEF CloseEnd, StopCmdDone
<1>18. ASSUME NEW t \in Threads, CloseRaised(t) PROVE TypePC'
  BY <1>0, <1>18 DEF CloseRaised, StopCmdRaised
<1>19. ASSUME NEW t \in Threads, CloseUnlock(t) PROVE TypePC'
  BY <1>19 DEF CloseUnlock
<1>20. CASE UNCHANGED vars
  BY <1>20 DEF vars
<1>21. QED
  BY <1>1, <1>2, <1>3, <1>4, <1>5, <1>6, <1>7, <1>8, <1>9, <1>10,
     <1>11, <1>12, <1>13, <1>14, <1>15, <1>16, <1>17, <1>18, <1>19, <1>20
     DEF Next, Receive, Close

\* The lock is taken and released by its holder.
LEMMA LockingStep ==
  ASSUME TypeOK, Locking, [Next]_vars
  PROVE  Locking'
<1>0. OnRaise \in {"restart", "done", "failed"}
  BY RaiseFacts
<1> USE ControlsAssumption DEF TypeOK, TypeData, TypePC, Locking, Threads, Closers,
        HeldPCs, IdlePCs, LivePCs, NativePCs, flags, Free, Goto, Enter, Leave, Release
<1>1. CASE RecvLock
  BY <1>1 DEF RecvLock, Acquire
<1>2. CASE RestartLock
  BY <1>2 DEF RestartLock, Acquire, CmdStop
<1>3. CASE StartBegin
  BY <1>3 DEF StartBegin
<1>4. CASE StartEnd
  BY <1>4 DEF StartEnd
<1>5. CASE StartRaised
  BY <1>0, <1>5 DEF StartRaised
<1>6. CASE PacketBegin \/ PacketEnd
  BY <1>6 DEF PacketBegin, PacketEnd
<1>7. CASE RecvReturns
  BY <1>7 DEF RecvReturns
<1>8. CASE RecvRaised
  BY <1>0, <1>8 DEF RecvRaised
<1>9. CASE RestartPaused \/ RestartPauseRaised
  BY <1>9 DEF RestartPaused, RestartPauseRaised, StopCmdDone, StopCmdRaised
<1>10. CASE RestartBegin
  BY <1>10 DEF RestartBegin
<1>11. CASE RestartEnd \/ RestartRaised
  BY <1>11 DEF RestartEnd, RestartRaised
<1>12. CASE RxLoop \/ RxOverflow
  BY <1>12 DEF RxLoop, RxOverflow
<1>13. CASE RxFailed \/ FinRequest
  BY <1>13 DEF RxFailed, FinRequest
<1>14. ASSUME NEW t \in Controls, CloseRequest(t) PROVE Locking'
  BY <1>14 DEF CloseRequest
<1>15. ASSUME NEW t \in Threads, CloseLock(t) PROVE Locking'
  BY <1>15 DEF CloseLock, Acquire, CmdStop, Pauses
<1>16. ASSUME NEW t \in Threads, CloseAgain(t) PROVE Locking'
  BY <1>16 DEF CloseAgain, Pauses
<1>17. ASSUME NEW t \in Threads, CloseEnd(t) PROVE Locking'
  BY <1>17 DEF CloseEnd, StopCmdDone
<1>18. ASSUME NEW t \in Threads, CloseRaised(t) PROVE Locking'
  BY <1>0, <1>18 DEF CloseRaised, StopCmdRaised
<1>19. ASSUME NEW t \in Threads, CloseUnlock(t) PROVE Locking'
  BY <1>19 DEF CloseUnlock
<1>20. CASE UNCHANGED vars
  BY <1>20 DEF vars
<1>21. QED
  BY <1>1, <1>2, <1>3, <1>4, <1>5, <1>6, <1>7, <1>8, <1>9, <1>10,
     <1>11, <1>12, <1>13, <1>14, <1>15, <1>16, <1>17, <1>18, <1>19, <1>20
     DEF Next, Receive, Close

\* The stream changes only under the lock.
LEMMA FollowingStep ==
  ASSUME TypeOK, Locking, Following, [Next]_vars
  PROVE  Following'
<1>0. OnRaise \in {"restart", "done", "failed"}
  BY RaiseFacts
<1> USE ControlsAssumption DEF TypeOK, TypeData, TypePC, Locking, Following, Threads,
        Closers, HeldPCs, IdlePCs, LivePCs, flags, Free, Goto, Enter, Leave, Release
<1>1. CASE RecvLock
  BY <1>1 DEF RecvLock, Acquire
<1>2. CASE RestartLock
  BY <1>2 DEF RestartLock, Acquire, CmdStop
<1>3. CASE StartBegin
  BY <1>3 DEF StartBegin
<1>4. CASE StartEnd
  BY <1>4 DEF StartEnd
<1>5. CASE StartRaised
  BY <1>0, <1>5 DEF StartRaised
<1>6. CASE PacketBegin \/ PacketEnd
  BY <1>6 DEF PacketBegin, PacketEnd
<1>7. CASE RecvReturns
  BY <1>7 DEF RecvReturns
<1>8. CASE RecvRaised
  BY <1>0, <1>8 DEF RecvRaised
<1>9. CASE RestartPaused \/ RestartPauseRaised
  BY <1>9 DEF RestartPaused, RestartPauseRaised, StopCmdDone, StopCmdRaised
<1>10. CASE RestartBegin
  BY <1>10 DEF RestartBegin
<1>11. CASE RestartEnd \/ RestartRaised
  BY <1>11 DEF RestartEnd, RestartRaised
<1>12. CASE RxLoop \/ RxOverflow
  BY <1>12 DEF RxLoop, RxOverflow
<1>13. CASE RxFailed \/ FinRequest
  BY <1>13 DEF RxFailed, FinRequest
<1>14. ASSUME NEW t \in Controls, CloseRequest(t) PROVE Following'
  BY <1>14 DEF CloseRequest
<1>15. ASSUME NEW t \in Threads, CloseLock(t) PROVE Following'
  BY <1>15 DEF CloseLock, Acquire, CmdStop, Pauses
<1>16. ASSUME NEW t \in Threads, CloseAgain(t) PROVE Following'
  BY <1>16 DEF CloseAgain, Pauses
<1>17. ASSUME NEW t \in Threads, CloseEnd(t) PROVE Following'
  BY <1>17 DEF CloseEnd, StopCmdDone
<1>18. ASSUME NEW t \in Threads, CloseRaised(t) PROVE Following'
  BY <1>0, <1>18 DEF CloseRaised, StopCmdRaised
<1>19. ASSUME NEW t \in Threads, CloseUnlock(t) PROVE Following'
  BY <1>19 DEF CloseUnlock
<1>20. CASE UNCHANGED vars
  BY <1>20 DEF vars
<1>21. QED
  BY <1>1, <1>2, <1>3, <1>4, <1>5, <1>6, <1>7, <1>8, <1>9, <1>10,
     <1>11, <1>12, <1>13, <1>14, <1>15, <1>16, <1>17, <1>18, <1>19, <1>20
     DEF Next, Receive, Close

\* A stopping device is not started again.
LEMMA StoppedStep ==
  ASSUME TypeOK, Locking, Following, Stopped, [Next]_vars
  PROVE  Stopped'
<1>0. OnRaise \in {"restart", "done", "failed"}
  BY RaiseFacts
<1> USE ControlsAssumption DEF TypeOK, TypeData, TypePC, Locking, Following, Stopped,
        Threads, Closers, HeldPCs, IdlePCs, LivePCs, flags, Free, Goto, Enter, Leave,
        Release
<1>1. CASE RecvLock
  BY <1>1 DEF RecvLock, Acquire
<1>2. CASE RestartLock
  BY <1>2 DEF RestartLock, Acquire, CmdStop
<1>3. CASE StartBegin
  BY <1>3 DEF StartBegin
<1>4. CASE StartEnd
  BY <1>4 DEF StartEnd
<1>5. CASE StartRaised
  BY <1>0, <1>5 DEF StartRaised
<1>6. CASE PacketBegin \/ PacketEnd
  BY <1>6 DEF PacketBegin, PacketEnd
<1>7. CASE RecvReturns
  BY <1>7 DEF RecvReturns
<1>8. CASE RecvRaised
  BY <1>0, <1>8 DEF RecvRaised
<1>9. CASE RestartPaused \/ RestartPauseRaised
  BY <1>9 DEF RestartPaused, RestartPauseRaised, StopCmdDone, StopCmdRaised
<1>10. CASE RestartBegin
  BY <1>10 DEF RestartBegin
<1>11. CASE RestartEnd \/ RestartRaised
  BY <1>11 DEF RestartEnd, RestartRaised
<1>12. CASE RxLoop \/ RxOverflow
  BY <1>12 DEF RxLoop, RxOverflow
<1>13. CASE RxFailed \/ FinRequest
  BY <1>13 DEF RxFailed, FinRequest
<1>14. ASSUME NEW t \in Controls, CloseRequest(t) PROVE Stopped'
  BY <1>14 DEF CloseRequest
<1>15. ASSUME NEW t \in Threads, CloseLock(t) PROVE Stopped'
  BY <1>15 DEF CloseLock, Acquire, CmdStop, Pauses
<1>16. ASSUME NEW t \in Threads, CloseAgain(t) PROVE Stopped'
  BY <1>16 DEF CloseAgain, Pauses
<1>17. ASSUME NEW t \in Threads, CloseEnd(t) PROVE Stopped'
  BY <1>17 DEF CloseEnd, StopCmdDone
<1>18. ASSUME NEW t \in Threads, CloseRaised(t) PROVE Stopped'
  BY <1>0, <1>18 DEF CloseRaised, StopCmdRaised
<1>19. ASSUME NEW t \in Threads, CloseUnlock(t) PROVE Stopped'
  BY <1>19 DEF CloseUnlock
<1>20. CASE UNCHANGED vars
  BY <1>20 DEF vars
<1>21. QED
  BY <1>1, <1>2, <1>3, <1>4, <1>5, <1>6, <1>7, <1>8, <1>9, <1>10,
     <1>11, <1>12, <1>13, <1>14, <1>15, <1>16, <1>17, <1>18, <1>19, <1>20
     DEF Next, Receive, Close

\* The finalizer is the last to touch the device.
LEMMA FinalizingStep ==
  ASSUME IInv, [Next]_vars
  PROVE  Finalizing'
<1>0. OnRaise \in {"restart", "done", "failed"}
  BY RaiseFacts DEF IInv
<1> USE ControlsAssumption DEF IInv, TypeOK, TypeData, TypePC, Locking, Following,
        Stopped, Finalizing, Threads, Closers, HeldPCs, IdlePCs, LivePCs, flags, Free,
        Goto, Enter, Leave, Release
<1>1. CASE RecvLock
  BY <1>1 DEF RecvLock, Acquire
<1>2. CASE RestartLock
  BY <1>2 DEF RestartLock, Acquire, CmdStop
<1>3. CASE StartBegin
  BY <1>3 DEF StartBegin
<1>4. CASE StartEnd
  BY <1>4 DEF StartEnd
<1>5. CASE StartRaised
  BY <1>0, <1>5 DEF StartRaised
<1>6. CASE PacketBegin \/ PacketEnd
  BY <1>6 DEF PacketBegin, PacketEnd
<1>7. CASE RecvReturns
  BY <1>7 DEF RecvReturns
<1>8. CASE RecvRaised
  BY <1>0, <1>8 DEF RecvRaised
<1>9. CASE RestartPaused \/ RestartPauseRaised
  BY <1>9 DEF RestartPaused, RestartPauseRaised, StopCmdDone, StopCmdRaised
<1>10. CASE RestartBegin
  BY <1>10 DEF RestartBegin
<1>11. CASE RestartEnd \/ RestartRaised
  BY <1>11 DEF RestartEnd, RestartRaised
<1>12. CASE RxLoop \/ RxOverflow
  BY <1>12 DEF RxLoop, RxOverflow
<1>13. CASE RxFailed \/ FinRequest
  BY <1>13 DEF RxFailed, FinRequest
<1>14. ASSUME NEW t \in Controls, CloseRequest(t) PROVE Finalizing'
  BY <1>14 DEF CloseRequest
<1>15. ASSUME NEW t \in Threads, CloseLock(t) PROVE Finalizing'
  BY <1>15 DEF CloseLock, Acquire, CmdStop, Pauses
<1>16. ASSUME NEW t \in Threads, CloseAgain(t) PROVE Finalizing'
  BY <1>16 DEF CloseAgain, Pauses
<1>17. ASSUME NEW t \in Threads, CloseEnd(t) PROVE Finalizing'
  BY <1>17 DEF CloseEnd, StopCmdDone
<1>18. ASSUME NEW t \in Threads, CloseRaised(t) PROVE Finalizing'
  BY <1>0, <1>18 DEF CloseRaised, StopCmdRaised
<1>19. ASSUME NEW t \in Threads, CloseUnlock(t) PROVE Finalizing'
  BY <1>19 DEF CloseUnlock
<1>20. CASE UNCHANGED vars
  BY <1>20 DEF vars
<1>21. QED
  BY <1>1, <1>2, <1>3, <1>4, <1>5, <1>6, <1>7, <1>8, <1>9, <1>10,
     <1>11, <1>12, <1>13, <1>14, <1>15, <1>16, <1>17, <1>18, <1>19, <1>20
     DEF Next, Receive, Close

-----------------------------------------------------------------------------
(* The invariant and what follows from it.                                 *)

LEMMA InitIInv == Init => IInv
<1> SUFFICES ASSUME Init PROVE IInv
  OBVIOUS
<1> USE ControlsAssumption, PacketsAssumption DEF Init, Threads, Closers
<1>1. TypeOK
  <2>1. TypeData
    <3>1. got \in 0..(Packets - 1) /\ attempt \in 1..3
      OBVIOUS
    <3>2. /\ preserve \in BOOLEAN /\ running \in BOOLEAN /\ refused \in BOOLEAN
          /\ stopping \in BOOLEAN /\ started \in BOOLEAN /\ live \in BOOLEAN
      OBVIOUS
    <3>3. lock \in Threads \union {Free} /\ native \subseteq Threads
      OBVIOUS
    <3>4. QED
      BY <3>1, <3>2, <3>3 DEF TypeData
  <2>2. TypePC
    BY DEF TypePC, RxPCs, CloserPCs
  <2>3. QED
    BY <2>1, <2>2 DEF TypeOK
<1>2. Locking /\ Following
  BY DEF Locking, Following, HeldPCs, IdlePCs, LivePCs, NativePCs
<1>3. Stopped /\ Finalizing
  BY DEF Stopped, Finalizing
<1>4. QED
  BY <1>1, <1>2, <1>3 DEF IInv

LEMMA NextIInv == IInv /\ [Next]_vars => IInv'
<1> SUFFICES ASSUME IInv, [Next]_vars PROVE IInv'
  OBVIOUS
<1>1. TypeOK'
  BY TypeDataStep, TypePCStep DEF IInv, TypeOK
<1>2. Locking' /\ Following' /\ Stopped'
  BY LockingStep, FollowingStep, StoppedStep DEF IInv
<1>3. QED
  BY <1>1, <1>2, FinalizingStep DEF IInv

\* The inductive invariant holds in every reachable state.
THEOREM Invariance == Spec => []IInv
  BY InitIInv, NextIInv, PTL DEF Spec

\* Type correctness: a chunk never asks for more packets than it has room for.
THEOREM TypeCorrect == Spec => []TypeOK
<1>1. IInv => TypeOK
  BY DEF IInv
<1>2. QED
  BY <1>1, Invariance, PTL

\* Native calls never overlap on the streamer, whatever the number of callers of
\* stop() (recv_chunk, restart_stream, stop, pause_stream under _stream_lock).
THEOREM NativeCallsExclude == Spec => []NativeExclusive
<1>1. IInv => NativeExclusive
  BY DEF IInv, TypeOK, TypeData, Locking, NativeExclusive, HeldPCs, IdlePCs, LivePCs, NativePCs
<1>2. QED
  BY <1>1, Invariance, PTL

\* start_cont meets an idle stream and stop_cont a live one.
THEOREM StreamCommandsAlternate == Spec => []CommandsAlternate
<1>1. IInv => CommandsAlternate
  BY DEF IInv, Following, CommandsAlternate, IdlePCs, LivePCs, Threads
<1>2. QED
  BY <1>1, Invariance, PTL

\* One native call at a time, and the right one for the state of the stream.
THEOREM StreamerSafety == Spec => []StreamerIsSafe
<1>1. TypeOK /\ NativeExclusive /\ CommandsAlternate => StreamerIsSafe
  BY DEF StreamerIsSafe
<1>2. QED
  BY <1>1, TypeCorrect, NativeCallsExclude, StreamCommandsAlternate, PTL

\* Nothing streams once receiver and finalizer are through, unless UHD refused a
\* stop command.
THEOREM DeviceEndsQuiet == Spec => []QuietAtEnd
<1>1. IInv => QuietAtEnd
  BY DEF IInv, Finalizing, QuietAtEnd
<1>2. QED
  BY <1>1, Invariance, PTL

-----------------------------------------------------------------------------
(* The device implements the controlled stream: a stop is final.           *)

Stream == IF live THEN "live" ELSE IF stopping THEN "closed" ELSE "idle"

LEMMA ControlInit == Init => SC!Init
  BY DEF Init, SC!Init

LEMMA ControlStep == IInv /\ [Next]_vars => [SC!Next]_Stream
<1> SUFFICES ASSUME IInv, [Next]_vars PROVE [SC!Next]_Stream
  OBVIOUS
<1>1. CASE live' = live /\ stopping' = stopping
  BY <1>1 DEF Stream
<1>2. CASE StartEnd \/ RestartEnd
  <2>1. ~live /\ live' /\ ~stopping /\ stopping' = stopping
    BY <1>2, ControlsAssumption DEF IInv, TypeOK, TypeData, TypePC, Following, Stopped, Threads,
       StartEnd, RestartEnd, Goto, HeldPCs, IdlePCs, LivePCs, flags
  <2>2. QED
    BY <2>1 DEF SC!Next, SC!Start, Stream
<1>3. ASSUME ~live', stopping' = stopping PROVE [SC!Next]_Stream
  BY <1>3 DEF SC!Next, SC!Pause, SC!Close, Stream
<1>4. ASSUME NEW t \in Threads, CloseLock(t) PROVE [SC!Next]_Stream
  <2>1. live' = live /\ (stopping => stopping')
    BY <1>4 DEF CloseLock
  <2>2. QED
    BY <2>1, IInv DEF SC!Next, SC!Close, Stream, IInv, TypeOK, TypeData
<1>5. CASE RestartPaused
  BY <1>3, <1>5 DEF RestartPaused, StopCmdDone
<1>6. ASSUME NEW t \in Threads, CloseEnd(t) PROVE [SC!Next]_Stream
  BY <1>3, <1>6 DEF CloseEnd, StopCmdDone
<1>7. CASE \/ RecvLock \/ StartBegin \/ StartRaised \/ PacketBegin \/ PacketEnd
           \/ RecvReturns \/ RecvRaised
  BY <1>1, <1>7 DEF RecvLock, StartBegin, StartRaised, PacketBegin, PacketEnd, RecvReturns, RecvRaised
<1>8. CASE \/ RestartLock \/ RestartPauseRaised \/ RestartBegin \/ RestartRaised
           \/ RxLoop \/ RxOverflow \/ RxFailed \/ FinRequest
  BY <1>1, <1>8 DEF RestartLock, RestartPauseRaised, StopCmdRaised, RestartBegin, RestartRaised,
     RxLoop, RxOverflow, RxFailed, FinRequest
<1>9. ASSUME NEW t \in Threads, CloseRequest(t) \/ CloseAgain(t) \/ CloseRaised(t) \/ CloseUnlock(t)
      PROVE  [SC!Next]_Stream
  BY <1>1, <1>9 DEF CloseRequest, CloseAgain, CloseRaised, StopCmdRaised, CloseUnlock
<1>10. CASE UNCHANGED vars
  BY <1>1, <1>10 DEF vars
<1>11. QED
  BY <1>2, <1>4, <1>5, <1>6, <1>7, <1>8, <1>9, <1>10 DEF Next, Receive, Close, Threads, Closers

\* Every behaviour of the device, with any number of callers, is one of the
\* controlled stream.
THEOREM ImplementsStreamControl == Spec => StreamControlSpec
<1>1. Spec => [][SC!Next]_Stream
  BY ControlStep, Invariance, PTL DEF Spec
<1>2. QED
  BY <1>1, ControlInit, PTL DEF Spec, StreamControlSpec, SC!Spec, Stream
=============================================================================
