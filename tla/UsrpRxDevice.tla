---------------------------- MODULE UsrpRxDevice ----------------------------
(***************************************************************************)
(* UsrpRxDevice (radio/usrp/device.py) and the threads of the backend that *)
(* call it.  UHD does not promise that recv() and stream commands may run  *)
(* concurrently on one streamer, so every native call is made under        *)
(* _stream_lock; a native call therefore has a beginning and an end here.  *)
(*                                                                         *)
(* The receiver is the thread of run() while it primes the stream          *)
(* (_prime_usrp_rx_startup) and the RX thread after that.  The controls    *)
(* are callers of BackendRuntime.stop, "fin" is the finalizer of run().    *)
(* A chunk takes up to Packets native receives.                            *)
(***************************************************************************)
EXTENDS Naturals, FiniteSets

CONSTANTS Controls, Packets

Free == "free"

ASSUME ControlsAssumption == {"rx", "fin", Free} \cap Controls = {}
ASSUME PacketsAssumption == Packets \in Nat \ {0}

Closers == Controls \union {"fin"}
Threads == Closers \union {"rx"}

VARIABLES
  preserve,   \* config.preserve_usrp_session_on_stop
  running,    \* BackendRuntime._running
  lock,       \* holder of _stream_lock
  stopping,   \* _stopping
  started,    \* _started
  live,       \* the hardware streams
  native,     \* threads inside a native call
  got,        \* packets assembled of the current chunk
  attempt,    \* 1, 2: attempts of the startup probe; 3: the RX loop
  refused,    \* UHD raised on a stop command
  pc

flags == <<preserve, running, refused>>
vars  == <<flags, lock, stopping, started, live, native, got, attempt, pc>>

Init ==
  /\ preserve \in BOOLEAN
  /\ running = TRUE /\ refused = FALSE
  /\ lock = Free /\ stopping = FALSE /\ started = FALSE
  /\ live = FALSE /\ native = {}
  /\ got = 0 /\ attempt = 1
  /\ pc = [t \in Threads |-> IF t = "rx" THEN "recv" ELSE "idle"]

Goto(t, from, to) == pc[t] = from /\ pc' = [pc EXCEPT ![t] = to]

Acquire(t) == lock = Free /\ lock' = t
Release == lock' = Free
Enter(t) == native' = native \union {t}
Leave(t) == native' = native \ {t}

\* Where the receiver goes when a device call raised: the first probe retries
\* after a restart, the second fails the run, the RX loop stops the device.
OnRaise == CASE attempt = 1 -> "restart" [] attempt = 2 -> "done" [] attempt = 3 -> "failed"

-----------------------------------------------------------------------------
(* The stream commands, issued with the lock held.                         *)

\* A stop_cont is issued only on a started stream.
CmdStop(t, from, to, otherwise) ==
  /\ Goto(t, from, IF started THEN to ELSE otherwise)
  /\ native' = IF started THEN native \union {t} ELSE native

\* _pause_stream_locked after the command.
StopCmdDone(t) ==
  /\ Leave(t) /\ live' = FALSE /\ started' = FALSE /\ UNCHANGED refused

\* UHD raised: the command had no effect.
StopCmdRaised(t) ==
  /\ Leave(t) /\ refused' = TRUE /\ UNCHANGED <<live, started>>

-----------------------------------------------------------------------------
(* recv_chunk.                                                             *)

\* Fault: a stopped device may be received from.
RecvLockAnyway ==
  /\ Goto("rx", "recv", IF started THEN "packet" ELSE "start")
  /\ Acquire("rx")
  /\ got' = 0
  /\ UNCHANGED <<flags, stopping, started, live, native, attempt>>

\* Take the lock; a stopped device returns an empty chunk.
RecvLock ==
  /\ IF stopping
       THEN lock = Free /\ Goto("rx", "recv", "loop") /\ UNCHANGED lock
       ELSE Acquire("rx") /\ Goto("rx", "recv", IF started THEN "packet" ELSE "start")
  /\ attempt' = IF stopping THEN 3 ELSE attempt
  /\ got' = 0
  /\ UNCHANGED <<flags, stopping, started, live, native>>

\* _issue_start_cont, from recv_chunk or from restart_stream.
StartBegin ==
  /\ Goto("rx", "start", "starting")
  /\ Enter("rx")
  /\ UNCHANGED <<flags, lock, stopping, started, live, got, attempt>>

\* recv_chunk goes on to receive; restart_stream returns to the probe.
StartEnd ==
  /\ Goto("rx", "starting", "packet")
  /\ Leave("rx") /\ live' = TRUE /\ started' = TRUE
  /\ UNCHANGED <<flags, lock, stopping, got, attempt>>

StartRaised ==
  /\ Goto("rx", "starting", OnRaise)
  /\ Leave("rx") /\ Release
  /\ UNCHANGED <<flags, stopping, started, live, got, attempt>>

\* One native recv of at most get_max_num_samps samples.
PacketBegin ==
  /\ Goto("rx", "packet", "receiving")
  /\ Enter("rx")
  /\ UNCHANGED <<flags, lock, stopping, started, live, got, attempt>>

\* Samples arrived and the chunk is not complete.
PacketEnd ==
  /\ got + 1 < Packets
  /\ Goto("rx", "receiving", "packet")
  /\ Leave("rx") /\ got' = got + 1
  /\ UNCHANGED <<flags, lock, stopping, started, live, attempt>>

\* The chunk is complete, or an overflow, timeout or other error ends it.
RecvReturns ==
  /\ \E to \in (IF attempt = 3 THEN {"loop", "overflow"} ELSE {"loop"}) :
       Goto("rx", "receiving", to)
  /\ Leave("rx") /\ Release
  /\ attempt' = 3
  /\ UNCHANGED <<flags, stopping, started, live, got>>

RecvRaised ==
  /\ Goto("rx", "receiving", OnRaise)
  /\ Leave("rx") /\ Release
  /\ UNCHANGED <<flags, stopping, started, live, got, attempt>>

-----------------------------------------------------------------------------
(* restart_stream, called once by the startup probe.                       *)

RestartLock ==
  /\ IF stopping
       THEN lock = Free /\ Goto("rx", "restart", "recv") /\ UNCHANGED <<lock, native>>
       ELSE Acquire("rx") /\ CmdStop("rx", "restart", "pausing", "restarting")
  /\ attempt' = 2
  /\ UNCHANGED <<flags, stopping, started, live, got>>

RestartPaused ==
  /\ Goto("rx", "pausing", "restarting")
  /\ StopCmdDone("rx")
  /\ UNCHANGED <<preserve, running, lock, stopping, got, attempt>>

\* The probe gives up when the streamer cannot be restarted.
RestartPauseRaised ==
  /\ Goto("rx", "pausing", "done")
  /\ StopCmdRaised("rx") /\ Release
  /\ UNCHANGED <<preserve, running, stopping, got, attempt>>

RestartBegin ==
  /\ Goto("rx", "restarting", "restarted")
  /\ Enter("rx")
  /\ UNCHANGED <<flags, lock, stopping, started, live, got, attempt>>

RestartEnd ==
  /\ Goto("rx", "restarted", "recv")
  /\ Leave("rx") /\ Release /\ live' = TRUE /\ started' = TRUE
  /\ UNCHANGED <<flags, stopping, got, attempt>>

RestartRaised ==
  /\ Goto("rx", "restarted", "done")
  /\ Leave("rx") /\ Release
  /\ UNCHANGED <<flags, stopping, started, live, got, attempt>>

-----------------------------------------------------------------------------
(* The RX loop around recv_chunk.                                          *)

\* Fault: the loop never looks at _running.
RxLoopForever ==
  /\ Goto("rx", "loop", "recv")
  /\ UNCHANGED <<flags, lock, stopping, started, live, native, got, attempt>>

RxLoop ==
  /\ Goto("rx", "loop", IF running THEN "recv" ELSE "done")
  /\ UNCHANGED <<flags, lock, stopping, started, live, native, got, attempt>>

\* Below the limit the loop goes on; at the limit it stops the device, as
\* _failed_stop does after recv_chunk raised.
RxOverflow ==
  /\ \E to \in {"loop", "failed"} : Goto("rx", "overflow", to)
  /\ UNCHANGED <<flags, lock, stopping, started, live, native, got, attempt>>

RxFailed ==
  /\ Goto("rx", "failed", "close")
  /\ running' = FALSE
  /\ UNCHANGED <<preserve, refused, lock, stopping, started, live, native, got, attempt>>

-----------------------------------------------------------------------------
(* stop and pause_stream.                                                  *)

\* BackendRuntime.stop clears _running before it touches the device.
CloseRequest(t) ==
  /\ t \in Controls
  /\ Goto(t, "idle", "close")
  /\ running' = FALSE
  /\ UNCHANGED <<preserve, refused, lock, stopping, started, live, native, got, attempt>>

\* Fault: the finalizer does not join the receiver.
FinRequestEarly ==
  /\ Goto("fin", "idle", "close")
  /\ running' = FALSE
  /\ UNCHANGED <<preserve, refused, lock, stopping, started, live, native, got, attempt>>

\* run() left its main loop or failed, and the receiver was joined.
FinRequest ==
  /\ pc["rx"] = "done"
  /\ Goto("fin", "idle", "close")
  /\ running' = FALSE
  /\ UNCHANGED <<preserve, refused, lock, stopping, started, live, native, got, attempt>>

\* A control and the finalizer pause a preserved session; the RX thread always
\* stops the device.
Pauses(t) == preserve /\ t # "rx"

\* Fault: the streamer is stopped while another thread may be inside it.
CloseWithoutLock(t) ==
  /\ t \in Threads
  /\ ~(stopping /\ ~Pauses(t))
  /\ lock' = t
  /\ stopping' = (stopping \/ ~Pauses(t))
  /\ CmdStop(t, "close", "closing", "unlock")
  /\ UNCHANGED <<flags, started, live, got, attempt>>

CloseLock(t) ==
  /\ t \in Threads
  /\ ~(stopping /\ ~Pauses(t))
  /\ Acquire(t)
  /\ stopping' = (stopping \/ ~Pauses(t))
  /\ CmdStop(t, "close", "closing", "unlock")
  /\ UNCHANGED <<flags, started, live, got, attempt>>

\* Already stopping: return at once.
CloseAgain(t) ==
  /\ t \in Threads
  /\ lock = Free /\ stopping /\ ~Pauses(t)
  /\ Goto(t, "close", "done")
  /\ UNCHANGED <<flags, lock, stopping, started, live, native, got, attempt>>

CloseEnd(t) ==
  /\ t \in Threads
  /\ Goto(t, "closing", "unlock")
  /\ StopCmdDone(t)
  /\ UNCHANGED <<preserve, running, lock, stopping, got, attempt>>

\* The callers swallow the exception.
CloseRaised(t) ==
  /\ t \in Threads
  /\ Goto(t, "closing", "unlock")
  /\ StopCmdRaised(t)
  /\ UNCHANGED <<preserve, running, lock, stopping, got, attempt>>

CloseUnlock(t) ==
  /\ t \in Threads
  /\ Goto(t, "unlock", "done")
  /\ Release
  /\ UNCHANGED <<flags, stopping, started, live, native, got, attempt>>

-----------------------------------------------------------------------------
Close(t) == \/ CloseLock(t) \/ CloseAgain(t) \/ CloseEnd(t) \/ CloseRaised(t)
            \/ CloseUnlock(t)

Receive == \/ RecvLock \/ StartBegin \/ StartEnd \/ StartRaised
           \/ PacketBegin \/ PacketEnd \/ RecvReturns \/ RecvRaised
           \/ RestartLock \/ RestartPaused \/ RestartPauseRaised
           \/ RestartBegin \/ RestartEnd \/ RestartRaised
           \/ RxLoop \/ RxOverflow \/ RxFailed \/ Close("rx")

Next == \/ Receive \/ FinRequest
        \/ \E t \in Controls : CloseRequest(t)
        \/ \E t \in Closers : Close(t)

Spec == Init /\ [][Next]_vars

\* Native calls return (UHD's recv has a timeout), and a thread gets a lock
\* that stays free; Python's lock is not fair, so nothing more is assumed.
FairSpec == /\ Spec
            /\ WF_vars(Receive) /\ WF_vars(FinRequest)
            /\ \A t \in Closers : WF_vars(Close(t))

-----------------------------------------------------------------------------
(* Properties.                                                             *)

RxPCs == {"recv", "start", "starting", "packet", "receiving", "restart", "pausing",
          "restarting", "restarted", "loop", "overflow", "failed",
          "close", "closing", "unlock", "done"}
CloserPCs == {"idle", "close", "closing", "unlock", "done"}

TypeData == /\ preserve \in BOOLEAN /\ running \in BOOLEAN /\ refused \in BOOLEAN
            /\ stopping \in BOOLEAN /\ started \in BOOLEAN /\ live \in BOOLEAN
            /\ lock \in Threads \union {Free} /\ native \subseteq Threads
            /\ got \in 0..(Packets - 1) /\ attempt \in 1..3

TypePC == /\ pc \in [Threads -> RxPCs \union CloserPCs]
          /\ pc["rx"] \in RxPCs /\ \A t \in Closers : pc[t] \in CloserPCs

\* Every variable has its type.
TypeOK == TypeData /\ TypePC

\* recv() and the stream commands never overlap on the streamer, however the
\* controls, the RX thread and the finalizer interleave.
NativeExclusive == \A t, u \in native : t = u

\* start_cont is issued on an idle stream and stop_cont on a live one, so the
\* hardware never sees the same command twice in a row (one native stop for
\* many concurrent stops).
CommandsAlternate ==
  /\ pc["rx"] \in {"starting", "restarted"} => ~live
  /\ \A t \in Closers : pc[t] = "closing" => live
  /\ pc["rx"] \in {"pausing", "closing"} => live

\* Once every thread is through, nothing streams, although in a preserved
\* session the RX thread may have restarted the stream a control had paused:
\* unless UHD refused the stop command.
QuietAtEnd == (\A t \in {"rx", "fin"} : pc[t] = "done") => ~live \/ refused

\* One native call at a time, and the right one for the state of the stream.
StreamerIsSafe == TypeOK /\ NativeExclusive /\ CommandsAlternate

\* Seen from outside, the device is the controlled stream: a stop is final.
SC == INSTANCE StreamControl WITH
        stream <- IF live THEN "live" ELSE IF stopping THEN "closed" ELSE "idle"
StreamControlSpec == SC!Spec

\* A cleared _running ends the receiver and lets every close through, although
\* the RX thread takes the lock again and again as long as it runs.
CloseCompletes ==
  ~running ~> \A t \in Threads : pc[t] \in {"idle", "done"} /\ pc["fin"] = "done"
=============================================================================
