----------------------------- MODULE GnssHandoff -----------------------------
(***************************************************************************)
(* The ordered handoff of received IQ chunks to GNSS-SDR                   *)
(* (runtime/backend.py): the RX thread publishes every chunk on a bounded  *)
(* queue, the handoff thread combines it and writes it to the FIFO of the  *)
(* bridge, and any failure of the pipeline detaches queue and bridge and   *)
(* stops the bridge once, while the SDR stream goes on.  The control       *)
(* thread (BackendRuntime.stop) and the finalizer of run() tear the same   *)
(* state down concurrently.                                                *)
(*                                                                         *)
(* A chunk is its receive number.  One run of the backend is modelled,     *)
(* from the moment its threads are started.  MaxChunks bounds what the RX  *)
(* thread receives; Cap is gnss_feed_queue_maxsize.                        *)
(***************************************************************************)
EXTENDS Naturals, Sequences

CONSTANTS Cap, MaxChunks

ASSUME CapAssumption == Cap \in Nat \ {0}
ASSUME MaxChunksAssumption == MaxChunks \in Nat

Threads == {"rx", "handoff", "ctl", "fin"}

NoThread == "nobody"

\* The value put on the queue to wake the handoff thread up (Python's None).
Sentinel == 0

VARIABLES
  running,     \* _running
  queueRef,    \* _gnss_raw_queue is not None
  bridgeRef,   \* _gnss_bridge is not None
  failed,      \* _gnss_pipeline_failed
  rawQueue,    \* contents of the run's raw queue, whoever still references it
  rawDrops,    \* _gnss_raw_drops
  fifoLock,    \* holder of the bridge's _fifo_lock
  fifoOpen,    \* the bridge's _fifo_fds are open
  proc,        \* GNSS-SDR: "alive", "exited", or "none" once _proc is None
  torn,        \* a write failed after some bytes of its chunk were written
  rxCount,     \* _raw_chunk_count: the number of the last received chunk
  cur,         \* the chunk the handoff thread works on
  written,     \* the chunks the FIFO carried completely, oldest first
  samples,     \* _gnss_fifo_samples_written, in chunks
  monitored,   \* what the phase monitor was given: <<sample_start, chunk>>
  pc,          \* where each thread is
  hasQueue,    \* a thread's local reference to the queue
  hasBridge    \* a thread's local reference to the bridge

data    == <<rawQueue, rawDrops, rxCount, cur, written, samples, monitored>>
refs    == <<running, queueRef, bridgeRef, failed>>
bridge  == <<fifoLock, fifoOpen, proc, torn>>
locals  == <<hasQueue, hasBridge>>
vars    == <<data, refs, bridge, pc, locals>>

Init ==
  /\ running = TRUE /\ queueRef = TRUE /\ bridgeRef = TRUE /\ failed = FALSE
  /\ rawQueue = << >> /\ rawDrops = 0
  /\ fifoLock = NoThread /\ fifoOpen = TRUE /\ proc = "alive" /\ torn = FALSE
  /\ rxCount = 0 /\ cur = Sentinel
  /\ written = << >> /\ samples = 0 /\ monitored = {}
  /\ pc = [t \in Threads |-> "loop"]
  /\ hasQueue = [t \in Threads |-> FALSE]
  /\ hasBridge = [t \in Threads |-> FALSE]

Goto(t, from, to) == pc[t] = from /\ pc' = [pc EXCEPT ![t] = to]

\* GnssSdrBridge.active
Active == fifoOpen /\ proc = "alive"

\* put_nowait on the raw queue; Full leaves it as it is.
IsFull == Len(rawQueue) >= Cap
PutSentinelNowait ==
  rawQueue' = IF IsFull THEN rawQueue ELSE Append(rawQueue, Sentinel)

-----------------------------------------------------------------------------
(* GnssSdrBridge.stop, called by any thread: close the descriptors under   *)
(* the FIFO lock, then terminate and forget the process.                   *)

BridgeClose(t) ==
  /\ Goto(t, "close", "reap")
  /\ fifoLock = NoThread
  /\ fifoOpen' = FALSE
  /\ UNCHANGED <<data, refs, fifoLock, proc, torn, locals>>

\* Where the caller of bridge.stop continues.
AfterStop(t) == IF t = "rx" THEN "join" ELSE IF t = "fin" THEN "detach" ELSE "done"

BridgeReap(t) ==
  /\ Goto(t, "reap", AfterStop(t))
  /\ proc' = "none"
  /\ UNCHANGED <<data, refs, fifoLock, fifoOpen, torn, locals>>

-----------------------------------------------------------------------------
(* _handle_gnss_pipeline_error, called by the RX and the handoff thread.   *)

\* Under _gnss_failure_lock: the first caller detaches queue and bridge, a
\* later one returns.  The handler returns to the RX loop, and ends the
\* handoff thread.
ErrDetach(t) ==
  /\ pc[t] = "error"
  /\ IF failed
       THEN /\ pc' = [pc EXCEPT ![t] = IF t = "rx" THEN "loop" ELSE "done"]
            /\ UNCHANGED <<refs, locals>>
       ELSE /\ pc' = [pc EXCEPT ![t] = "wake"]
            /\ failed' = TRUE
            /\ hasQueue' = [hasQueue EXCEPT ![t] = queueRef]
            /\ hasBridge' = [hasBridge EXCEPT ![t] = bridgeRef]
            /\ queueRef' = FALSE
            /\ bridgeRef' = FALSE
            /\ UNCHANGED running
  /\ UNCHANGED <<data, bridge>>

\* Fault: the handler pauses the handoff but never stops the bridge.
ErrWakeWithoutStop(t) ==
  /\ Goto(t, "wake", AfterStop(t))
  /\ IF hasQueue[t] THEN PutSentinelNowait ELSE UNCHANGED rawQueue
  /\ UNCHANGED <<rawDrops, rxCount, cur, written, samples, monitored,
                 refs, bridge, locals>>

\* Wake the handoff thread up, if the queue has room for it.
ErrWake(t) ==
  /\ Goto(t, "wake", IF hasBridge[t] THEN "close" ELSE AfterStop(t))
  /\ IF hasQueue[t] THEN PutSentinelNowait ELSE UNCHANGED rawQueue
  /\ UNCHANGED <<rawDrops, rxCount, cur, written, samples, monitored,
                 refs, bridge, locals>>

\* thread.join(timeout=0.5): the handoff thread ended, or the time is over.
RxErrJoin ==
  /\ Goto("rx", "join", "loop")
  /\ UNCHANGED <<data, refs, bridge, locals>>

-----------------------------------------------------------------------------
(* The RX thread: _rx_drain_loop.                                          *)

\* recv_chunk returned samples.  (A receive without samples changes nothing.)
RxRecv ==
  /\ running
  /\ rxCount < MaxChunks
  /\ Goto("rx", "loop", "readQueue")
  /\ rxCount' = rxCount + 1
  /\ UNCHANGED <<rawQueue, rawDrops, cur, written, samples, monitored,
                 refs, bridge, locals>>

RxExit ==
  /\ ~running
  /\ Goto("rx", "loop", "done")
  /\ UNCHANGED <<data, refs, bridge, locals>>

\* recv_chunk raised, or the overflow limit was reached: _failed_stop and the
\* auto-stop clear _running and end the thread.
RxFail ==
  /\ Goto("rx", "loop", "done")
  /\ running' = FALSE
  /\ UNCHANGED <<data, queueRef, bridgeRef, failed, bridge, locals>>

\* rq = self._gnss_raw_queue
RxReadQueue ==
  /\ Goto("rx", "readQueue", "readBridge")
  /\ hasQueue' = [hasQueue EXCEPT !["rx"] = queueRef]
  /\ UNCHANGED <<data, refs, bridge, hasBridge>>

\* bridge = self._gnss_bridge; publish only if the bridge is active.
RxReadBridge ==
  /\ Goto("rx", "readBridge",
          IF hasQueue["rx"] /\ bridgeRef /\ Active THEN "publish" ELSE "loop")
  /\ UNCHANGED <<data, refs, bridge, locals>>

\* Fault: a full queue loses its oldest chunk, as the DSP queues do.
RxPublishLatest ==
  /\ Goto("rx", "publish", "loop")
  /\ rawQueue' = Append(IF IsFull THEN Tail(rawQueue) ELSE rawQueue, rxCount)
  /\ rawDrops' = rawDrops
  /\ UNCHANGED <<rxCount, cur, written, samples, monitored, refs, bridge, locals>>

\* _publish_gnss_raw_chunk: put_nowait on the queue read before; Full is
\* recorded and handled as a pipeline error.
RxPublish ==
  /\ Goto("rx", "publish", IF IsFull THEN "error" ELSE "loop")
  /\ rawQueue' = IF IsFull THEN rawQueue ELSE Append(rawQueue, rxCount)
  /\ rawDrops' = IF IsFull THEN rawDrops + 1 ELSE rawDrops
  /\ UNCHANGED <<rxCount, cur, written, samples, monitored, refs, bridge, locals>>

-----------------------------------------------------------------------------
(* The handoff thread: _gnss_beamform_loop.                                *)

HandoffLoop ==
  /\ Goto("handoff", "loop", IF queueRef THEN "get" ELSE "done")
  /\ UNCHANGED <<data, refs, bridge, locals>>

\* raw_q.get(timeout=0.25) returned an item.
HandoffGet ==
  /\ rawQueue # << >>
  /\ Goto("handoff", "get", IF Head(rawQueue) = Sentinel THEN "done" ELSE "check")
  /\ cur' = Head(rawQueue)
  /\ rawQueue' = Tail(rawQueue)
  /\ UNCHANGED <<rawDrops, rxCount, written, samples, monitored, refs, bridge, locals>>

\* Fault: get() without a timeout never looks at _running again.
HandoffGetBlocks == FALSE /\ UNCHANGED vars

\* Fault: an empty queue ends the thread although the receiver runs.
HandoffTimeoutBreaks ==
  /\ rawQueue = << >>
  /\ Goto("handoff", "get", "done")
  /\ UNCHANGED <<data, refs, bridge, locals>>

\* raw_q.get raised Empty.
HandoffTimeout ==
  /\ rawQueue = << >>
  /\ Goto("handoff", "get", IF running THEN "loop" ELSE "done")
  /\ UNCHANGED <<data, refs, bridge, locals>>

HandoffCheck ==
  /\ Goto("handoff", "check", IF bridgeRef /\ Active THEN "combine" ELSE "done")
  /\ UNCHANGED <<data, refs, bridge, locals>>

\* _gnss_output_vector raised: the chunk is not written.
HandoffCombineFails ==
  /\ Goto("handoff", "combine", "error")
  /\ UNCHANGED <<data, refs, bridge, locals>>

\* bridge.write takes the FIFO lock; without open descriptors it returns
\* False, which the loop turns into a RuntimeError.
HandoffLock ==
  /\ fifoLock = NoThread
  /\ Goto("handoff", "combine", IF fifoOpen THEN "write" ELSE "error")
  /\ fifoLock' = IF fifoOpen THEN "handoff" ELSE NoThread
  /\ UNCHANGED <<data, refs, fifoOpen, proc, torn, locals>>

\* Every source of every stripe was written.
HandoffWrite ==
  /\ proc = "alive"
  /\ Goto("handoff", "write", "submit")
  /\ written' = Append(written, cur)
  /\ fifoLock' = NoThread
  /\ UNCHANGED <<rawQueue, rawDrops, rxCount, cur, samples, monitored,
                 refs, fifoOpen, proc, torn, locals>>

\* Fault: a failed write is swallowed and the next chunk follows.
HandoffWriteFailsSilently ==
  /\ Goto("handoff", "write", "loop")
  /\ torn' \in {torn, TRUE}
  /\ fifoLock' = NoThread
  /\ UNCHANGED <<data, refs, fifoOpen, proc, locals>>

\* A reader stalled for longer than the stripe deadline or disconnected; part
\* of the chunk may be in the FIFO.
HandoffWriteFails ==
  /\ Goto("handoff", "write", "error")
  /\ torn' \in {torn, TRUE}
  /\ fifoLock' = NoThread
  /\ UNCHANGED <<data, refs, fifoOpen, proc, locals>>

\* Fault: the counter moves on before the chunk is submitted.
HandoffSubmitLate ==
  /\ Goto("handoff", "submit", "loop")
  /\ monitored' \in {monitored, monitored \union {<<samples + 1, cur>>}}
  /\ samples' = samples + 1
  /\ UNCHANGED <<rawQueue, rawDrops, rxCount, cur, written, refs, bridge, locals>>

\* monitor.submit(sample_start, chunk, ...) if there is a monitor, then the
\* sample counter moves on.
HandoffSubmit ==
  /\ Goto("handoff", "submit", "loop")
  /\ monitored' \in {monitored, monitored \union {<<samples, cur>>}}
  /\ samples' = samples + 1
  /\ UNCHANGED <<rawQueue, rawDrops, rxCount, cur, written, refs, bridge, locals>>

-----------------------------------------------------------------------------
(* The control thread: BackendRuntime.stop.                                *)

StopRequest ==
  /\ Goto("ctl", "loop", "takeBridge")
  /\ running' = FALSE
  /\ UNCHANGED <<data, queueRef, bridgeRef, failed, bridge, locals>>

\* Under _gnss_failure_lock.
StopTakeBridge ==
  /\ Goto("ctl", "takeBridge", IF bridgeRef THEN "close" ELSE "done")
  /\ hasBridge' = [hasBridge EXCEPT !["ctl"] = bridgeRef]
  /\ bridgeRef' = FALSE
  /\ UNCHANGED <<data, running, queueRef, failed, bridge, hasQueue>>

-----------------------------------------------------------------------------
(* The finalizer of run().                                                 *)

\* The main loop saw _running cleared, or raised; joining the RX thread
\* (2 s) may time out.
FinBegin ==
  /\ Goto("fin", "loop", "wake")
  /\ running' = FALSE
  /\ UNCHANGED <<data, queueRef, bridgeRef, failed, bridge, locals>>

FinWake ==
  /\ Goto("fin", "wake", "dropQueue")
  /\ IF queueRef THEN PutSentinelNowait ELSE UNCHANGED rawQueue
  /\ UNCHANGED <<rawDrops, rxCount, cur, written, samples, monitored,
                 refs, bridge, locals>>

\* The join of the handoff thread (4 s) returned or timed out.
FinDropQueue ==
  /\ Goto("fin", "dropQueue", "checkBridge")
  /\ queueRef' = FALSE
  /\ UNCHANGED <<data, running, bridgeRef, failed, bridge, locals>>

\* if self._gnss_bridge is not None
FinCheckBridge ==
  /\ Goto("fin", "checkBridge", IF bridgeRef THEN "deref" ELSE "detach")
  /\ UNCHANGED <<data, refs, bridge, locals>>

\* self._gnss_bridge.stop(...): read again, and None by now if another thread
\* detached the bridge in between - then the finalizer dies of it.
FinDeref ==
  /\ Goto("fin", "deref", IF bridgeRef THEN "close" ELSE "crashed")
  /\ hasBridge' = [hasBridge EXCEPT !["fin"] = bridgeRef]
  /\ UNCHANGED <<data, refs, bridge, hasQueue>>

FinDetach ==
  /\ Goto("fin", "detach", "done")
  /\ bridgeRef' = FALSE
  /\ UNCHANGED <<data, running, queueRef, failed, bridge, locals>>

-----------------------------------------------------------------------------
\* GNSS-SDR exits on its own.
ProcExit ==
  /\ proc = "alive"
  /\ proc' = "exited"
  /\ UNCHANGED <<data, refs, fifoLock, fifoOpen, torn, pc, locals>>

BridgeStop(t) == BridgeClose(t) \/ BridgeReap(t)
PipelineError(t) == ErrDetach(t) \/ ErrWake(t)

RxNext == \/ RxRecv \/ RxExit \/ RxReadQueue \/ RxReadBridge \/ RxPublish
          \/ RxErrJoin \/ PipelineError("rx") \/ BridgeStop("rx")

HandoffNext == \/ HandoffLoop \/ HandoffGet \/ HandoffTimeout \/ HandoffCheck
               \/ HandoffLock \/ HandoffWrite \/ HandoffWriteFails \/ HandoffSubmit
               \/ HandoffCombineFails \/ PipelineError("handoff") \/ BridgeStop("handoff")

StopNext == StopTakeBridge \/ BridgeStop("ctl")

FinNext == \/ FinWake \/ FinDropQueue \/ FinCheckBridge \/ FinDeref \/ FinDetach
           \/ BridgeStop("fin")

Next == \/ RxNext \/ RxFail \/ HandoffNext
        \/ StopRequest \/ StopNext \/ FinBegin \/ FinNext \/ ProcExit

Spec == Init /\ [][Next]_vars

\* Every thread that can run does: each blocking call in the code is bounded
\* (queue get 0.25 s, FIFO stripe deadline 0.25 s, joins 0.5/2/4 s).  Nothing
\* forces an operator to stop, a failure, or GNSS-SDR to exit; the main loop
\* of run() polls _running and starts the finalizer.
Fairness ==
  /\ WF_vars(RxNext) /\ WF_vars(HandoffNext)
  /\ WF_vars(StopNext) /\ WF_vars(FinNext) /\ WF_vars(~running /\ FinBegin)

FairSpec == Spec /\ Fairness

-----------------------------------------------------------------------------
(* Properties.                                                             *)

RxPCs == {"loop", "readQueue", "readBridge", "publish", "error", "wake",
          "close", "reap", "join", "done"}
HandoffPCs == {"loop", "get", "check", "combine", "write", "submit", "error",
               "wake", "close", "reap", "done"}
CtlPCs == {"loop", "takeBridge", "close", "reap", "done"}
FinPCs == {"loop", "wake", "dropQueue", "checkBridge", "deref", "close", "reap",
           "detach", "done", "crashed"}

TypeRefs == /\ running \in BOOLEAN /\ queueRef \in BOOLEAN
            /\ bridgeRef \in BOOLEAN /\ failed \in BOOLEAN

TypeBridge == /\ fifoLock \in {NoThread, "handoff"}
              /\ fifoOpen \in BOOLEAN /\ torn \in BOOLEAN
              /\ proc \in {"alive", "exited", "none"}

TypeQueue == rawQueue \in Seq(Nat) /\ Len(rawQueue) <= Cap

TypeStream == /\ rawDrops \in Nat /\ rxCount \in Nat /\ cur \in Nat /\ samples \in Nat
              /\ written \in Seq(Nat)
              /\ monitored \subseteq Nat \X Nat

TypePC == /\ pc \in [Threads -> RxPCs \union HandoffPCs \union CtlPCs \union FinPCs]
          /\ pc["rx"] \in RxPCs /\ pc["handoff"] \in HandoffPCs
          /\ pc["ctl"] \in CtlPCs /\ pc["fin"] \in FinPCs

TypeLocals == hasQueue \in [Threads -> BOOLEAN] /\ hasBridge \in [Threads -> BOOLEAN]

\* Every variable has its type; the queue respects its capacity.
TypeOK == TypeRefs /\ TypeBridge /\ TypeQueue /\ TypeStream /\ TypePC /\ TypeLocals

\* The handoff thread has neither failed nor left its loop.
Working == pc["handoff"] \in {"loop", "get", "check", "combine", "write", "submit"}

\* The chunks taken from the queue so far by a working handoff thread.
Taken == IF pc["handoff"] \in {"check", "combine", "write"}
           THEN Len(written) + 1 ELSE Len(written)

\* No sample is lost, repeated or reordered between the receiver and GNSS-SDR
\* ("paused handoff instead of dropping contiguous IQ"): the FIFO carried
\* exactly the first chunks received, and as long as the handoff thread works,
\* the chunk it holds and those queued before a sentinel continue them.
GapFree ==
  /\ \A i \in 1..Len(written) : written[i] = i
  /\ Working =>
       /\ pc["handoff"] \in {"check", "combine", "write"} => cur = Taken
       /\ \A i \in 1..Len(rawQueue) :
            (\A j \in 1..i : rawQueue[j] # Sentinel) => rawQueue[i] = Taken + i

\* The phase monitor sees the samples the FIFO carried at the position it is
\* told: a chunk submitted with sample_start n is the FIFO's (n+1)-th.
MonitorAligned ==
  \A m \in monitored : m[1] + 1 <= Len(written) /\ written[m[1] + 1] = m[2]

\* The first rejected chunk ends the publishing for the run: the handler has
\* detached queue and bridge before the RX thread receives again, so the
\* rejection counter never passes one.
OneRejection == rawDrops <= 1

\* _gnss_failure_lock hands the bridge to one of the pipeline-error handlers
\* or to stop(), never to two of them, so that bridge.stop is not run twice
\* at the same time by them.
OneOwnerStops ==
  \A t, u \in {"rx", "handoff", "ctl"} : hasBridge[t] /\ hasBridge[u] => t = u

\* Whatever ended the run - stop, failure, exit of GNSS-SDR, even a crash of
\* the finalizer on the detached bridge - once every thread is through, the
\* FIFO is closed and GNSS-SDR is terminated.
AllThrough == /\ pc["rx"] = "done" /\ pc["handoff"] = "done"
              /\ pc["ctl"] \in {"loop", "done"} /\ pc["fin"] \in {"done", "crashed"}
ReceiverReleased == AllThrough => ~fifoOpen /\ proc = "none"

\* The handoff as a whole: the stream has no gap, the first rejection is the
\* last, and the bridge is handed to one thread that stops it.
HandoffIsSound == TypeOK /\ GapFree /\ OneRejection /\ OneOwnerStops

\* The handoff implements the gap-free stream: GNSS-SDR's FIFO only ever grows
\* by the next chunk, and not at all after it was closed or a write was torn.
CS == INSTANCE ContiguousStream WITH stream <- written, sealed <- torn \/ ~fifoOpen
StreamSpec == CS!Spec

\* Once _running is cleared, the RX and the handoff thread end, although the
\* sentinel may not have found room on the queue.
ThreadsJoin == []<>(~running => pc["rx"] = "done" /\ pc["handoff"] = "done")

\* A failed pipeline ends with the bridge stopped: GNSS-SDR is not left waiting
\* on a FIFO nobody writes.
FailureStopsReceiver == []<>(failed => proc = "none" /\ ~fifoOpen)

\* A chunk accepted by the queue reaches GNSS-SDR, unless the run is stopped or
\* the pipeline fails or GNSS-SDR exits.
AcceptedIsHandedOver ==
  \A c \in 1..MaxChunks :
    (\E i \in 1..Len(rawQueue) : rawQueue[i] = c)
      ~> (Len(written) >= c \/ failed \/ ~running \/ proc # "alive")

\* The threads end and, after a failure, GNSS-SDR with them.
EndsWithReceiver == ThreadsJoin /\ FailureStopsReceiver

\* What docs/hardware.md says of the RX thread and the code does not do: it
\* only receives and enqueues, and never waits for GNSS-SDR to stop.  No run
\* checks this, and the README shows how it fails.
RxOnlyEnqueues == pc["rx"] \notin {"close", "reap", "join"}
=============================================================================
