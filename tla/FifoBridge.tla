----------------------------- MODULE FifoBridge -----------------------------
(***************************************************************************)
(* The FIFOs between GnssSdrBridge and GNSS-SDR (gnss/sdr_bridge/bridge.py *)
(* and fifo.py): start() opens a writer per source while GNSS-SDR opens    *)
(* its readers, write() hands a chunk to all sources in stripes, stop()    *)
(* closes the writers and ends the process.                                *)
(*                                                                         *)
(* start and stop run in different threads; write and the closing of the   *)
(* descriptors hold _fifo_lock, start does not.  A descriptor is named by  *)
(* its source, samples are counted, all sources get the same number.       *)
(*                                                                         *)
(* The readers (gnss-sdr fifo_reader.cc) are external: each reads what is  *)
(* there, may stop for good, and in lockstep (the option                   *)
(* synchronize_signal_sources of GNSS-SDR) is never Window samples ahead   *)
(* of another.  When something is slow the stall deadline may pass at any  *)
(* time, else only when neither a reader nor the writer can move.          *)
(***************************************************************************)
EXTENDS Integers

CONSTANTS N,         \* sources
          Stripe,    \* PER_SOURCE_FIFO_STRIPE_SAMPLES
          Stripes,   \* stripes of a chunk
          PipeSize,  \* samples a FIFO holds
          MaxChunks,
          Window     \* samples a reader in lockstep may be ahead

ASSUME FifoAssumption ==
  /\ {N, Stripe, Stripes, PipeSize, Window} \subseteq Nat \ {0}
  /\ MaxChunks \in Nat

Sources == 1..N
Chunk == Stripe * Stripes

VARIABLES
  lockstep, slow,  \* the conditions, the same all the time
  pc,        \* of the threads that start, write (handoff) and stop
  lock,      \* _fifo_lock
  fds, list, \* _fifo_fds: its descriptors, and which list object it is
  open,      \* descriptors that are open
  next, into,    \* start: the source to open, the list its descriptor goes into
  proc, known,   \* GNSS-SDR runs, _proc is set
  reader,        \* of each source: "none", "open", "stopped", "closed"
  sent, consumed,\* samples written to and read from each FIFO
  chunks, goal,  \* write: chunks begun, samples sent at the end of the stripe
  pending, events,  \* write: sources not through with the stripe, from poll
  stalled        \* sources a GnssFifoWriteStall has named

starting == <<next, into>>
process  == <<proc, known, reader>>
writing  == <<chunks, goal, pending, events, stalled>>
conditions == <<lockstep, slow>>
vars == <<conditions, pc, lock, fds, list, open, starting, process, sent, consumed, writing>>

Free == "free"

Init ==
  /\ lockstep \in BOOLEAN /\ slow \in BOOLEAN
  /\ pc = [start |-> "look", handoff |-> "idle", stop |-> "idle"]
  /\ lock = Free
  /\ fds = {} /\ list = 0 /\ open = {}
  /\ next = 1 /\ into = 0
  /\ proc = TRUE /\ known = TRUE
  /\ reader = [i \in Sources |-> "none"]
  /\ sent = [i \in Sources |-> 0] /\ consumed = [i \in Sources |-> 0]
  /\ chunks = 0 /\ goal = 0 /\ pending = {} /\ events = {} /\ stalled = {}

Goto(t, from, to) == pc[t] = from /\ pc' = [pc EXCEPT ![t] = to]

-----------------------------------------------------------------------------
(* start, from the first FIFO to be opened                                 *)

\* self._fifo_fds.append is evaluated before the FIFO is opened.
OpenLook ==
  /\ Goto("start", "look", "open")
  /\ into' = list
  /\ UNCHANGED <<conditions, lock, fds, list, open, next, process, sent, consumed, writing>>

\* _open_fifo_writer: until the reader is there
OpenFifo ==
  /\ Goto("start", "open", "append")
  /\ known /\ proc /\ reader[next] \in {"open", "stopped"}
  /\ open' = open \union {next}
  /\ UNCHANGED <<conditions, lock, fds, list, starting, process, sent, consumed, writing>>

\* No process, or the time is over
OpenFails ==
  /\ Goto("start", "open", "close")
  /\ UNCHANGED <<conditions, lock, fds, list, open, starting, process, sent, consumed, writing>>

Append ==
  /\ Goto("start", "append", IF next = N THEN "first" ELSE "look")
  /\ fds' = IF into = list THEN fds \union {next} ELSE fds
  /\ next' = next + 1
  /\ UNCHANGED <<conditions, lock, list, open, into, process, sent, consumed, writing>>

\* self._fifo_fds[0], which raises on an empty list
StartEnds ==
  /\ Goto("start", "first", IF fds = {} THEN "close" ELSE "started")
  /\ UNCHANGED <<conditions, lock, fds, list, open, starting, process, sent, consumed, writing>>

-----------------------------------------------------------------------------
(* stop, by a stop command or by a start that failed                       *)

StopBegin ==
  /\ Goto("stop", "idle", "close")
  /\ UNCHANGED <<conditions, lock, fds, list, open, starting, process, sent, consumed, writing>>

StopClose(t) ==
  /\ lock = Free
  /\ Goto(t, "close", "reap")
  /\ open' = open \ fds /\ fds' = {} /\ list' = list + 1
  /\ UNCHANGED <<conditions, lock, starting, process, sent, consumed, writing>>

Exited == proc' = FALSE /\ reader' = [i \in Sources |-> "closed"]

\* Terminate, wait, kill
StopReap(t) ==
  /\ Goto(t, "reap", "ended")
  /\ Exited /\ known' = FALSE
  /\ UNCHANGED <<conditions, lock, fds, list, open, starting, sent, consumed, writing>>

-----------------------------------------------------------------------------
(* write, in the handoff thread, which is there when start has returned    *)

Space(i) == PipeSize - (sent[i] - consumed[i])

\* What a nonblocking write of the rest of the stripe takes
Fits(i) == IF Space(i) < goal - sent[i] THEN Space(i) ELSE goal - sent[i]

\* Fault: one source after the other.
ReadySerial ==
  {i \in pending : (reader[i] = "closed" \/ Space(i) > 0) /\ \A j \in pending : i <= j}

Ready == {i \in pending : reader[i] = "closed" \/ Space(i) > 0}

CanRead(i) ==
  /\ reader[i] = "open" /\ consumed[i] < sent[i]
  /\ lockstep => \A j \in Sources : consumed[i] < consumed[j] + Window

\* Fault: a stripe is the whole chunk.
NewStripeWhole == goal' = goal + Chunk /\ pending' = Sources

NewStripe == goal' = goal + Stripe /\ pending' = Sources

WriteBegin ==
  /\ pc["start"] = "started" /\ lock = Free /\ chunks < MaxChunks
  /\ chunks' = chunks + 1
  /\ \/ fds = Sources /\ Goto("handoff", "idle", "poll") /\ lock' = "handoff" /\ NewStripe
     \/ fds # Sources /\ Goto("handoff", "idle", "failed") /\ UNCHANGED <<conditions, lock, goal, pending>>
  /\ UNCHANGED <<conditions, fds, list, open, starting, process, sent, consumed, events, stalled>>

\* Poll returns with whatever can be served.
Poll ==
  /\ Ready # {}
  /\ Goto("handoff", "poll", "serve")
  /\ events' = Ready
  /\ UNCHANGED <<conditions, lock, fds, list, open, starting, process, sent, consumed, chunks, goal, pending, stalled>>

Raise == pc' = [pc EXCEPT !["handoff"] = "failed"] /\ lock' = Free

\* The deadline of the stripe
Stall ==
  /\ pc["handoff"] = "poll"
  /\ slow \/ (Ready = {} /\ \A i \in Sources : ~CanRead(i))
  /\ stalled' = pending
  /\ Raise
  /\ UNCHANGED <<conditions, fds, list, open, starting, process, sent, consumed, chunks, goal, pending, events>>

\* Fault: a partial write counts as the whole.
ServePartial ==
  /\ pc["handoff"] = "serve"
  /\ \E i \in events :
       /\ \A j \in events : i <= j
       /\ \/ reader[i] = "closed" /\ Raise /\ UNCHANGED <<conditions, sent, pending, events>>
          \/ /\ reader[i] # "closed"
             /\ sent' = [sent EXCEPT ![i] = @ + Fits(i)]
             /\ pending' = pending \ {i}
             /\ events' = events \ {i}
             /\ pc' = [pc EXCEPT !["handoff"] = IF events' # {} THEN "serve"
                                                ELSE IF pending' # {} THEN "poll" ELSE "stripe"]
             /\ UNCHANGED lock
  /\ UNCHANGED <<conditions, fds, list, open, starting, process, consumed, chunks, goal, stalled>>

\* One event: as much as fits; the stripe ends when every source is through.
Serve ==
  /\ pc["handoff"] = "serve"
  /\ \E i \in events :
       /\ \A j \in events : i <= j
       /\ \/ reader[i] = "closed" /\ Raise /\ UNCHANGED <<conditions, sent, pending, events>>
          \/ /\ reader[i] # "closed"
             /\ sent' = [sent EXCEPT ![i] = @ + Fits(i)]
             /\ pending' = IF sent'[i] = goal THEN pending \ {i} ELSE pending
             /\ events' = events \ {i}
             /\ pc' = [pc EXCEPT !["handoff"] = IF events' # {} THEN "serve"
                                                ELSE IF pending' # {} THEN "poll" ELSE "stripe"]
             /\ UNCHANGED lock
  /\ UNCHANGED <<conditions, fds, list, open, starting, process, consumed, chunks, goal, stalled>>

StripeEnds ==
  /\ \/ goal < chunks * Chunk /\ Goto("handoff", "stripe", "poll") /\ NewStripe /\ UNCHANGED lock
     \/ goal = chunks * Chunk /\ Goto("handoff", "stripe", "idle") /\ lock' = Free
        /\ UNCHANGED <<conditions, goal, pending>>
  /\ UNCHANGED <<conditions, fds, list, open, starting, process, sent, consumed, chunks, events, stalled>>

-----------------------------------------------------------------------------
(* GNSS-SDR                                                                *)

ReaderOpens(i) ==
  /\ proc /\ reader[i] = "none"
  /\ reader' = [reader EXCEPT ![i] = "open"]
  /\ UNCHANGED <<conditions, pc, lock, fds, list, open, starting, proc, known, sent, consumed, writing>>

Read(i) ==
  /\ CanRead(i)
  /\ consumed' = [consumed EXCEPT ![i] = @ + 1]
  /\ UNCHANGED <<conditions, pc, lock, fds, list, open, starting, process, sent, writing>>

ReaderStops(i) ==
  /\ reader[i] = "open"
  /\ reader' = [reader EXCEPT ![i] = "stopped"]
  /\ UNCHANGED <<conditions, pc, lock, fds, list, open, starting, proc, known, sent, consumed, writing>>

Exit ==
  /\ proc /\ Exited
  /\ UNCHANGED <<conditions, pc, lock, fds, list, open, starting, known, sent, consumed, writing>>

-----------------------------------------------------------------------------
Start == OpenLook \/ OpenFifo \/ OpenFails \/ Append \/ StartEnds

Stop(t) == StopClose(t) \/ StopReap(t)

Write == WriteBegin \/ Poll \/ Stall \/ Serve \/ StripeEnds

GnssSdr == Exit \/ \E i \in Sources : ReaderOpens(i) \/ Read(i) \/ ReaderStops(i)

Next == Start \/ StopBegin \/ Stop("start") \/ Stop("stop") \/ Write \/ GnssSdr

\* The threads run; a stop that waits for the lock gets it between two writes.
Fairness ==
  /\ WF_vars(Start) /\ WF_vars(Stop("start")) /\ WF_vars(Write)
  /\ SF_vars(StopClose("stop")) /\ WF_vars(StopReap("stop"))
  /\ \A i \in Sources : WF_vars(ReaderOpens(i)) /\ WF_vars(Read(i))

Spec == Init /\ [][Next]_vars

FairSpec == Spec /\ Fairness

-----------------------------------------------------------------------------
Threads == {"start", "handoff", "stop"}

Pcs == {"look", "open", "append", "first", "started", "close", "reap", "ended",
        "idle", "poll", "serve", "stripe", "failed"}

TypeOK ==
  /\ {lockstep, slow} \subseteq BOOLEAN
  /\ pc \in [Threads -> Pcs]
  /\ lock \in {Free, "handoff"}
  /\ {fds, open, pending, events, stalled} \subseteq SUBSET Sources
  /\ list \in 0..2 /\ into \in 0..list /\ next \in 1..(N + 1)
  /\ {proc, known} \subseteq BOOLEAN
  /\ reader \in [Sources -> {"none", "open", "stopped", "closed"}]
  /\ chunks \in 0..MaxChunks /\ goal \in 0..(chunks * Chunk)
  /\ \A i \in Sources : consumed[i] \in 0..sent[i] /\ Space(i) \in 0..PipeSize

\* No source is ever more than a stripe ahead of another, so that one GNSS-SDR
\* flowgraph can consume them together (bridge.py 457-470, and the assertion on
\* _fifo_max_source_lead_bytes in test_gnss_sdr_bridge.py 223).
LeadBounded == \A i, j \in Sources : sent[i] <= sent[j] + Stripe

\* Samples are only given to a descriptor that is open (the lock in stop()).
WritesAreOpen == pc["handoff"] \in {"poll", "serve"} => Sources \subseteq open

\* A stall names readers that have stopped, and no other (docs/17, criterion 2).
StallNamesStopped == ~lockstep /\ ~slow => \A i \in stalled : reader[i] # "open"

\* Samples go to open descriptors, evenly, and a stall blames the right reader.
WritesAreFair == TypeOK /\ LeadBounded /\ WritesAreOpen /\ StallNamesStopped

\* Readers in lockstep and a writer that waits for all of them never wait for
\* each other in a circle: without a reader that has stopped there is no stall.
NoCircularWait == ~slow /\ stalled # {} => \E i \in Sources : reader[i] \in {"stopped", "closed"}

\* What a test says and the code does not do when start and stop meet: no run
\* checks this, and the README shows how it fails.
\* test_gnss_sdr_bridge.py 298: after a stop "bridge._fifo_fds == []".
StopLeavesNone ==
  (pc["stop"] = "ended" /\ pc["start"] \in {"started", "ended"}) => fds = {}

\* A write ends, with or without its chunk, whatever the readers do.
WriteEnds == []<>(lock = Free)

\* A stop gets through, also while a reader has stopped in the middle of a chunk.
StopEnds == []<>(pc["stop"] \in {"idle", "ended"})

\* Each source gets its chunk, or the whole handoff ends: no source is left
\* behind by a handoff that goes on.
AllFed == \A i \in Sources : []<>(sent[i] = chunks * Chunk \/ pc["handoff"] = "failed")

\* Writes and stops end and every source is served, whatever the readers do.
BridgeProgress == WriteEnds /\ StopEnds /\ AllFed
=============================================================================
