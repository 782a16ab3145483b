---------------------------- MODULE LatestQueues ----------------------------
(***************************************************************************)
(* The DSP worker queues of one run of the backend (runtime/backend.py,    *)
(* runtime/latest_queue.py): the RX thread hands chunks to the phase       *)
(* stage, that one its results to the DOA stage, each through a bounded    *)
(* queue written with put_latest.  stop(), a failed RX thread and the end  *)
(* of run() clear _running and put a sentinel into both queues, racing     *)
(* with the stages and with each other.                                    *)
(*                                                                         *)
(* put_latest is three queue operations, each atomic, with anything in     *)
(* between.  A chunk is its number; the results of a stage are the number  *)
(* of the chunk they were computed from.  MaxChunks bounds the chunks.      *)
(***************************************************************************)
EXTENDS Naturals, Sequences

CONSTANTS Capacity, MaxChunks

ASSUME CapacityAssumption == Capacity \in Nat \ {0}
ASSUME MaxChunksAssumption == MaxChunks \in Nat

Sentinel == 0
Items == 0..MaxChunks
Stages == {"phase", "doa"}
Threads == Stages \union {"rx", "run", "stop"}

VARIABLES
  running,  \* _running
  queue,    \* _phase_queue and _doa_queue
  pc,
  puts,     \* the calls of put_latest a thread has to make next, <<queue, item>>
  step,     \* where it is in the first of them
  hold,     \* the chunk a stage works on
  sent,     \* the last chunk of the RX thread
  done      \* the chunk of the last results of each stage

vars == <<running, queue, pc, puts, step, hold, sent, done>>

Init ==
  /\ running = TRUE
  /\ queue = [s \in Stages |-> << >>]
  /\ pc = [t \in Threads |-> IF t = "run" THEN "loop" ELSE IF t = "stop" THEN "idle" ELSE "check"]
  /\ puts = [t \in Threads |-> << >>] /\ step = [t \in Threads |-> "put"]
  /\ hold = [s \in Stages |-> 0]
  /\ sent = 0 /\ done = [s \in Stages |-> 0]

Goto(t, from, to) == /\ puts[t] = << >>
                     /\ pc[t] = from /\ pc' = [pc EXCEPT ![t] = to]

-----------------------------------------------------------------------------
(* put_latest                                                              *)

Full(s) == Len(queue[s]) = Capacity

Target(t) == puts[t][1][1]

PutItem(t) == queue' = [queue EXCEPT ![Target(t)] = Append(@, puts[t][1][2])]

CallDone(t) == /\ puts' = [puts EXCEPT ![t] = Tail(@)]
               /\ step' = [step EXCEPT ![t] = "put"]

AtStep(t, s) == puts[t] # << >> /\ step[t] = s /\ UNCHANGED <<running, pc, hold, sent, done>>

PutNow(t) ==
  /\ AtStep(t, "put")
  /\ IF Full(Target(t))
     THEN step' = [step EXCEPT ![t] = "get"] /\ UNCHANGED <<queue, puts>>
     ELSE PutItem(t) /\ CallDone(t)

\* Fault: the queue is full, the new item is dropped.
DropNewest(t) ==
  /\ AtStep(t, "get")
  /\ CallDone(t) /\ UNCHANGED queue

\* get_nowait on the full queue: another thread may have emptied it
DropOldest(t) ==
  /\ AtStep(t, "get")
  /\ queue' = [queue EXCEPT ![Target(t)] = IF @ = << >> THEN @ ELSE Tail(@)]
  /\ step' = [step EXCEPT ![t] = "again"]
  /\ UNCHANGED puts

\* Fault: the newest item goes to the head of the queue.
PutAgainFirst(t) ==
  /\ AtStep(t, "again")
  /\ queue' = [queue EXCEPT ![Target(t)] = IF Full(Target(t)) THEN @ ELSE <<puts[t][1][2]>> \o @]
  /\ CallDone(t)

\* The second put_nowait: another producer may have taken the room, the item is
\* dropped.
PutAgain(t) ==
  /\ AtStep(t, "again")
  /\ IF Full(Target(t)) THEN UNCHANGED queue ELSE PutItem(t)
  /\ CallDone(t)

\* _signal_dsp_shutdown
SignalShutdown(t) == puts' = [puts EXCEPT ![t] = << <<"phase", Sentinel>>, <<"doa", Sentinel>> >>]

-----------------------------------------------------------------------------
(* The RX thread                                                           *)

RxCheck == /\ Goto("rx", "check", IF running THEN "recv" ELSE "end")
           /\ UNCHANGED <<running, queue, puts, step, hold, sent, done>>

\* recv_chunk returned samples of a chunk that is to be processed
RxChunk ==
  /\ sent < MaxChunks
  /\ Goto("rx", "recv", "check")
  /\ sent' = sent + 1
  /\ puts' = [puts EXCEPT !["rx"] = << <<"phase", sent + 1>> >>]
  /\ UNCHANGED <<running, queue, step, hold, done>>

\* no samples, or a chunk that process_every_n_chunks skips
RxNothing == /\ Goto("rx", "recv", "check")
             /\ UNCHANGED <<running, queue, puts, step, hold, sent, done>>

\* recv_chunk raised: _failed_stop
RxFails ==
  /\ Goto("rx", "recv", "end")
  /\ running' = FALSE
  /\ SignalShutdown("rx")
  /\ UNCHANGED <<queue, step, hold, sent, done>>

\* the overflow limit is reached: the loop leaves without a signal
RxOverflows ==
  /\ Goto("rx", "recv", "end")
  /\ running' = FALSE
  /\ UNCHANGED <<queue, puts, step, hold, sent, done>>

-----------------------------------------------------------------------------
(* The stages: _phase_loop and _doa_loop                                   *)

\* Fault: the loop relies on the sentinel.
CheckOnlySentinel(s) == /\ Goto(s, "check", "get")
                        /\ UNCHANGED <<running, queue, puts, step, hold, sent, done>>

Check(s) == /\ Goto(s, "check", IF running THEN "get" ELSE "end")
            /\ UNCHANGED <<running, queue, puts, step, hold, sent, done>>

\* get(timeout=0.25) found the queue empty
GetTimeout(s) == /\ queue[s] = << >>
                 /\ Goto(s, "get", "check")
                 /\ UNCHANGED <<running, queue, puts, step, hold, sent, done>>

Get(s) ==
  /\ queue[s] # << >>
  /\ LET item == Head(queue[s])
     IN  /\ Goto(s, "get", IF item = Sentinel THEN "end" ELSE "work")
         /\ hold' = [hold EXCEPT ![s] = item]
  /\ queue' = [queue EXCEPT ![s] = Tail(@)]
  /\ UNCHANGED <<running, puts, step, sent, done>>

\* The results of the chunk are published; those of the phase stage go on to
\* the DOA stage.
Publish(s) ==
  /\ Goto(s, "work", "check")
  /\ done' = [done EXCEPT ![s] = hold[s]]
  /\ puts' = IF s = "phase" THEN [puts EXCEPT !["phase"] = << <<"doa", hold["phase"]>> >>] ELSE puts
  /\ UNCHANGED <<running, queue, step, hold, sent>>

-----------------------------------------------------------------------------
(* The run and the thread that stops it                                    *)

\* The UI loop of run() sees _running cleared, or raises: its finally block
RunEnds ==
  /\ Goto("run", "loop", "join")
  /\ running' = FALSE
  /\ SignalShutdown("run")
  /\ UNCHANGED <<queue, step, hold, sent, done>>

\* The joins have a timeout each: they may end before the threads do.
RunJoins ==
  /\ Goto("run", "join", "end")
  /\ UNCHANGED <<running, queue, puts, step, hold, sent, done>>

\* stop() of a run that is up
Stop ==
  /\ pc["run"] = "loop" /\ Goto("stop", "idle", "end")
  /\ running' = FALSE
  /\ SignalShutdown("stop")
  /\ UNCHANGED <<queue, step, hold, sent, done>>

-----------------------------------------------------------------------------
PutLatest(t) == PutNow(t) \/ DropOldest(t) \/ PutAgain(t)

Stage(s) == Check(s) \/ GetTimeout(s) \/ Get(s) \/ Publish(s)

Rx == RxCheck \/ RxChunk \/ RxNothing \/ RxFails \/ RxOverflows

Run == RunEnds \/ RunJoins

Next == \/ \E t \in Threads : PutLatest(t)
        \/ \E s \in Stages : Stage(s)
        \/ Rx \/ Run \/ Stop

\* Every thread runs; recv_chunk has a timeout, get() too.  Nobody has to stop.
Fairness ==
  /\ \A t \in Threads : WF_vars(PutLatest(t))
  /\ \A s \in Stages : WF_vars(Stage(s))
  /\ WF_vars(Rx) /\ WF_vars(RunEnds /\ ~running) /\ WF_vars(RunJoins)

Spec == Init /\ [][Next]_vars

FairSpec == Spec /\ Fairness

-----------------------------------------------------------------------------
TypeOK ==
  /\ running \in BOOLEAN
  /\ queue \in [Stages -> Seq(Items)] /\ \A s \in Stages : Len(queue[s]) <= Capacity
  /\ pc \in [Threads -> {"check", "recv", "get", "work", "loop", "join", "idle", "end"}]
  /\ puts \in [Threads -> Seq(Stages \X Items)] /\ \A t \in Threads : Len(puts[t]) <= 2
  /\ step \in [Threads -> {"put", "get", "again"}]
  /\ hold \in [Stages -> Items]
  /\ sent \in Items /\ done \in [Stages -> Items]

\* The queues implement NewestOnly: whatever is displaced and whoever races,
\* results are replaced by those of newer chunks, and the DOA stage follows the
\* phase stage (backend.py 6273-6360, 6453-6607).
Newest == INSTANCE NewestOnly WITH received <- sent, phases <- done["phase"], angle <- done["doa"]

OnlyNewer == Newest!Spec

\* While the run is up, the newest chunk the RX thread has put is never the one
\* that put_latest drops: the phase stage has it, or will find it last in its
\* queue; and so for the DOA stage (latest_queue.py 12-28).
NewestKept ==
  running =>
    /\ (puts["rx"] = << >> /\ sent > 0) =>
         hold["phase"] = sent \/ (queue["phase"] # << >> /\ queue["phase"][Len(queue["phase"])] = sent)
    /\ (puts["phase"] = << >> /\ done["phase"] > 0) =>
         hold["doa"] = done["phase"]
           \/ (queue["doa"] # << >> /\ queue["doa"][Len(queue["doa"])] = done["phase"])

\* A sentinel ends no stage of a run that is up: whoever puts one has cleared
\* _running before (backend.py 1229-1235, 6203-6206, 706-709).
StagesServe == running => \A s \in Stages : pc[s] # "end"

\* As long as the run is up, both stages have the newest data ahead of them.
QueuesServe == TypeOK /\ NewestKept /\ StagesServe

\* Once _running is cleared both stages end, although a chunk may displace the
\* sentinel from a queue or fill the room made for it.
StagesEnd == []<>(~running => \A s \in Stages : pc[s] = "end")

\* While the run stays up, the results of both stages catch up with the chunks.
StagesFollow ==
  \A n \in 1..MaxChunks : []<>(running /\ sent >= n => done["doa"] >= n)

\* The stages keep up while they are wanted and leave when they are not.
StagesProgress == StagesEnd /\ StagesFollow
=============================================================================
