-------------------------- MODULE FifoBridgeProofs --------------------------
(***************************************************************************)
(* What FifoBridge promises, for every number of sources, every stripe,    *)
(* chunk and pipe size and every window of the readers: WritesAreFair and  *)
(* NoCircularWait.                                                         *)
(*                                                                         *)
(* The inductive invariant says where the threads are (At), who owns which *)
(* descriptor while start, stop and write race for them (Descriptors), and *)
(* how far each source is in the stripe (Progress).  NoCircularWait comes  *)
(* from the reader that is furthest behind: it is never held back by the   *)
(* others, so if it cannot read it has read all it was given; then it is   *)
(* not pending, and a source that is would be ahead of it.                 *)
(***************************************************************************)
EXTENDS FifoBridge, WellFoundedInduction, TLAPS

StartPcs == {"look", "open", "append", "first", "started", "close", "reap", "ended"}
HandoffPcs == {"idle", "poll", "serve", "stripe", "failed"}
StopPcs == {"idle", "close", "reap", "ended"}

\* Where each thread can be; the lock is held by a write that is under way.
At ==
  /\ pc \in [Threads -> Pcs]
  /\ pc["start"] \in StartPcs /\ pc["handoff"] \in HandoffPcs /\ pc["stop"] \in StopPcs
  /\ lock = IF pc["handoff"] \in {"poll", "serve", "stripe"} THEN "handoff" ELSE Free

\* Threads whose stop has emptied the list.
Closed(t) == IF pc[t] \in {"reap", "ended"} THEN 1 ELSE 0

\* Descriptors in the list are open, and start has opened them in order.
Descriptors ==
  /\ {fds, open} \subseteq SUBSET Sources
  /\ list = Closed("start") + Closed("stop") /\ into \in Nat /\ into <= list
  /\ next \in 1..(N + 1)
  /\ pc["start"] \in {"look", "open", "append"} => next <= N
  /\ pc["start"] = "append" => next \in open
  /\ fds \subseteq open
  /\ \A i \in fds : i < next
  /\ lock = "handoff" => Sources \subseteq open

\* A reader that was there at the opening is not away before the process is.
Readers ==
  /\ {lockstep, slow, proc, known} \subseteq BOOLEAN
  /\ reader \in [Sources -> {"none", "open", "stopped", "closed"}]
  /\ \A i \in open : reader[i] # "none"

\* The pending sources are those behind the goal, by a stripe at the most.
Progress ==
  /\ sent \in [Sources -> Nat] /\ consumed \in [Sources -> Nat]
  /\ {pending, events} \subseteq SUBSET Sources
  /\ chunks \in 0..MaxChunks /\ goal \in 0..(chunks * Chunk)
  /\ \E k \in Nat : goal = k * Stripe
  /\ \A i \in Sources : consumed[i] <= sent[i] /\ Space(i) <= PipeSize /\ 0 <= Space(i)
  /\ \A i \in Sources : sent[i] <= goal /\ goal <= sent[i] + Stripe
  /\ \A i \in Sources : i \in pending <=> sent[i] < goal
  /\ pc["handoff"] \in {"idle", "stripe"} => pending = {}
  /\ pc["handoff"] = "poll" => pending # {}
  /\ pc["handoff"] = "serve" =>
       events # {} /\ events \subseteq pending /\ \A i \in events : reader[i] = "closed" \/ 0 < Space(i)

\* Who has been blamed had been given a descriptor, and had stopped.
Blame ==
  /\ stalled \subseteq Sources
  /\ \A i \in stalled : reader[i] # "none"
  /\ StallNamesStopped
  /\ NoCircularWait

IInv == At /\ Descriptors /\ Readers /\ Progress /\ Blame

-----------------------------------------------------------------------------
(* Helpers                                                                 *)

\* A stripe is not longer than a chunk.
LEMMA StripeFits == Stripe \in Nat /\ 0 < Stripe /\ Chunk \in Nat /\ Stripe <= Chunk
<1> DEFINE more == Stripes - 1
<1>1. Stripe \in Nat /\ 0 < Stripe /\ Stripes \in Nat /\ 0 < Stripes
  BY FifoAssumption
<1>2. more \in Nat
  BY <1>1
<1>3. Stripe * Stripes = Stripe * more + Stripe
  BY <1>1, <1>2
<1>4. Stripe * more \in Nat /\ Stripe * Stripes \in Nat
  BY <1>1, <1>2
<1> QED
  BY <1>1, <1>3, <1>4 DEF Chunk

LEMMA SamplesOfChunks == \A c \in Nat : c * Chunk \in Nat
  BY StripeFits

\* Whole stripes: as long as the chunks have not been sent there is room for one.
LEMMA StripesInChunks ==
  ASSUME NEW k \in Nat, NEW c \in Nat, k * Stripe < c * Chunk
  PROVE  (k + 1) * Stripe <= c * Chunk
<1> DEFINE all == c * Stripes
           over == k - all
           left == all - (k + 1)
<1>1. Stripe \in Nat /\ 0 < Stripe /\ Stripes \in Nat
  BY FifoAssumption
<1>2. all \in Nat
  BY <1>1
<1>3. c * Chunk = all * Stripe
  BY <1>1 DEF Chunk
<1>4. k < all
  <2> SUFFICES ASSUME ~(k < all)
               PROVE  FALSE
    OBVIOUS
  <2>1. over \in Nat /\ k = all + over
    BY <1>2
  <2> HIDE DEF all, over
  <2>2. k * Stripe = all * Stripe + over * Stripe
    BY <2>1, <1>1, <1>2
  <2>3. over * Stripe \in Nat /\ all * Stripe \in Nat /\ k * Stripe \in Nat
    BY <2>1, <1>1, <1>2
  <2> QED
    BY <2>2, <2>3, <1>3
<1>5. left \in Nat /\ all = (k + 1) + left
  BY <1>2, <1>4
<1> HIDE DEF all, left
<1>6. all * Stripe = (k + 1) * Stripe + left * Stripe
  BY <1>1, <1>2, <1>5
<1>7. left * Stripe \in Nat /\ (k + 1) * Stripe \in Nat
  BY <1>1, <1>5
<1> QED
  BY <1>3, <1>6, <1>7, <1>1, <1>2

\* Among the readers one is furthest behind.
LEMMA FurthestBehind ==
  ASSUME consumed \in [Sources -> Nat]
  PROVE  \E m \in Sources : \A j \in Sources : consumed[m] <= consumed[j]
<1> DEFINE T == {consumed[i] : i \in Sources}
<1>1. T \subseteq Nat
  OBVIOUS
<1>2. 1 \in Sources
  BY FifoAssumption DEF Sources
<1>3. T # {}
  BY <1>2
<1>4. \E x \in T : \A y \in T : ~(<<y, x>> \in OpToRel(<, Nat))
  <2> HIDE DEF T
  <2> QED
    BY <1>1, <1>3, NatLessThanWellFounded, WFMin
<1>5. PICK x \in T : \A y \in T : ~(<<y, x>> \in OpToRel(<, Nat))
  BY <1>4
<1>6. PICK m \in Sources : x = consumed[m]
  BY <1>5
<1>7. \A j \in Sources : ~(consumed[j] < consumed[m])
  BY <1>5, <1>6 DEF OpToRel
<1> QED
  BY <1>7

-----------------------------------------------------------------------------
(* What the steps leave alone                                              *)

\* A reader is opened, stops and goes away, in this order.
ReadersGoOn ==
  /\ reader' \in [Sources -> {"none", "open", "stopped", "closed"}]
  /\ \A i \in Sources :
       \/ reader'[i] = reader[i] \/ reader'[i] = "closed"
       \/ reader[i] = "none" /\ reader'[i] = "open"
       \/ reader[i] = "open" /\ reader'[i] = "stopped"

LEMMA SameProgress ==
  ASSUME Progress, ReadersGoOn, UNCHANGED <<sent, consumed, pending, events, chunks, goal>>,
         pc'["handoff"] = pc["handoff"]
  PROVE  Progress'
<1>1. \A i \in Sources : Space(i)' = Space(i) /\ (reader[i] = "closed" => reader'[i] = "closed")
  BY DEF Space, ReadersGoOn
<1>2. chunks * Chunk = (chunks * Chunk)'
  OBVIOUS
<1> QED
  BY <1>1, <1>2 DEF Progress

LEMMA SameBlame ==
  ASSUME Readers, Blame, ReadersGoOn, UNCHANGED <<conditions, stalled>>
  PROVE  Blame'
<1>1. \A i \in Sources : /\ reader[i] # "none" => reader'[i] # "none"
                         /\ reader[i] \in {"stopped", "closed"} => reader'[i] \in {"stopped", "closed"}
  BY DEF ReadersGoOn, Readers
<1>2. \A i \in Sources : reader[i] \notin {"none", "open"} => reader'[i] \notin {"none", "open"}
  BY DEF ReadersGoOn, Readers
<1>3. StallNamesStopped'
  BY <1>2 DEF Blame, StallNamesStopped, conditions
<1>4. NoCircularWait'
  BY <1>1 DEF Blame, NoCircularWait, conditions
<1> QED
  BY <1>1, <1>3, <1>4 DEF Blame

LEMMA SameReaders ==
  ASSUME Readers, UNCHANGED reader
  PROVE  ReadersGoOn
  BY DEF Readers, ReadersGoOn

\* A step of start or of a stop does not touch the samples.
LEMMA SamplesStay ==
  ASSUME IInv, UNCHANGED <<conditions, writing, sent, consumed>>, ReadersGoOn,
         pc'["handoff"] = pc["handoff"]
  PROVE  Progress' /\ Blame'
<1>1. Progress'
  BY SameProgress DEF IInv, writing
<1>2. Blame'
  BY SameBlame DEF IInv, writing, conditions
<1> QED
  BY <1>1, <1>2

-----------------------------------------------------------------------------
LEMMA Initially == Init => IInv
<1> SUFFICES ASSUME Init
             PROVE  IInv
  OBVIOUS
<1> USE DEF Init
<1>1. At
  BY DEF At, StartPcs, HandoffPcs, StopPcs, Threads, Pcs, Free
<1>2. Descriptors
  BY FifoAssumption DEF Descriptors, Closed, Sources, Free
<1>3. Readers
  BY DEF Readers
<1>4. Progress
  <2>1. 0 = 0 * Stripe /\ 0 = 0 * Chunk
    BY StripeFits
  <2>2. \A i \in Sources : Space(i) = PipeSize /\ PipeSize \in Nat
    BY FifoAssumption DEF Space
  <2> QED
    BY <2>1, <2>2, StripeFits, FifoAssumption DEF Progress
<1>5. Blame
  BY DEF Blame, StallNamesStopped, NoCircularWait
<1> QED
  BY <1>1, <1>2, <1>3, <1>4, <1>5 DEF IInv

-----------------------------------------------------------------------------
(* start                                                                   *)

LEMMA StartStep ==
  ASSUME IInv, Start
  PROVE  IInv'
<1> USE DEF IInv
<1>0. UNCHANGED <<conditions, lock, list, process, sent, consumed, writing>>
  BY DEF Start, OpenLook, OpenFifo, OpenFails, Append, StartEnds, starting
<1>1. /\ pc' \in [Threads -> Pcs]
      /\ pc'["handoff"] = pc["handoff"] /\ pc'["stop"] = pc["stop"]
      /\ Closed("start")' = Closed("start") /\ Closed("stop")' = Closed("stop")
  BY DEF Start, OpenLook, OpenFifo, OpenFails, Append, StartEnds, Goto, At, Closed, Threads, Pcs
<1>2. pc'["start"] \in StartPcs
  BY DEF Start, OpenLook, OpenFifo, OpenFails, Append, StartEnds, Goto, At, StartPcs, Threads
<1>3. At'
  BY <1>0, <1>1, <1>2 DEF At
<1>4. Readers' /\ ReadersGoOn
  <2>1. CASE ~OpenFifo
    BY <2>1, <1>0, SameReaders DEF Readers, Start, OpenLook, OpenFails, Append, StartEnds, process, conditions
  <2>2. CASE OpenFifo
    BY <2>2, <1>0, SameReaders DEF Readers, OpenFifo, process, conditions
  <2> QED
    BY <2>1, <2>2
<1>5. Progress' /\ Blame'
  BY <1>0, <1>1, <1>4, SamplesStay
<1>6. Descriptors'
  <2>1. list' = (Closed("start") + Closed("stop"))' /\ lock' = lock /\ list' = list
    BY <1>0, <1>1 DEF Descriptors
  <2>2. CASE OpenLook
    <3>1. UNCHANGED <<fds, open, next>> /\ into' = list /\ pc["start"] = "look" /\ pc'["start"] = "open"
      BY <2>2 DEF OpenLook, Goto, At, Threads, Pcs
    <3>2. list \in Nat /\ list <= list
      BY DEF Descriptors, Closed
    <3> QED
      BY <2>1, <3>1, <3>2 DEF Descriptors
  <2>3. CASE OpenFifo
    <3>1. UNCHANGED <<fds, next, into>> /\ open' = open \union {next}
          /\ pc["start"] = "open" /\ pc'["start"] = "append"
      BY <2>3 DEF OpenFifo, Goto, At, Threads, Pcs, starting
    <3>2. next \in Sources
      BY <3>1 DEF Descriptors, Sources
    <3> QED
      BY <2>1, <3>1, <3>2 DEF Descriptors
  <2>4. CASE OpenFails \/ StartEnds
    <3>1. UNCHANGED <<fds, open, next, into>> /\ pc'["start"] \in {"close", "started"}
      BY <2>4 DEF OpenFails, StartEnds, Goto, At, Threads, Pcs, starting
    <3> QED
      BY <2>1, <3>1 DEF Descriptors
  <2>5. CASE Append
    <3>1. UNCHANGED <<open, into>> /\ next' = next + 1 /\ pc["start"] = "append"
          /\ pc'["start"] = IF next = N THEN "first" ELSE "look"
      BY <2>5 DEF Append, Goto, At, Threads, Pcs
    <3>2. fds' \subseteq fds \union {next}
      BY <2>5 DEF Append
    <3>3. next \in Sources /\ next \in open /\ next \in 1..N /\ N \in Nat
      BY <3>1, FifoAssumption DEF Descriptors, Sources
    <3>4. next' \in 1..(N + 1) /\ (pc'["start"] \in {"look", "open", "append"} => next' <= N)
          /\ pc'["start"] # "append"
      BY <3>1, <3>3
    <3>5. \A i \in fds' : i < next'
      <4> SUFFICES ASSUME NEW i \in fds'
                   PROVE  i < next'
        OBVIOUS
      <4>1. i \in Nat /\ (i < next \/ i = next)
        BY <3>2, <3>3 DEF Descriptors, Sources
      <4> QED
        BY <4>1, <3>1, <3>3
    <3> QED
      BY <2>1, <3>1, <3>2, <3>3, <3>4, <3>5 DEF Descriptors
  <2> QED
    BY <2>2, <2>3, <2>4, <2>5 DEF Start
<1> QED
  BY <1>3, <1>4, <1>5, <1>6

(***************************************************************************)
(* stop                                                                    *)
(***************************************************************************)
LEMMA StopBeginStep ==
  ASSUME IInv, StopBegin
  PROVE  IInv'
<1> USE DEF IInv
<1>0. UNCHANGED <<conditions, lock, fds, list, open, starting, process, sent, consumed, writing>>
  BY DEF StopBegin
<1>1. /\ pc' \in [Threads -> Pcs] /\ pc["stop"] = "idle"
      /\ pc'["handoff"] = pc["handoff"] /\ pc'["start"] = pc["start"] /\ pc'["stop"] = "close"
  BY DEF StopBegin, Goto, At, Threads, Pcs
<1>2. Closed("start")' = Closed("start") /\ Closed("stop")' = Closed("stop")
  BY <1>1 DEF Closed
<1>3. At'
  BY <1>0, <1>1 DEF At, StopPcs
<1>4. Readers' /\ ReadersGoOn
  BY <1>0, SameReaders DEF Readers, process, conditions
<1>5. Progress' /\ Blame'
  BY <1>0, <1>1, <1>4, SamplesStay
<1>6. Descriptors'
  BY <1>0, <1>1, <1>2 DEF Descriptors, starting
<1> QED
  BY <1>3, <1>4, <1>5, <1>6

LEMMA StopCloseStep ==
  ASSUME IInv, NEW t \in {"start", "stop"}, StopClose(t)
  PROVE  IInv'
<1> USE DEF IInv
<1>0. UNCHANGED <<conditions, lock, starting, process, sent, consumed, writing>>
  BY DEF StopClose
<1>1. /\ pc' \in [Threads -> Pcs] /\ pc[t] = "close"
      /\ pc' = [pc EXCEPT ![t] = "reap"]
      /\ pc'["handoff"] = pc["handoff"]
  BY DEF StopClose, Goto, At, Threads, Pcs
<1>2. pc'["start"] \in {pc["start"], "reap"} /\ pc'["stop"] \in {pc["stop"], "reap"}
  BY <1>1 DEF At, Threads, Pcs
<1>3. At'
  BY <1>0, <1>1, <1>2 DEF At, StopPcs, StartPcs
<1>4. Readers' /\ ReadersGoOn
  <2>1. open' \subseteq open
    BY DEF StopClose
  <2> QED
    BY <2>1, <1>0, SameReaders DEF Readers, process, conditions
<1>5. Progress' /\ Blame'
  BY <1>0, <1>1, <1>4, SamplesStay
<1>6. Descriptors'
  <2>1. lock' # "handoff" /\ lock' = lock
    BY <1>0 DEF StopClose, Free
  <2>2. open' = open \ fds /\ fds' = {} /\ list' = list + 1 /\ UNCHANGED <<next, into>>
    BY <1>0 DEF StopClose, starting
  <2>3. list' = (Closed("start") + Closed("stop"))'
    <3>1. Closed(t) = 0 /\ Closed(t)' = 1
      BY <1>1 DEF Closed, At, Threads, Pcs
    <3>2. \A u \in {"start", "stop"} : u # t => Closed(u)' = Closed(u)
      BY <1>1 DEF Closed, At, Threads, Pcs
    <3>3. \A u \in {"start", "stop"} : Closed(u) \in Nat
      BY DEF Closed
    <3>4. list = Closed("start") + Closed("stop")
      BY DEF Descriptors
    <3>5. CASE t = "start"
      BY <3>1, <3>2, <3>3, <3>4, <3>5, <2>2
    <3>6. CASE t = "stop"
      BY <3>1, <3>2, <3>3, <3>4, <3>6, <2>2
    <3> QED
      BY <3>5, <3>6
  <2>4. into' \in Nat /\ into' <= list'
    BY <2>2 DEF Descriptors, Closed
  <2>5. pc'["start"] = "append" => next' \in open'
    <3> SUFFICES ASSUME pc'["start"] = "append"
                 PROVE  next' \in open'
      OBVIOUS
    <3>1. pc["start"] = "append"
      BY <1>2
    <3>2. next \in open /\ next \in Nat /\ next \notin fds
      BY <3>1 DEF Descriptors
    <3> QED
      BY <3>2, <2>2
  <2>6. (pc'["start"] \in {"look", "open", "append"}) => next' <= N
    BY <1>2, <2>2 DEF Descriptors
  <2> QED
    BY <2>1, <2>2, <2>3, <2>4, <2>5, <2>6 DEF Descriptors
<1> QED
  BY <1>3, <1>4, <1>5, <1>6

LEMMA StopReapStep ==
  ASSUME IInv, NEW t \in {"start", "stop"}, StopReap(t)
  PROVE  IInv'
<1> USE DEF IInv
<1>0. UNCHANGED <<conditions, lock, fds, list, open, starting, sent, consumed, writing>>
  BY DEF StopReap
<1>1. /\ pc' \in [Threads -> Pcs] /\ pc[t] = "reap"
      /\ pc' = [pc EXCEPT ![t] = "ended"]
      /\ pc'["handoff"] = pc["handoff"]
  BY DEF StopReap, Goto, At, Threads, Pcs
<1>2. /\ pc'["start"] = pc["start"] \/ (pc["start"] = "reap" /\ pc'["start"] = "ended")
      /\ pc'["stop"] = pc["stop"] \/ (pc["stop"] = "reap" /\ pc'["stop"] = "ended")
  BY <1>1 DEF At, Threads, Pcs
<1>3. At'
  BY <1>0, <1>1, <1>2 DEF At, StopPcs, StartPcs
<1>4. Readers' /\ ReadersGoOn
  <2>1. reader' = [i \in Sources |-> "closed"] /\ proc' = FALSE /\ known' = FALSE
    BY DEF StopReap, Exited
  <2>2. \A i \in Sources : reader'[i] = "closed"
    BY <2>1
  <2>3. Readers'
    BY <2>1, <2>2, <1>0 DEF Readers, conditions, Descriptors
  <2>4. ReadersGoOn
    BY <2>1, <2>2 DEF ReadersGoOn
  <2> QED
    BY <2>3, <2>4
<1>5. Progress' /\ Blame'
  BY <1>0, <1>1, <1>4, SamplesStay
<1>6. Descriptors'
  <2>1. Closed("start")' = Closed("start") /\ Closed("stop")' = Closed("stop")
    BY <1>2 DEF Closed
  <2> QED
    BY <1>0, <1>2, <2>1 DEF Descriptors, starting
<1> QED
  BY <1>3, <1>4, <1>5, <1>6

-----------------------------------------------------------------------------
(* write                                                                   *)

\* The goal moves when every source has reached it.
LEMMA NewStripeProgress ==
  ASSUME Progress, pending = {}, NewStripe,
         chunks' \in 0..MaxChunks, goal' <= chunks' * Chunk,
         UNCHANGED <<reader, sent, consumed, events>>, pc'["handoff"] = "poll"
  PROVE  Progress'
<1>0. goal' = goal + Stripe /\ pending' = Sources /\ goal \in Nat /\ Stripe \in Nat /\ 0 < Stripe
  BY StripeFits DEF NewStripe, Progress
<1>1. \A i \in Sources : sent[i] = goal /\ sent'[i] = sent[i]
  BY <1>0 DEF Progress
<1>2. \E k \in Nat : goal' = k * Stripe
  <2>1. PICK k \in Nat : goal = k * Stripe
    BY DEF Progress
  <2>2. goal' = (k + 1) * Stripe /\ k + 1 \in Nat
    BY <2>1, <1>0
  <2> QED
    BY <2>2
<1>3. \A i \in Sources : Space(i)' = Space(i)
  BY DEF Space
<1>4. goal' \in 0..(chunks' * Chunk)
  <2> DEFINE top == chunks' * Chunk
  <2>1. top \in Nat
    <3>1. chunks' \in Nat
      BY FifoAssumption
    <3> QED
      BY <3>1, SamplesOfChunks
  <2>2. goal' \in Nat /\ goal' <= top
    BY <1>0
  <2> HIDE DEF top
  <2>3. goal' \in 0..top
    BY <2>1, <2>2
  <2> QED
    BY <2>3 DEF top
<1>5. \A i \in Sources : sent'[i] <= goal' /\ goal' <= sent'[i] + Stripe /\ i \in pending' /\ sent'[i] < goal'
  BY <1>0, <1>1
<1>6. pending' # {}
  BY <1>0, FifoAssumption DEF Sources
<1>7. \A i \in Sources : consumed'[i] <= sent'[i] /\ Space(i)' <= PipeSize /\ 0 <= Space(i)'
  BY <1>3 DEF Progress
<1> QED
  BY <1>0, <1>2, <1>4, <1>5, <1>6, <1>7 DEF Progress

\* write changes neither descriptors nor readers.
WriteFrame ==
  /\ UNCHANGED <<conditions, fds, list, open, starting, process, consumed>>
  /\ pc' \in [Threads -> Pcs]
  /\ pc'["start"] = pc["start"] /\ pc'["stop"] = pc["stop"]

LEMMA WriteReaders ==
  ASSUME Readers, WriteFrame
  PROVE  Readers' /\ ReadersGoOn
  BY SameReaders DEF WriteFrame, Readers, process, conditions

LEMMA WriteDescriptors ==
  ASSUME Descriptors, WriteFrame, lock' = "handoff" => lock = "handoff" \/ fds = Sources
  PROVE  Descriptors'
<1>1. Closed("start")' = Closed("start") /\ Closed("stop")' = Closed("stop")
  BY DEF Closed, WriteFrame
<1>2. lock' = "handoff" => Sources \subseteq open'
  BY DEF Descriptors, WriteFrame
<1> QED
  BY <1>1, <1>2 DEF Descriptors, WriteFrame, starting

LEMMA WriteBeginStep ==
  ASSUME IInv, WriteBegin
  PROVE  IInv'
<1> USE DEF IInv
<1>0. /\ UNCHANGED <<conditions, fds, list, open, starting, process, sent, consumed, events, stalled>>
      /\ lock = Free /\ chunks' = chunks + 1 /\ chunks < MaxChunks
      /\ pc["handoff"] = "idle" /\ pending = {}
  BY DEF WriteBegin, Goto, Progress
<1>1. WriteFrame
  BY <1>0 DEF WriteBegin, WriteFrame, Goto, At, Threads, Pcs
<1>2. Readers' /\ ReadersGoOn
  BY <1>1, WriteReaders
<1>3. Blame'
  BY <1>0, <1>2, SameBlame
<1> DEFINE old == chunks * Chunk
           new == chunks' * Chunk
<1>4. /\ chunks' \in 0..MaxChunks /\ old \in Nat /\ new = old + Chunk
      /\ goal \in Nat /\ goal <= old
  <2>1. chunks \in Nat /\ chunks' \in 0..MaxChunks
    BY <1>0, FifoAssumption DEF Progress
  <2>2. old \in Nat /\ new = old + Chunk
    BY <2>1, <1>0, StripeFits
  <2>3. goal \in 0..old
    BY DEF Progress
  <2> HIDE DEF old, new
  <2> QED
    BY <2>1, <2>2, <2>3
<1> HIDE DEF old, new
<1>5. CASE fds = Sources
  <2>1. lock' = "handoff" /\ NewStripe /\ pc'["handoff"] = "poll"
    BY <1>5 DEF WriteBegin, Goto, At, Threads, Pcs
  <2>2. At'
    BY <2>1, <1>1 DEF At, WriteFrame, HandoffPcs
  <2>3. Descriptors'
    BY <1>5, <1>1, WriteDescriptors
  <2>4. goal' <= new
    BY <2>1, <1>4, StripeFits DEF NewStripe
  <2>5. Progress'
    BY <2>1, <2>4, <1>0, <1>4, NewStripeProgress DEF process, new
  <2> QED
    BY <2>2, <2>3, <2>5, <1>2, <1>3
<1>6. CASE fds # Sources
  <2>1. UNCHANGED <<lock, goal, pending>> /\ pc'["handoff"] = "failed"
    BY <1>6 DEF WriteBegin, Goto, At, Threads, Pcs
  <2>2. At'
    BY <2>1, <1>0, <1>1 DEF At, WriteFrame, HandoffPcs
  <2>3. Descriptors'
    BY <2>1, <1>1, WriteDescriptors
  <2>4. goal' \in 0..new
    BY <2>1, <1>4, StripeFits
  <2>5. \A i \in Sources : Space(i)' = Space(i)
    BY <1>0 DEF Space
  <2>6. Progress'
    BY <2>1, <2>4, <2>5, <1>0, <1>4 DEF Progress, new
  <2> QED
    BY <2>2, <2>3, <2>6, <1>2, <1>3
<1> QED
  BY <1>5, <1>6

LEMMA PollStep ==
  ASSUME IInv, Poll
  PROVE  IInv'
<1> USE DEF IInv
<1>0. /\ UNCHANGED <<conditions, lock, fds, list, open, starting, process, sent, consumed, chunks, goal, pending, stalled>>
      /\ pc["handoff"] = "poll" /\ pc'["handoff"] = "serve"
      /\ events' = Ready /\ Ready # {}
  BY DEF Poll, Goto, At, Threads, Pcs
<1>1. WriteFrame
  BY <1>0 DEF Poll, WriteFrame, Goto, At, Threads, Pcs
<1>2. Readers' /\ ReadersGoOn
  BY <1>1, WriteReaders
<1>3. Blame'
  BY <1>0, <1>2, SameBlame
<1>4. At'
  BY <1>0, <1>1 DEF At, WriteFrame, HandoffPcs
<1>5. Descriptors'
  BY <1>0, <1>1, WriteDescriptors
<1>6. Progress'
  <2>1. \A i \in Sources : Space(i)' = Space(i)
    BY <1>0 DEF Space
  <2>2. events' \subseteq pending' /\ events' # {} /\ events' \subseteq Sources
    BY <1>0 DEF Ready, Progress
  <2>3. \A i \in events' : reader'[i] = "closed" \/ 0 < Space(i)
    BY <1>0, FifoAssumption DEF Ready, process, Space, Progress
  <2> QED
    BY <1>0, <2>1, <2>2, <2>3 DEF Progress
<1> QED
  BY <1>2, <1>3, <1>4, <1>5, <1>6

\* Why a stall blames readers that have stopped: without a slow reader no source
\* is ready, so that each pending one has a full FIFO its reader does not read.
LEMMA StallStep ==
  ASSUME IInv, Stall
  PROVE  IInv'
<1> USE DEF IInv
<1>0. /\ UNCHANGED <<conditions, fds, list, open, starting, process, sent, consumed, chunks, goal, pending, events>>
      /\ lock = "handoff" /\ lock' = Free /\ stalled' = pending /\ stalled' \subseteq Sources
      /\ pc["handoff"] = "poll" /\ pc'["handoff"] = "failed" /\ pending # {} /\ Sources \subseteq open
  BY DEF Stall, Raise, At, Threads, Pcs, Progress, Descriptors
<1>1. WriteFrame
  BY <1>0 DEF Stall, Raise, WriteFrame, At, Threads, Pcs
<1>2. Readers'
  BY <1>1, WriteReaders
<1>3. At'
  BY <1>0, <1>1 DEF At, WriteFrame, HandoffPcs
<1>4. Descriptors'
  BY <1>0, <1>1, WriteDescriptors DEF Free
<1>5. Progress'
  <2>1. \A i \in Sources : Space(i)' = Space(i)
    BY <1>0 DEF Space
  <2> QED
    BY <1>0, <2>1 DEF Progress
<1>6. \A i \in Sources : reader[i] # "none" /\ reader'[i] = reader[i]
  BY <1>0 DEF Readers, process
<1>7. ~slow => \A i \in Sources : ~CanRead(i)
  BY DEF Stall
<1>8. ~slow => \A i \in pending : consumed[i] < sent[i] /\ sent[i] = consumed[i] + PipeSize /\ sent[i] < goal
                                  /\ reader[i] # "closed"
  <2> SUFFICES ASSUME ~slow, NEW i \in pending
               PROVE  consumed[i] < sent[i] /\ sent[i] = consumed[i] + PipeSize /\ sent[i] < goal
                      /\ reader[i] # "closed"
    OBVIOUS
  <2>1. Ready = {}
    BY DEF Stall
  <2>2. reader[i] # "closed" /\ ~(Space(i) > 0)
    BY <2>1 DEF Ready
  <2>3. i \in Sources /\ sent[i] \in Nat /\ consumed[i] \in Nat /\ 0 <= Space(i) /\ sent[i] < goal
    BY DEF Progress
  <2>4. PipeSize \in Nat /\ 0 < PipeSize
    BY FifoAssumption
  <2> QED
    BY <2>2, <2>3, <2>4 DEF Space
<1>9. StallNamesStopped'
  <2> SUFFICES ASSUME ~lockstep, ~slow, NEW i \in pending
               PROVE  reader[i] # "open"
    BY <1>0, <1>6 DEF StallNamesStopped, conditions
  <2>1. consumed[i] < sent[i] /\ i \in Sources
    BY <1>8, <1>0
  <2> QED
    BY <2>1, <1>7 DEF CanRead
<1>10. NoCircularWait'
  <2> SUFFICES ASSUME ~slow, \A i \in Sources : reader[i] = "open"
               PROVE  FALSE
    <3>1. \A i \in Sources : reader[i] \notin {"stopped", "closed"} => reader[i] = "open"
      BY <1>6 DEF Readers
    <3> QED
      BY <3>1, <1>0, <1>6 DEF NoCircularWait, conditions
  <2>1. PICK m \in Sources : \A j \in Sources : consumed[m] <= consumed[j]
    BY FurthestBehind DEF Progress
  <2>2. \A i \in Sources : sent[i] \in Nat /\ consumed[i] \in Nat /\ consumed[i] <= sent[i]
    BY DEF Progress
  <2>3. Window \in Nat /\ 0 < Window /\ PipeSize \in Nat /\ 0 < PipeSize
    BY FifoAssumption
  <2>4. \A j \in Sources : consumed[m] < consumed[j] + Window
    BY <2>1, <2>2, <2>3
  <2>5. ~(consumed[m] < sent[m])
    BY <2>4, <1>7 DEF CanRead
  <2>6. m \notin pending
    BY <2>5, <1>8
  <2>7. sent[m] = goal /\ consumed[m] = goal /\ goal \in Nat
    BY <2>5, <2>6, <2>2 DEF Progress
  <2>8. PICK p \in Sources : p \in pending
    BY <1>0 DEF Progress
  <2>9. sent[p] = consumed[p] + PipeSize /\ sent[p] < goal /\ consumed[m] <= consumed[p]
    BY <2>8, <2>1, <1>8
  <2> QED
    BY <2>7, <2>9, <2>2, <2>3
<1>11. Blame'
  BY <1>0, <1>6, <1>9, <1>10 DEF Blame
<1> QED
  BY <1>2, <1>3, <1>4, <1>5, <1>11

\* One event: the descriptor of a process that is gone raises; else the FIFO takes
\* at least a sample, and the source is through when it has reached the goal.
LEMMA ServeStep ==
  ASSUME IInv, Serve
  PROVE  IInv'
<1> USE DEF IInv
<1>0. /\ UNCHANGED <<conditions, fds, list, open, starting, process, consumed, chunks, goal, stalled>>
      /\ pc["handoff"] = "serve" /\ lock = "handoff"
  BY DEF Serve, At
<1>1. PICK i \in events :
        \/ reader[i] = "closed" /\ Raise /\ UNCHANGED <<conditions, sent, pending, events>>
        \/ /\ reader[i] # "closed"
           /\ sent' = [sent EXCEPT ![i] = @ + Fits(i)]
           /\ pending' = IF sent'[i] = goal THEN pending \ {i} ELSE pending
           /\ events' = events \ {i}
           /\ pc' = [pc EXCEPT !["handoff"] = IF events' # {} THEN "serve"
                                              ELSE IF pending' # {} THEN "poll" ELSE "stripe"]
           /\ UNCHANGED lock
  BY DEF Serve
<1>2. /\ events \subseteq pending /\ i \in Sources /\ i \in pending
      /\ (reader[i] = "closed" \/ 0 < Space(i))
  BY <1>0 DEF Progress
<1>3. WriteFrame
  BY <1>0, <1>1 DEF Raise, WriteFrame, At, Threads, Pcs
<1>4. Readers' /\ ReadersGoOn
  BY <1>3, WriteReaders
<1>5. Blame'
  BY <1>0, <1>4, SameBlame
<1>6. Descriptors'
  BY <1>0, <1>3, WriteDescriptors
<1>7. CASE reader[i] = "closed"
  <2>1. /\ UNCHANGED <<sent, pending, events>> /\ lock' = Free
        /\ pc'["handoff"] = "failed"
    BY <1>1, <1>7 DEF Raise, At, Threads, Pcs
  <2>2. At'
    BY <2>1, <1>3 DEF At, WriteFrame, HandoffPcs
  <2>3. \A j \in Sources : Space(j)' = Space(j)
    BY <2>1, <1>0 DEF Space
  <2>4. Progress'
    BY <2>1, <2>3, <1>0 DEF Progress
  <2> QED
    BY <2>2, <2>4, <1>4, <1>5, <1>6
<1>8. CASE reader[i] # "closed"
  <2>0. /\ sent' = [sent EXCEPT ![i] = @ + Fits(i)]
        /\ pending' = IF sent'[i] = goal THEN pending \ {i} ELSE pending
        /\ events' = events \ {i}
        /\ pc' = [pc EXCEPT !["handoff"] = IF events' # {} THEN "serve"
                                           ELSE IF pending' # {} THEN "poll" ELSE "stripe"]
        /\ lock' = lock
    BY <1>1, <1>8
  <2>1. pc'["handoff"] = IF events' # {} THEN "serve" ELSE IF pending' # {} THEN "poll" ELSE "stripe"
    BY <2>0 DEF At, Threads, Pcs
  <2>2. At'
    BY <2>0, <2>1, <1>0, <1>3 DEF At, WriteFrame, HandoffPcs
  <2>3. \A j \in Sources : sent[j] \in Nat /\ consumed[j] \in Nat
    BY DEF Progress
  <2>4. sent[i] < goal /\ goal \in Nat /\ 0 < Space(i) /\ Space(i) \in Int /\ PipeSize \in Nat
    BY <1>2, <1>8, <2>3, StripeFits, FifoAssumption DEF Progress, Space
  <2>5. Fits(i) \in Nat /\ 0 < Fits(i) /\ Fits(i) <= Space(i) /\ sent[i] + Fits(i) <= goal
    BY <2>3, <2>4, <1>2 DEF Fits
  <2>6. /\ sent' \in [Sources -> Nat]
        /\ sent'[i] = sent[i] + Fits(i)
        /\ \A j \in Sources \ {i} : sent'[j] = sent[j] /\ Space(j)' = Space(j)
    BY <2>0, <2>5, <1>0, <1>2 DEF Progress, Space
  <2>7. Space(i)' = Space(i) - Fits(i)
    BY <2>6, <2>3, <2>4, <2>5, <1>0, <1>2 DEF Space
  <2>8. \A j \in Sources : consumed'[j] <= sent'[j] /\ Space(j)' <= PipeSize /\ 0 <= Space(j)'
    <3> SUFFICES ASSUME NEW j \in Sources
                 PROVE  consumed'[j] <= sent'[j] /\ Space(j)' <= PipeSize /\ 0 <= Space(j)'
      OBVIOUS
    <3>1. consumed[j] <= sent[j] /\ Space(j) <= PipeSize /\ 0 <= Space(j) /\ consumed' = consumed
      BY <1>0 DEF Progress
    <3>2. CASE j = i
      BY <3>1, <3>2, <2>3, <2>4, <2>5, <2>6, <2>7
    <3>3. CASE j # i
      BY <3>1, <3>3, <2>6
    <3> QED
      BY <3>2, <3>3
  <2>9. \A j \in Sources : /\ sent'[j] <= goal' /\ goal' <= sent'[j] + Stripe
                           /\ j \in pending' <=> sent'[j] < goal'
    <3> SUFFICES ASSUME NEW j \in Sources
                 PROVE  /\ sent'[j] <= goal' /\ goal' <= sent'[j] + Stripe
                        /\ j \in pending' <=> sent'[j] < goal'
      OBVIOUS
    <3>1. sent[j] <= goal /\ goal <= sent[j] + Stripe /\ (j \in pending <=> sent[j] < goal) /\ goal' = goal
      BY <1>0 DEF Progress
    <3>2. CASE j = i
      BY <3>1, <3>2, <2>0, <2>3, <2>4, <2>5, <2>6, <1>2, StripeFits
    <3>3. CASE j # i
      BY <3>1, <3>3, <2>0, <2>6
    <3> QED
      BY <3>2, <3>3
  <2>10. /\ events' \subseteq pending' /\ {pending', events'} \subseteq SUBSET Sources
         /\ \A j \in events' : reader'[j] = "closed" \/ 0 < Space(j)'
    <3>1. events' \subseteq pending' /\ {pending', events'} \subseteq SUBSET Sources
      BY <2>0, <1>2 DEF Progress
    <3>2. \A j \in events' : j \in events /\ j \in Sources \ {i}
      BY <2>0, <1>2 DEF Progress
    <3>3. \A j \in events' : reader'[j] = reader[j] /\ Space(j)' = Space(j)
      BY <3>2, <2>6, <1>0 DEF process
    <3>4. \A j \in events : reader[j] = "closed" \/ 0 < Space(j)
      BY <1>0 DEF Progress
    <3> QED
      BY <3>1, <3>2, <3>3, <3>4
  <2>11. /\ pc'["handoff"] \in {"idle", "stripe"} => pending' = {}
         /\ pc'["handoff"] = "poll" => pending' # {}
         /\ pc'["handoff"] = "serve" => events' # {}
    BY <2>1
  <2>12. /\ consumed' \in [Sources -> Nat]
         /\ chunks' \in 0..MaxChunks /\ goal' \in 0..(chunks' * Chunk)
         /\ \E k \in Nat : goal' = k * Stripe
    BY <1>0 DEF Progress
  <2>13. Progress'
    BY <2>6, <2>8, <2>9, <2>10, <2>11, <2>12 DEF Progress
  <2> QED
    BY <2>2, <2>13, <1>4, <1>5, <1>6
<1> QED
  BY <1>7, <1>8

LEMMA StripeEndsStep ==
  ASSUME IInv, StripeEnds
  PROVE  IInv'
<1> USE DEF IInv
<1>0. /\ UNCHANGED <<conditions, fds, list, open, starting, process, sent, consumed, chunks, events, stalled>>
      /\ pc["handoff"] = "stripe" /\ lock = "handoff" /\ pending = {}
  BY DEF StripeEnds, Goto, At, Progress
<1>1. WriteFrame
  BY <1>0 DEF StripeEnds, WriteFrame, Goto, At, Threads, Pcs
<1>2. Readers' /\ ReadersGoOn
  BY <1>1, WriteReaders
<1>3. Blame'
  BY <1>0, <1>2, SameBlame
<1>4. Descriptors'
  BY <1>0, <1>1, WriteDescriptors
<1>5. CASE goal < chunks * Chunk /\ Goto("handoff", "stripe", "poll") /\ NewStripe /\ UNCHANGED lock
  <2>1. pc'["handoff"] = "poll" /\ NewStripe /\ lock' = lock
    BY <1>5 DEF Goto, At, Threads, Pcs
  <2>2. At'
    BY <2>1, <1>0, <1>1 DEF At, WriteFrame, HandoffPcs
  <2>3. goal' <= chunks' * Chunk
    <3>1. chunks \in Nat /\ chunks' = chunks
      BY <1>0, FifoAssumption DEF Progress
    <3>2. PICK k \in Nat : goal = k * Stripe
      BY DEF Progress
    <3>3. (k + 1) * Stripe <= chunks * Chunk
      BY <1>5, <3>1, <3>2, StripesInChunks
    <3>4. goal' = (k + 1) * Stripe
      BY <2>1, <3>2, StripeFits DEF NewStripe
    <3> QED
      BY <3>1, <3>3, <3>4
  <2>4. chunks' \in 0..MaxChunks
    BY <1>0 DEF Progress
  <2>5. Progress'
    BY <2>1, <2>3, <2>4, <1>0, NewStripeProgress DEF process
  <2> QED
    BY <2>2, <2>5, <1>2, <1>3, <1>4
<1>6. CASE Goto("handoff", "stripe", "idle") /\ lock' = Free /\ UNCHANGED <<goal, pending>>
  <2>1. pc'["handoff"] = "idle"
    BY <1>6 DEF Goto, At, Threads, Pcs
  <2>2. At'
    BY <2>1, <1>6, <1>1 DEF At, WriteFrame, HandoffPcs
  <2>3. \A j \in Sources : Space(j)' = Space(j)
    BY <1>0 DEF Space
  <2>4. Progress'
    BY <2>1, <2>3, <1>6, <1>0 DEF Progress
  <2> QED
    BY <2>2, <2>4, <1>2, <1>3, <1>4
<1> QED
  BY <1>5, <1>6 DEF StripeEnds

-----------------------------------------------------------------------------
(* GNSS-SDR                                                                *)

LEMMA ReaderMoves ==
  ASSUME IInv, Exit \/ \E i \in Sources : ReaderOpens(i) \/ ReaderStops(i)
  PROVE  IInv'
<1> USE DEF IInv
<1>0. UNCHANGED <<conditions, pc, lock, fds, list, open, starting, known, sent, consumed, writing>>
  BY DEF Exit, ReaderOpens, ReaderStops
<1>1. ReadersGoOn /\ proc' \in BOOLEAN
  <2>1. CASE Exit
    <3>1. proc' = FALSE /\ reader' = [i \in Sources |-> "closed"]
      BY <2>1 DEF Exit, Exited
    <3> QED
      BY <3>1 DEF ReadersGoOn
  <2>2. ASSUME NEW i \in Sources, ReaderOpens(i) \/ ReaderStops(i)
        PROVE  ReadersGoOn /\ proc' \in BOOLEAN
    <3>1. \E r \in {"open", "stopped"} : /\ reader' = [reader EXCEPT ![i] = r]
                                         /\ \/ reader[i] = "none" /\ r = "open"
                                            \/ reader[i] = "open" /\ r = "stopped"
      BY <2>2 DEF ReaderOpens, ReaderStops
    <3>2. proc' \in BOOLEAN
      BY <2>2 DEF ReaderOpens, ReaderStops, Readers
    <3> QED
      BY <3>1, <3>2 DEF ReadersGoOn, Readers
  <2> QED
    BY <2>1, <2>2
<1>2. Readers'
  <2>1. \A i \in open : i \in Sources /\ reader[i] # "none"
    BY DEF Readers, Descriptors
  <2>2. \A i \in open : reader'[i] # "none"
    BY <2>1, <1>1 DEF ReadersGoOn
  <2> QED
    BY <2>2, <1>0, <1>1 DEF Readers, ReadersGoOn, conditions
<1>3. At'
  BY <1>0 DEF At
<1>4. Descriptors'
  <2>1. Closed("start")' = Closed("start") /\ Closed("stop")' = Closed("stop")
    BY <1>0 DEF Closed
  <2> QED
    BY <1>0, <2>1 DEF Descriptors, starting
<1>5. Progress' /\ Blame'
  BY <1>0, <1>1, SamplesStay
<1> QED
  BY <1>2, <1>3, <1>4, <1>5

LEMMA ReadStep ==
  ASSUME IInv, NEW i \in Sources, Read(i)
  PROVE  IInv'
<1> USE DEF IInv
<1>0. /\ UNCHANGED <<conditions, pc, lock, fds, list, open, starting, process, sent, writing>>
      /\ consumed' = [consumed EXCEPT ![i] = @ + 1]
      /\ consumed[i] < sent[i]
  BY DEF Read, CanRead
<1>1. Readers' /\ ReadersGoOn
  BY <1>0, SameReaders DEF Readers, process, conditions
<1>2. At'
  BY <1>0 DEF At
<1>3. Descriptors'
  <2>1. Closed("start")' = Closed("start") /\ Closed("stop")' = Closed("stop")
    BY <1>0 DEF Closed
  <2> QED
    BY <1>0, <2>1 DEF Descriptors, starting
<1>4. Blame'
  BY <1>0, <1>1, SameBlame DEF writing
<1>5. Progress'
  <2>1. \A j \in Sources : sent[j] \in Nat /\ consumed[j] \in Nat
    BY DEF Progress
  <2>2. /\ consumed' \in [Sources -> Nat] /\ consumed'[i] = consumed[i] + 1
        /\ \A j \in Sources \ {i} : consumed'[j] = consumed[j]
    BY <1>0, <2>1 DEF Progress
  <2>3. PipeSize \in Nat
    BY FifoAssumption
  <2>4. \A j \in Sources : /\ consumed'[j] <= sent'[j]
                           /\ Space(j)' <= PipeSize /\ Space(j) <= Space(j)' /\ Space(j) \in Int
    <3> SUFFICES ASSUME NEW j \in Sources
                 PROVE  /\ consumed'[j] <= sent'[j]
                        /\ Space(j)' <= PipeSize /\ Space(j) <= Space(j)' /\ Space(j) \in Int
      OBVIOUS
    <3>1. consumed[j] <= sent[j] /\ sent' = sent
      BY <1>0 DEF Progress
    <3>2. consumed'[j] \in {consumed[j], consumed[j] + 1} /\ consumed'[j] <= sent[j]
      BY <3>1, <2>2, <1>0, <2>1
    <3> QED
      BY <3>1, <3>2, <2>1, <2>3 DEF Space
  <2>5. \A j \in Sources : 0 <= Space(j) /\ (0 <= Space(j)') /\ (0 < Space(j) => 0 < Space(j)')
    <3> SUFFICES ASSUME NEW j \in Sources
                 PROVE  0 <= Space(j) /\ (0 <= Space(j)') /\ (0 < Space(j) => 0 < Space(j)')
      OBVIOUS
    <3>1. 0 <= Space(j)
      BY DEF Progress
    <3>2. Space(j)' \in Int
      BY <1>0, <2>1, <2>2, <2>3 DEF Space
    <3> QED
      BY <3>1, <3>2, <2>4
  <2>6. pc'["handoff"] = "serve" => \A j \in events' : reader'[j] = "closed" \/ 0 < Space(j)'
    <3> SUFFICES ASSUME pc["handoff"] = "serve", NEW j \in events
                 PROVE  reader[j] = "closed" \/ 0 < Space(j)'
      BY <1>0 DEF writing, process
    <3>1. j \in Sources /\ (reader[j] = "closed" \/ 0 < Space(j))
      BY DEF Progress
    <3> QED
      BY <3>1, <2>5
  <2>7. UNCHANGED <<sent, pending, events, chunks, goal, pc>>
    BY <1>0 DEF writing
  <2> QED
    BY <2>2, <2>4, <2>5, <2>6, <2>7 DEF Progress
<1> QED
  BY <1>1, <1>2, <1>3, <1>4, <1>5

-----------------------------------------------------------------------------
LEMMA Inductive == IInv /\ [Next]_vars => IInv'
<1> SUFFICES ASSUME IInv, [Next]_vars
             PROVE  IInv'
  OBVIOUS
<1>1. CASE Start
  BY <1>1, StartStep
<1>2. CASE StopBegin
  BY <1>2, StopBeginStep
<1>3. CASE Stop("start") \/ Stop("stop")
  BY <1>3, StopCloseStep, StopReapStep DEF Stop
<1>4. CASE Write
  BY <1>4, WriteBeginStep, PollStep, StallStep, ServeStep, StripeEndsStep DEF Write
<1>5. CASE GnssSdr
  BY <1>5, ReaderMoves, ReadStep DEF GnssSdr
<1>6. CASE UNCHANGED vars
  <2>1. /\ UNCHANGED <<conditions, pc, lock, fds, list, open, next, into, proc, known, reader>>
        /\ UNCHANGED <<sent, consumed, writing>>
    BY <1>6 DEF vars, starting, process
  <2>2. ReadersGoOn
    BY <2>1, SameReaders DEF IInv
  <2>3. Progress' /\ Blame'
    BY <2>1, <2>2, SamplesStay
  <2>4. At' /\ Readers'
    BY <2>1 DEF IInv, At, Readers, conditions
  <2>5. Closed("start")' = Closed("start") /\ Closed("stop")' = Closed("stop")
    BY <2>1 DEF Closed
  <2>6. Descriptors'
    BY <2>1, <2>5 DEF IInv, Descriptors
  <2> QED
    BY <2>3, <2>4, <2>6 DEF IInv
<1> QED
  BY <1>1, <1>2, <1>3, <1>4, <1>5, <1>6 DEF Next

\* The inductive invariant holds, for all constants.
THEOREM Invariance == Spec => []IInv
  BY Initially, Inductive, PTL DEF Spec

LEMMA InvIsFair == IInv => WritesAreFair
<1> SUFFICES ASSUME IInv
             PROVE  WritesAreFair
  OBVIOUS
<1> USE DEF IInv
<1>1. TypeOK
  <2>1. lock \in {Free, "handoff"} /\ pc \in [Threads -> Pcs]
    BY DEF At
  <2>2. {fds, open, pending, events, stalled} \subseteq SUBSET Sources
    BY DEF Descriptors, Progress, Blame
  <2>3. list \in 0..2 /\ into \in 0..list /\ next \in 1..(N + 1)
    BY DEF Descriptors, Closed
  <2>4. \A i \in Sources : consumed[i] \in 0..sent[i] /\ Space(i) \in 0..PipeSize
    BY FifoAssumption DEF Progress, Space
  <2> QED
    BY <2>1, <2>2, <2>3, <2>4 DEF TypeOK, Readers, Progress
<1>2. LeadBounded
  <2> SUFFICES ASSUME NEW i \in Sources, NEW j \in Sources
               PROVE  sent[i] <= sent[j] + Stripe
    BY DEF LeadBounded
  <2>1. sent[i] <= goal /\ goal <= sent[j] + Stripe /\ sent[i] \in Nat /\ sent[j] \in Nat /\ goal \in Int
    BY DEF Progress
  <2> QED
    BY <2>1, StripeFits
<1>3. WritesAreOpen
  BY DEF WritesAreOpen, At, Descriptors, Free
<1> QED
  BY <1>1, <1>2, <1>3 DEF WritesAreFair, Blame

\* Whatever start and stop do at the same time, samples go only to descriptors
\* that are open, no source is more than a stripe ahead, and a stall that nothing
\* slow explains blames only readers that have stopped.
THEOREM FairWrites == Spec => []WritesAreFair
  BY Invariance, InvIsFair, PTL

\* A writer that waits for all sources and readers that wait for each other never
\* wait in a circle, for every number of sources, pipe size and window.
THEOREM NoCircle == Spec => []NoCircularWait
<1>1. IInv => NoCircularWait
  BY DEF IInv, Blame
<1> QED
  BY <1>1, Invariance, PTL
=============================================================================
