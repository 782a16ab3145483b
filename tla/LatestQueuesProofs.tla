------------------------- MODULE LatestQueuesProofs -------------------------
(***************************************************************************)
(* The safety of LatestQueues and its refinement of NewestOnly, for every  *)
(* capacity of the queues and every number of chunks.                      *)
(***************************************************************************)
EXTENDS LatestQueues, TLAPS

\* The calls of put_latest a thread may have left: a shutdown, the second half
\* of one, or a chunk for a stage.
Shutdown == << <<"phase", Sentinel>>, <<"doa", Sentinel>> >>
Rest == << <<"doa", Sentinel>> >>
Call(s, n) == << <<s, n>> >>

\* The thread that hands chunks to a stage, and the last one it has.
Producer(s) == IF s = "phase" THEN "rx" ELSE "phase"
Source(s) == IF s = "phase" THEN sent ELSE done["phase"]

Pending(s) == puts[Producer(s)] = Call(s, Source(s))

Types ==
  /\ running \in BOOLEAN
  /\ queue \in [Stages -> Seq(Items)] /\ \A s \in Stages : Len(queue[s]) <= Capacity
  /\ pc \in [Threads -> {"check", "recv", "get", "work", "loop", "join", "idle", "end"}]
  /\ puts \in [Threads -> Seq(Stages \X Items)]
  /\ step \in [Threads -> {"put", "get", "again"}]
  /\ hold \in [Stages -> Items]
  /\ sent \in Items /\ done \in [Stages -> Items]

\* Who may have which calls left; a sentinel is put only after _running was cleared.
Calls ==
  /\ \A t \in {"rx", "run", "stop"} : puts[t] \in {Shutdown, Rest} => ~running
  /\ puts["rx"] \in {<< >>, Shutdown, Rest} \/ (Pending("phase") /\ sent > 0)
  /\ \A t \in {"run", "stop"} : puts[t] \in {<< >>, Shutdown, Rest}
  /\ puts["phase"] = << >> \/ (Pending("doa") /\ done["phase"] > 0)
  /\ puts["doa"] = << >>
  /\ \A t \in Threads : puts[t] = << >> => step[t] = "put"

\* While the run is up, nothing ends a stage.
Serving == running => \A s \in Stages :
  /\ pc[s] # "end"
  /\ \A i \in 1..Len(queue[s]) : queue[s][i] # Sentinel

\* While the run is up, the room made by the only producer stays.
RoomKept == running => \A s \in Stages :
  step[Producer(s)] = "again" => Len(queue[s]) < Capacity

\* Chunks are ahead of the one in hand, that one ahead of the results, and the
\* one still to be put ahead of all.
Ordered(s) ==
  /\ \A i \in 1..Len(queue[s]) : queue[s][i] <= Source(s)
  /\ \A i, j \in 1..Len(queue[s]) :
       i < j /\ queue[s][j] # Sentinel => queue[s][i] < queue[s][j]
  /\ Pending(s) => \A i \in 1..Len(queue[s]) : queue[s][i] < Source(s)
  /\ pc[s] # "end" =>
       /\ done[s] <= hold[s] /\ hold[s] <= Source(s)
       /\ pc[s] = "work" => done[s] < hold[s]
       /\ \A i \in 1..Len(queue[s]) : queue[s][i] # Sentinel => hold[s] < queue[s][i]
       /\ Pending(s) => hold[s] < Source(s)

\* The newest chunk is in hand or last in the queue.
Kept(s) == running /\ puts[Producer(s)] = << >> /\ Source(s) > 0 =>
  hold[s] = Source(s) \/ (queue[s] # << >> /\ queue[s][Len(queue[s])] = Source(s))

IInv == Types /\ Calls /\ Serving /\ RoomKept /\ \A s \in Stages : Ordered(s) /\ Kept(s)

-----------------------------------------------------------------------------
(* Sequences and calls                                                     *)

\* An item put at the end leaves the others where they were.
LEMMA AppendFacts ==
  ASSUME NEW S, NEW q \in Seq(S), NEW x \in S
  PROVE  /\ Append(q, x) \in Seq(S) /\ Len(q) \in Nat /\ Len(Append(q, x)) = Len(q) + 1
         /\ \A i \in 1..Len(q) : q[i] \in S /\ Append(q, x)[i] = q[i]
         /\ Append(q, x)[Len(q) + 1] = x /\ Append(q, x) # << >>
  OBVIOUS

\* An item taken from the head moves the others up by one.
LEMMA TailFacts ==
  ASSUME NEW S, NEW q \in Seq(S), q # << >>
  PROVE  /\ Tail(q) \in Seq(S) /\ Len(q) \in Nat /\ Len(q) > 0 /\ Len(Tail(q)) = Len(q) - 1
         /\ \A i \in 1..Len(q) : q[i] \in S
         /\ \A i \in 1..(Len(q) - 1) : Tail(q)[i] = q[i + 1]
         /\ Head(q) = q[1] /\ Head(q) \in S
  OBVIOUS

\* What the calls consist of.
LEMMA CallFacts ==
  /\ Shutdown # << >> /\ Rest # << >> /\ Tail(Shutdown) = Rest /\ Tail(Rest) = << >>
  /\ Shutdown[1] = <<"phase", 0>> /\ Rest[1] = <<"doa", 0>>
  /\ \A s \in Stages, n \in Items :
       Call(s, n) # << >> /\ Tail(Call(s, n)) = << >> /\ Call(s, n)[1] = <<s, n>>
  /\ \A n \in Items : Call("phase", n) # Rest /\ Call("phase", n) # Shutdown
  BY DEF Shutdown, Rest, Call, Sentinel, Stages

\* They are sequences of at most two.
LEMMA CallTypes ==
  /\ << >> \in Seq(Stages \X Items) /\ Len(<< >>) = 0
  /\ Shutdown \in Seq(Stages \X Items) /\ Len(Shutdown) = 2
  /\ Rest \in Seq(Stages \X Items) /\ Len(Rest) = 1
  /\ \A s \in Stages, n \in Items : Call(s, n) \in Seq(Stages \X Items) /\ Len(Call(s, n)) = 1
<1> DEFINE E == Stages \X Items
<1>1. <<"phase", 0>> \in E /\ <<"doa", 0>> \in E /\ \A s \in Stages, n \in Items : <<s, n>> \in E
  BY MaxChunksAssumption DEF Stages, Items
<1> HIDE DEF E
<1>2. << >> \in Seq(E) /\ Len(<< >>) = 0
  OBVIOUS
<1>3. Shutdown \in Seq(E) /\ Len(Shutdown) = 2
  <2>1. ASSUME NEW a \in E, NEW b \in E PROVE <<a, b>> \in Seq(E) /\ Len(<<a, b>>) = 2
    OBVIOUS
  <2>2. Shutdown = << <<"phase", 0>>, <<"doa", 0>> >>
    BY DEF Shutdown, Sentinel
  <2> QED
    BY <1>1, <2>1, <2>2
<1>5. Rest \in Seq(E) /\ Len(Rest) = 1
  BY <1>1 DEF Rest, Sentinel
<1>4. \A s \in Stages, n \in Items : Call(s, n) \in Seq(E) /\ Len(Call(s, n)) = 1
  <2>1. ASSUME NEW a \in E PROVE <<a>> \in Seq(E) /\ Len(<<a>>) = 1
    OBVIOUS
  <2> QED
    BY <1>1, <2>1 DEF Call
<1> QED
  BY <1>2, <1>3, <1>4, <1>5 DEF E

\* A call in progress puts a sentinel of a run that has been stopped, or the
\* newest chunk of a stage's producer.
LEMMA CallInProgress ==
  ASSUME IInv, NEW t \in Threads, puts[t] # << >>
  PROVE  /\ Target(t) \in Stages /\ puts[t][1][2] \in Items
         /\ \/ /\ puts[t][1][2] = 0 /\ ~running /\ t \in {"rx", "run", "stop"}
               /\ puts[t] \in {Shutdown, Rest} /\ Tail(puts[t]) \in {Rest, << >>}
            \/ /\ puts[t][1][2] > 0 /\ t = Producer(Target(t)) /\ Pending(Target(t))
               /\ puts[t][1][2] = Source(Target(t)) /\ Tail(puts[t]) = << >>
<1>1. CASE puts[t] \in {Shutdown, Rest} /\ t \in {"rx", "run", "stop"}
  <2>1. ~running /\ 0 \in Items
    BY <1>1, MaxChunksAssumption DEF IInv, Calls, Items
  <2>2. /\ puts[t][1] \in {<<"phase", 0>>, <<"doa", 0>>} /\ Tail(puts[t]) \in {Rest, << >>}
    BY <1>1, CallFacts
  <2>3. Target(t) \in Stages /\ puts[t][1][2] = 0
    BY <2>2 DEF Target, Stages
  <2> QED
    BY <1>1, <2>1, <2>2, <2>3
<1>2. CASE t = "rx" /\ Pending("phase") /\ sent > 0
  <2>1. sent \in Items /\ "phase" \in Stages
    BY DEF IInv, Types, Stages
  <2>2. puts[t] = Call("phase", sent)
    BY <1>2 DEF Pending, Producer, Source
  <2> QED
    BY <1>2, <2>1, <2>2, CallFacts DEF Target, Producer, Source
<1>3. CASE t = "phase" /\ Pending("doa") /\ done["phase"] > 0
  <2>1. done["phase"] \in Items /\ "doa" \in Stages
    BY DEF IInv, Types, Stages
  <2>2. puts[t] = Call("doa", done["phase"])
    BY <1>3 DEF Pending, Producer, Source
  <2> QED
    BY <1>3, <2>1, <2>2, CallFacts DEF Target, Producer, Source
<1> QED
  BY <1>1, <1>2, <1>3 DEF IInv, Calls, Threads, Stages

-----------------------------------------------------------------------------
(* put_latest                                                              *)

\* A call ends: its item is in the queue, or is dropped once the run is stopped.
PutEnds(t) ==
  /\ puts[t] # << >>
  /\ \/ Len(queue[Target(t)]) < Capacity /\ PutItem(t)
     \/ ~running /\ UNCHANGED queue
  /\ CallDone(t) /\ UNCHANGED <<running, pc, hold, sent, done>>

\* Only put_latest calls that lost the room they had made drop their own item,
\* and that is after _running was cleared.
LEMMA PutLatestCases ==
  ASSUME IInv, NEW t \in Threads, PutLatest(t)
  PROVE  \/ PutEnds(t)
         \/ DropOldest(t)
         \/ /\ puts[t] # << >> /\ step[t] = "put" /\ step' = [step EXCEPT ![t] = "get"]
            /\ UNCHANGED <<running, queue, pc, puts, hold, sent, done>>
<1> USE DEF AtStep
<1>1. \A s \in Stages : Len(queue[s]) \in Nat /\ Len(queue[s]) <= Capacity
  BY DEF IInv, Types
<1>2. CASE PutNow(t)
  <2>1. puts[t] # << >>
    BY <1>2 DEF PutNow
  <2>2. Target(t) \in Stages
    BY <2>1, CallInProgress
  <2> QED
    BY <1>1, <1>2, <2>1, <2>2, CapacityAssumption DEF PutNow, PutEnds, Full
<1>3. CASE PutAgain(t)
  <2>1. puts[t] # << >> /\ step[t] = "again"
    BY <1>3 DEF PutAgain
  <2>2. Target(t) \in Stages
    BY <2>1, CallInProgress
  <2>3. ASSUME Full(Target(t)) PROVE ~running
    <3>1. running => t = Producer(Target(t))
      BY <2>1, CallInProgress
    <3>2. Len(queue[Target(t)]) = Capacity
      BY <2>3 DEF Full
    <3> QED
      BY <1>1, <2>1, <2>2, <3>1, <3>2, CapacityAssumption DEF IInv, RoomKept
  <2> QED
    BY <1>1, <1>3, <2>1, <2>2, <2>3, CapacityAssumption DEF PutAgain, PutEnds, Full
<1> QED
  BY <1>2, <1>3 DEF PutLatest

LEMMA PutEndsStep ==
  ASSUME IInv, NEW t \in Threads, PutEnds(t)
  PROVE  IInv'
<1> DEFINE s == Target(t)
           x == puts[t][1][2]
<1>1. /\ s \in Stages /\ x \in Items /\ Items \subseteq Nat
      /\ \/ /\ x = 0 /\ ~running /\ t \in {"rx", "run", "stop"}
            /\ puts[t] \in {Shutdown, Rest} /\ Tail(puts[t]) \in {Rest, << >>}
         \/ x > 0 /\ t = Producer(s) /\ Pending(s) /\ x = Source(s) /\ Tail(puts[t]) = << >>
  <2>1. puts[t] # << >> /\ Items \subseteq Nat
    BY MaxChunksAssumption DEF PutEnds, Items
  <2> QED
    BY <2>1, CallInProgress
<1>2. /\ running' = running /\ pc' = pc /\ hold' = hold /\ sent' = sent /\ done' = done
      /\ puts' = [puts EXCEPT ![t] = Tail(@)] /\ step' = [step EXCEPT ![t] = "put"]
      /\ \A r \in Stages : Source(r)' = Source(r) /\ Source(r) \in Items
  BY DEF PutEnds, CallDone, Source, IInv, Types, Stages
<1>3. \/ Len(queue[s]) < Capacity /\ queue' = [queue EXCEPT ![s] = Append(@, x)]
      \/ ~running /\ queue' = queue
  BY DEF PutEnds, PutItem
<1>4. \A r \in Stages : queue[r] \in Seq(Items) /\ Len(queue[r]) \in Nat
  BY DEF IInv, Types
<1>5. /\ Append(queue[s], x) \in Seq(Items) /\ Len(Append(queue[s], x)) = Len(queue[s]) + 1
      /\ \A i \in 1..Len(queue[s]) : queue[s][i] \in Items /\ Append(queue[s], x)[i] = queue[s][i]
      /\ Append(queue[s], x)[Len(queue[s]) + 1] = x /\ Append(queue[s], x) # << >>
  BY <1>1, <1>4, AppendFacts
<1> HIDE DEF s, x
<1>6. Types'
  <2>1. queue' \in [Stages -> Seq(Items)]
    BY <1>1, <1>3, <1>4, <1>5 DEF IInv, Types
  <2>2. \A r \in Stages : Len(queue'[r]) <= Capacity
    <3> TAKE r \in Stages
    <3>1. Len(queue[r]) <= Capacity /\ Len(queue[r]) \in Nat
      BY <1>4 DEF IInv, Types
    <3>2. queue'[r] = queue[r] \/ (r = s /\ Len(queue[s]) < Capacity /\ queue'[r] = Append(queue[s], x))
      BY <1>1, <1>3 DEF IInv, Types
    <3> QED
      BY <1>5, <3>1, <3>2, CapacityAssumption
  <2>3. Tail(puts[t]) \in Seq(Stages \X Items)
    BY <1>1, CallTypes
  <2> QED
    BY <1>2, <2>1, <2>2, <2>3 DEF IInv, Types
<1>7. Calls'
  <2>1. \A r \in Threads : r # t => puts'[r] = puts[r] /\ step'[r] = step[r]
    BY <1>2 DEF IInv, Types
  <2>2. puts'[t] = Tail(puts[t]) /\ step'[t] = "put"
    BY <1>2 DEF IInv, Types
  <2>3. \A r \in Threads : puts'[r] = puts[r] \/ puts'[r] \in {Rest, << >>}
    BY <1>1, <2>1, <2>2
  <2>4. t = "phase" => puts'[t] = << >>
    BY <1>1, <2>2
  <2>5. puts'[t] = Rest => ~running
    BY <1>1, <2>2, CallFacts
  <2>6. "rx" \in Threads /\ "phase" \in Threads /\ "doa" \in Threads /\ t # "doa"
    BY <1>1 DEF PutEnds, IInv, Calls, Threads, Stages, Producer
  <2>7. /\ puts'["rx"] \in {<< >>, Shutdown, Rest} \/ (Pending("phase")' /\ sent' > 0)
        /\ puts'["phase"] = << >> \/ (Pending("doa")' /\ done'["phase"] > 0)
    BY <1>2, <2>1, <2>3, <2>4, <2>6 DEF IInv, Calls, Pending, Producer, Source
  <2>8. \A r \in {"rx", "run", "stop"} : puts'[r] \in {Shutdown, Rest} => ~running'
    BY <1>1, <1>2, <2>1, <2>2, <2>5, CallFacts DEF IInv, Calls, Threads, Stages
  <2>9. \A r \in {"run", "stop"} : puts'[r] \in {<< >>, Shutdown, Rest}
    BY <2>3 DEF IInv, Calls, Threads
  <2>10. puts'["doa"] = << >> /\ \A r \in Threads : puts'[r] = << >> => step'[r] = "put"
    BY <2>1, <2>2, <2>6 DEF IInv, Calls
  <2> QED
    BY <2>7, <2>8, <2>9, <2>10 DEF Calls
<1>8. Serving'
  <2> SUFFICES ASSUME running', NEW r \in Stages
               PROVE  /\ pc'[r] # "end"
                      /\ \A i \in 1..Len(queue'[r]) : queue'[r][i] # Sentinel
    BY DEF Serving
  <2>1. pc[r] # "end" /\ \A i \in 1..Len(queue[r]) : queue[r][i] # Sentinel
    BY <1>2 DEF IInv, Serving
  <2>2. CASE r = s
    <3>1. queue'[r] = Append(queue[r], x) /\ x # Sentinel
      BY <1>1, <1>2, <1>3, <2>2 DEF IInv, Types, Sentinel
    <3> QED
      BY <1>1, <1>2, <1>4, <1>5, <2>1, <2>2, <3>1
  <2>3. CASE r # s
    BY <1>2, <1>3, <2>1, <2>3 DEF IInv, Types
  <2> QED
    BY <2>2, <2>3
<1>9. RoomKept'
  <2>1. \A r \in Stages : step'[Producer(r)] = "again" => Producer(r) # t /\ step[Producer(r)] = "again"
    BY <1>2 DEF IInv, Types, Producer, Stages, Threads
  <2>2. running => \A r \in Stages : Producer(r) # t => queue'[r] = queue[r]
    BY <1>1, <1>2, <1>3 DEF IInv, Types
  <2> QED
    BY <1>2, <2>1, <2>2 DEF IInv, RoomKept, Producer
<1>10. ASSUME NEW r \in Stages PROVE Ordered(r)' /\ Kept(r)'
  <2>1. Ordered(r) /\ Kept(r)
    BY DEF IInv
  <2>2. Pending(r)' => Pending(r) /\ Producer(r) # t
    BY <1>1, <1>2, CallFacts DEF Pending, IInv, Types, Producer, Stages, Threads
  <2>3. CASE queue'[r] = queue[r] /\ (running => r # s)
    BY <1>1, <1>2, <2>1, <2>2, <2>3 DEF Ordered, Kept, IInv, Types, Producer, Stages, Threads
  <2>4. CASE queue'[r] = Append(queue[r], x) /\ r = s
    <3>1. /\ Len(queue'[r]) = Len(queue[r]) + 1 /\ Len(queue[r]) \in Nat /\ queue'[r] # << >>
          /\ \A i \in 1..Len(queue[r]) : queue'[r][i] = queue[r][i] /\ queue[r][i] \in Nat
          /\ queue'[r][Len(queue[r]) + 1] = x /\ x \in Nat
          /\ Source(r)' = Source(r) /\ Source(r) \in Nat
          /\ pc'[r] = pc[r] /\ hold'[r] = hold[r] /\ done'[r] = done[r]
          /\ hold[r] \in Nat /\ done[r] \in Nat
      BY <1>1, <1>2, <1>4, <1>5, <2>4 DEF IInv, Types
    <3>2. \A i \in 1..Len(queue'[r]) :
            i = Len(queue'[r]) \/ (i \in 1..Len(queue[r]) /\ queue'[r][i] = queue[r][i])
      BY <3>1
    <3>3. x = 0 \/ (x = Source(r) /\ Pending(r))
      BY <1>1, <2>4
    <3>4. Pending(r)' => x = 0 /\ Pending(r) /\ Source(r) > 0
      <4> SUFFICES ASSUME Pending(r)' PROVE x = 0 /\ Source(r) > 0
        BY <2>2
      <4>1. Pending(r) /\ x = 0
        BY <1>1, <2>2, <2>4
      <4>2. Call(r, Source(r)) # << >> /\ (r = "phase" => Call(r, Source(r)) \notin {Shutdown, Rest})
        BY <1>2, CallFacts
      <4> QED
        BY <4>1, <4>2 DEF IInv, Calls, Pending, Producer, Source, Stages
    <3>5. \A i \in 1..Len(queue[r]) : queue[r][i] <= Source(r) /\ (x # 0 => queue[r][i] < x)
      BY <2>1, <3>1, <3>3 DEF Ordered
    <3>6. \A i \in 1..Len(queue'[r]) : queue'[r][i] <= Source(r)'
      <4>1. x <= Source(r)
        BY <3>1, <3>3
      <4> TAKE i \in 1..Len(queue'[r])
      <4>2. CASE i = Len(queue'[r])
        BY <3>1, <4>1, <4>2
      <4>3. CASE i \in 1..Len(queue[r]) /\ queue'[r][i] = queue[r][i]
        BY <3>1, <3>5, <4>3
      <4> QED
        BY <3>2, <4>2, <4>3
    <3>7. \A i, j \in 1..Len(queue'[r]) :
            i < j /\ queue'[r][j] # Sentinel => queue'[r][i] < queue'[r][j]
      <4> TAKE i, j \in 1..Len(queue'[r])
      <4> HAVE i < j /\ queue'[r][j] # Sentinel
      <4> i # Len(queue'[r])
        OBVIOUS
      <4>1. i \in 1..Len(queue[r]) /\ queue'[r][i] = queue[r][i]
        BY <3>2
      <4>2. CASE j = Len(queue'[r])
        BY <3>1, <3>5, <4>1, <4>2 DEF Sentinel
      <4>3. CASE j \in 1..Len(queue[r]) /\ queue'[r][j] = queue[r][j]
        BY <2>1, <4>1, <4>3 DEF Ordered
      <4> QED
        BY <3>2, <4>2, <4>3
    <3>8. pc[r] # "end" => \A i \in 1..Len(queue'[r]) : queue'[r][i] # Sentinel => hold[r] < queue'[r][i]
      BY <2>1, <3>1, <3>2, <3>3 DEF Ordered, Sentinel
    <3>9. Ordered(r)'
      <4>1. Pending(r)' => \A i \in 1..Len(queue'[r]) : queue'[r][i] < Source(r)'
        BY <2>1, <3>1, <3>2, <3>4 DEF Ordered
      <4> QED
        BY <2>1, <3>1, <3>4, <3>6, <3>7, <3>8, <4>1 DEF Ordered
    <3>10. Kept(r)'
      BY <1>1, <1>2, <2>1, <2>4, <3>1, <3>3 DEF Kept
    <3> QED
      BY <3>9, <3>10
  <2> QED
    BY <1>2, <1>3, <2>3, <2>4 DEF IInv, Types
<1> QED
  BY <1>6, <1>7, <1>8, <1>9, <1>10 DEF IInv

\* An item taken from the head of a queue disturbs neither the order nor what
\* is last in it.
LEMMA TailOrdered ==
  ASSUME IInv, NEW s \in Stages, queue[s] # << >>, queue'[s] = Tail(queue[s])
  PROVE  /\ queue'[s] \in Seq(Items) /\ Len(queue'[s]) = Len(queue[s]) - 1 /\ Len(queue'[s]) \in Nat
         /\ \A i \in 1..Len(queue'[s]) :
              i + 1 \in 1..Len(queue[s]) /\ queue'[s][i] = queue[s][i + 1] /\ queue'[s][i] \in Nat
         /\ \A i \in 1..Len(queue'[s]) : queue'[s][i] <= Source(s)
         /\ Pending(s) => \A i \in 1..Len(queue'[s]) : queue'[s][i] < Source(s)
         /\ \A i, j \in 1..Len(queue'[s]) :
              i < j /\ queue'[s][j] # Sentinel => queue'[s][i] < queue'[s][j]
         /\ pc[s] # "end" =>
              \A i \in 1..Len(queue'[s]) : queue'[s][i] # Sentinel => hold[s] < queue'[s][i]
<1>1. queue[s] \in Seq(Items) /\ Items \subseteq Nat
  BY MaxChunksAssumption DEF IInv, Types, Items
<1>2. /\ queue'[s] \in Seq(Items) /\ Len(queue'[s]) = Len(queue[s]) - 1
      /\ Len(queue[s]) \in Nat /\ Len(queue[s]) > 0
      /\ \A i \in 1..Len(queue[s]) : queue[s][i] \in Nat
      /\ \A i \in 1..(Len(queue[s]) - 1) : queue'[s][i] = queue[s][i + 1]
  <2> DEFINE q == queue[s]
  <2>1. q \in Seq(Items) /\ q # << >> /\ queue'[s] = Tail(q)
    BY <1>1
  <2> HIDE DEF q
  <2>2. /\ Tail(q) \in Seq(Items) /\ Len(q) \in Nat /\ Len(q) > 0 /\ Len(Tail(q)) = Len(q) - 1
        /\ \A i \in 1..Len(q) : q[i] \in Items
        /\ \A i \in 1..(Len(q) - 1) : Tail(q)[i] = q[i + 1]
    BY <2>1, TailFacts
  <2> QED
    BY <1>1, <2>1, <2>2 DEF q
<1>3. \A i \in 1..Len(queue'[s]) :
        i + 1 \in 1..Len(queue[s]) /\ queue'[s][i] = queue[s][i + 1] /\ queue'[s][i] \in Nat
  BY <1>2
<1>4. Ordered(s)
  BY DEF IInv
<1>5. \A i, j \in 1..Len(queue'[s]) :
        i < j /\ queue'[s][j] # Sentinel => queue'[s][i] < queue'[s][j]
  <2> TAKE i, j \in 1..Len(queue'[s])
  <2>1. i < j => i + 1 < j + 1
    OBVIOUS
  <2> QED
    BY <1>3, <1>4, <2>1 DEF Ordered
<1>6. /\ \A i \in 1..Len(queue'[s]) : queue'[s][i] <= Source(s)
      /\ Pending(s) => \A i \in 1..Len(queue'[s]) : queue'[s][i] < Source(s)
      /\ pc[s] # "end" =>
           \A i \in 1..Len(queue'[s]) : queue'[s][i] # Sentinel => hold[s] < queue'[s][i]
  <2>1. \A i \in 1..Len(queue'[s]) :
          \E j \in 1..Len(queue[s]) : queue'[s][i] = queue[s][j]
    BY <1>3
  <2> QED
    BY <1>4, <2>1 DEF Ordered
<1>7. queue'[s] \in Seq(Items) /\ Len(queue'[s]) = Len(queue[s]) - 1 /\ Len(queue'[s]) \in Nat
  BY <1>2
<1> QED
  BY <1>3, <1>5, <1>6, <1>7

LEMMA DropOldestStep ==
  ASSUME IInv, NEW t \in Threads, DropOldest(t)
  PROVE  IInv'
<1> DEFINE s == Target(t)
<1>1. puts[t] # << >> /\ s \in Stages /\ (running => t = Producer(s))
  BY CallInProgress DEF DropOldest, AtStep
<1>2. /\ running' = running /\ pc' = pc /\ hold' = hold /\ sent' = sent /\ done' = done
      /\ puts' = puts /\ step' = [step EXCEPT ![t] = "again"]
      /\ \A r \in Stages : Source(r)' = Source(r) /\ (Pending(r)' <=> Pending(r))
  BY DEF DropOldest, AtStep, Source, Pending
<1>3. /\ \A r \in Stages : r # s => queue'[r] = queue[r]
      /\ queue'[s] = IF queue[s] = << >> THEN queue[s] ELSE Tail(queue[s])
      /\ queue' = [queue EXCEPT ![s] = queue'[s]]
  BY <1>1 DEF DropOldest, IInv, Types
<1> HIDE DEF s
<1>4. \A r \in Stages :
        queue'[r] = queue[r] \/ (r = s /\ queue[r] # << >> /\ queue'[r] = Tail(queue[r]))
  BY <1>3
<1>5. \A r \in Stages : /\ queue'[r] \in Seq(Items) /\ Len(queue'[r]) \in Nat
                        /\ Len(queue'[r]) <= Len(queue[r])
  BY <1>4, TailOrdered DEF IInv, Types
<1>6. Len(queue'[s]) < Capacity
  <2>1. CASE queue[s] = << >>
    BY <1>3, <2>1, CapacityAssumption
  <2>2. CASE queue[s] # << >>
    <3>1. Len(queue'[s]) = Len(queue[s]) - 1 /\ Len(queue'[s]) \in Nat
      BY <1>1, <1>3, <2>2, TailOrdered
    <3>2. Len(queue[s]) <= Capacity
      BY <1>1 DEF IInv, Types
    <3> QED
      BY <3>1, <3>2, CapacityAssumption
  <2> QED
    BY <2>1, <2>2
<1>7. Types'
  <2>1. \A r \in Stages : Len(queue[r]) \in Nat /\ Len(queue[r]) <= Capacity
    BY DEF IInv, Types
  <2>2. \A r \in Stages : Len(queue'[r]) <= Capacity
    BY <1>5, <2>1, CapacityAssumption
  <2>3. queue' \in [Stages -> Seq(Items)]
    BY <1>1, <1>3, <1>5 DEF IInv, Types
  <2> QED
    BY <1>2, <2>2, <2>3 DEF IInv, Types
<1>8. Calls'
  BY <1>1, <1>2 DEF IInv, Types, Calls, Stages
<1>9. Serving'
  <2> SUFFICES ASSUME running', NEW r \in Stages
               PROVE  pc'[r] # "end" /\ \A i \in 1..Len(queue'[r]) : queue'[r][i] # Sentinel
    BY DEF Serving
  <2>1. pc[r] # "end" /\ \A i \in 1..Len(queue[r]) : queue[r][i] # Sentinel
    BY <1>2 DEF IInv, Serving
  <2>2. CASE queue'[r] = queue[r]
    BY <1>2, <2>1, <2>2
  <2>3. CASE queue[r] # << >> /\ queue'[r] = Tail(queue[r])
    BY <1>2, <2>1, <2>3, TailOrdered
  <2> QED
    BY <1>4, <2>2, <2>3
<1>10. RoomKept'
  <2> SUFFICES ASSUME running', NEW r \in Stages, step'[Producer(r)] = "again"
               PROVE  Len(queue'[r]) < Capacity
    BY DEF RoomKept, Producer
  <2>1. CASE r = s
    BY <1>6, <2>1
  <2>2. CASE r # s
    <3>1. Producer(r) # t
      BY <1>1, <1>2, <2>2 DEF Producer, Stages
    <3> QED
      BY <1>2, <1>3, <2>2, <3>1 DEF IInv, RoomKept, Types
  <2> QED
    BY <2>1, <2>2
<1>11. ASSUME NEW r \in Stages PROVE Ordered(r)' /\ Kept(r)'
  <2>1. Ordered(r) /\ Kept(r)
    BY DEF IInv
  <2>2. CASE queue'[r] = queue[r]
    BY <1>2, <2>1, <2>2 DEF Ordered, Kept, Producer
  <2>3. CASE r = s /\ queue[r] # << >> /\ queue'[r] = Tail(queue[r])
    <3>1. Ordered(r)'
      BY <1>2, <2>1, <2>3, TailOrdered DEF Ordered
    <3>2. Kept(r)'
      BY <1>1, <1>2, <2>3 DEF Kept, Producer
    <3> QED
      BY <3>1, <3>2
  <2> QED
    BY <1>4, <2>2, <2>3
<1> QED
  BY <1>7, <1>8, <1>9, <1>10, <1>11 DEF IInv

\* A full queue is noticed, and nothing else changes.
LEMMA FullSeenStep ==
  ASSUME IInv, NEW t \in Threads, puts[t] # << >>, step' = [step EXCEPT ![t] = "get"],
         UNCHANGED <<running, queue, pc, puts, hold, sent, done>>
  PROVE  IInv'
<1>1. Types' /\ Calls' /\ Serving'
  BY DEF IInv, Types, Calls, Serving, Pending, Producer, Source, Stages
<1>2. RoomKept'
  BY DEF IInv, Types, RoomKept, Producer
<1>3. \A r \in Stages : Ordered(r)' /\ Kept(r)'
  BY DEF IInv, Ordered, Kept, Pending, Producer, Source
<1> QED
  BY <1>1, <1>2, <1>3 DEF IInv

LEMMA PutLatestStep ==
  ASSUME IInv, NEW t \in Threads, PutLatest(t)
  PROVE  IInv'
BY PutLatestCases, PutEndsStep, DropOldestStep, FullSeenStep

-----------------------------------------------------------------------------
(* The threads                                                             *)

\* A step of a thread that leaves the queues and the chunks alone: it ends no
\* stage of a run that is up, and signals a shutdown only when it ends the run.
LEMMA ControlStep ==
  ASSUME IInv, UNCHANGED <<queue, step, hold, sent, done>>,
         running' \in BOOLEAN, running' => running,
         pc' \in [Threads -> {"check", "recv", "get", "work", "loop", "join", "idle", "end"}],
         \A s \in Stages :
           /\ running' /\ pc'[s] = "end" => pc[s] = "end"
           /\ pc[s] = "end" => pc'[s] = "end"
           /\ pc'[s] = "work" => pc[s] = "work",
         \/ puts' = puts
         \/ /\ ~running'
            /\ \E t \in {"rx", "run", "stop"} :
                 puts[t] = << >> /\ puts' = [puts EXCEPT ![t] = Shutdown]
  PROVE  IInv'
<1>1. \A s \in Stages : Source(s)' = Source(s) /\ Source(s) \in Items
  BY DEF Source, IInv, Types, Stages
<1>2. \A t \in Threads : puts'[t] = puts[t] \/ (~running' /\ puts'[t] = Shutdown /\ t \in {"rx", "run", "stop"})
  BY DEF IInv, Types
<1>3. \A s \in Stages : Pending(s)' => Pending(s)
  BY <1>1, <1>2, CallFacts DEF Pending, Producer, Stages, Threads
<1>4. Types'
  BY CallTypes DEF IInv, Types
<1>5. Calls'
  <2>1. "rx" \in Threads /\ "phase" \in Threads /\ "doa" \in Threads /\ "run" \in Threads /\ "stop" \in Threads
    BY DEF Threads, Stages
  <2>2. \A t \in Threads : puts'[t] = << >> => step'[t] = "put"
    BY <1>2, CallFacts DEF IInv, Calls
  <2>3. puts'["phase"] = puts["phase"] /\ puts'["doa"] = puts["doa"]
    BY <1>2, <2>1
  <2>4. puts'["rx"] \in {<< >>, Shutdown, Rest} \/ (Pending("phase")' /\ sent' > 0)
    BY <1>2, <2>1 DEF IInv, Calls, Pending, Producer, Source
  <2>5. puts'["phase"] = << >> \/ (Pending("doa")' /\ done'["phase"] > 0)
    BY <2>3 DEF IInv, Calls, Pending, Producer, Source
  <2>6. \A t \in {"rx", "run", "stop"} : puts'[t] \in {Shutdown, Rest} => ~running'
    BY <1>2, <2>1 DEF IInv, Calls
  <2>7. \A t \in {"run", "stop"} : puts'[t] \in {<< >>, Shutdown, Rest}
    BY <1>2, <2>1 DEF IInv, Calls
  <2> QED
    BY <2>2, <2>3, <2>4, <2>5, <2>6, <2>7 DEF IInv, Calls
<1>6. Serving' /\ RoomKept'
  BY DEF IInv, Serving, RoomKept, Producer
<1>7. ASSUME NEW s \in Stages PROVE Ordered(s)' /\ Kept(s)'
  <2>1. Ordered(s) /\ Kept(s)
    BY DEF IInv
  <2>2. Ordered(s)'
    BY <1>1, <1>3, <2>1 DEF Ordered
  <2>3. Kept(s)'
    BY <1>1, <1>2, <2>1 DEF Kept, Producer
  <2> QED
    BY <2>2, <2>3
<1> QED
  BY <1>4, <1>5, <1>6, <1>7 DEF IInv

LEMMA RxStep ==
  ASSUME IInv, Rx
  PROVE  IInv'
<1> USE DEF Goto
<1>1. CASE RxCheck \/ RxNothing
  BY <1>1, ControlStep DEF RxCheck, RxNothing, IInv, Types, Threads, Stages
<1>2. CASE RxFails \/ RxOverflows
  <2>1. puts["rx"] = << >> /\ ~running' /\ running' \in BOOLEAN
    BY <1>2 DEF RxFails, RxOverflows
  <2>2. puts' = puts \/ puts' = [puts EXCEPT !["rx"] = Shutdown]
    BY <1>2 DEF RxFails, RxOverflows, SignalShutdown, Shutdown
  <2>3. pc' = [pc EXCEPT !["rx"] = "end"] /\ UNCHANGED <<queue, step, hold, sent, done>>
    BY <1>2 DEF RxFails, RxOverflows
  <2> QED
    BY <2>1, <2>2, <2>3, ControlStep DEF IInv, Types, Threads, Stages
<1>3. CASE RxChunk
  <2>1. /\ puts["rx"] = << >> /\ sent' = sent + 1 /\ sent' \in Items /\ sent \in Nat /\ sent' > 0
        /\ puts' = [puts EXCEPT !["rx"] = Call("phase", sent')]
        /\ pc' = [pc EXCEPT !["rx"] = "check"]
        /\ running' = running /\ queue' = queue /\ step' = step /\ hold' = hold /\ done' = done
    BY <1>3, MaxChunksAssumption DEF RxChunk, Call, IInv, Types, Items
  <2>2. "rx" \in Threads /\ "rx" \notin Stages /\ "phase" \in Threads
    BY DEF Threads, Stages
  <2>3. \A t \in Threads : t # "rx" => puts'[t] = puts[t]
    BY <2>1 DEF IInv, Types
  <2>4. puts'["rx"] = Call("phase", sent') /\ Pending("phase")' /\ (Pending("doa")' <=> Pending("doa"))
    BY <2>1, <2>2, <2>3 DEF IInv, Types, Pending, Producer, Source
  <2>5. Types'
    <3>1. Call("phase", sent') \in Seq(Stages \X Items)
      BY <2>1, CallTypes DEF Stages
    <3> QED
      BY <2>1, <3>1 DEF IInv, Types
  <2>6. Calls'
    <3>1. puts'["rx"] # << >> /\ puts'["rx"] \notin {Shutdown, Rest}
      BY <2>1, <2>4, CallFacts DEF Stages
    <3> QED
      BY <2>1, <2>2, <2>3, <2>4, <3>1 DEF IInv, Calls, Threads, Stages
  <2>7. Serving' /\ RoomKept'
    BY <2>1, <2>2 DEF IInv, Types, Serving, RoomKept, Producer
  <2>8. Ordered("phase")'
    <3>1. Ordered("phase") /\ queue["phase"] \in Seq(Items) /\ Items \subseteq Nat
      BY MaxChunksAssumption DEF IInv, Types, Stages, Items
    <3>2. \A i \in 1..Len(queue["phase"]) : queue["phase"][i] \in Nat
      <4> DEFINE q == queue["phase"]
      <4>1. q \in Seq(Items)
        BY <3>1
      <4> HIDE DEF q
      <4>2. \A i \in 1..Len(q) : q[i] \in Items
        BY <4>1
      <4> QED
        BY <3>1, <4>2 DEF q
    <3>3. hold["phase"] \in Nat /\ done["phase"] \in Nat
      BY <3>1 DEF IInv, Types, Stages
    <3>4. pc'["phase"] = pc["phase"]
      BY <2>1, <2>2 DEF IInv, Types
    <3> QED
      BY <2>1, <3>1, <3>2, <3>3, <3>4 DEF Ordered, Source
  <2>9. Ordered("doa")' /\ Kept("doa")'
    BY <2>1, <2>2, <2>3, <2>4 DEF IInv, Types, Ordered, Kept, Source, Stages, Producer
  <2>10. Kept("phase")'
    BY <2>1, <2>4, CallFacts DEF Kept, Producer, Stages
  <2> QED
    BY <2>5, <2>6, <2>7, <2>8, <2>9, <2>10 DEF IInv, Stages
<1> QED
  BY <1>1, <1>2, <1>3 DEF Rx

\* run() and stop() end the run before they signal it.
LEMMA RunStopStep ==
  ASSUME IInv, Run \/ Stop
  PROVE  IInv'
<1> USE DEF Goto
<1>1. CASE RunJoins
  BY <1>1, ControlStep DEF RunJoins, IInv, Types, Threads, Stages
<1>2. CASE RunEnds
  BY <1>2, ControlStep DEF RunEnds, SignalShutdown, Shutdown, IInv, Types, Threads, Stages
<1>3. CASE Stop
  BY <1>3, ControlStep DEF Stop, SignalShutdown, Shutdown, IInv, Types, Threads, Stages
<1> QED
  BY <1>1, <1>2, <1>3 DEF Run

LEMMA GetStep ==
  ASSUME IInv, NEW s \in Stages, Get(s)
  PROVE  IInv'
<1> DEFINE item == Head(queue[s])
<1>1. /\ queue[s] # << >> /\ puts[s] = << >> /\ pc[s] = "get"
      /\ queue' = [queue EXCEPT ![s] = Tail(@)]
      /\ pc' = [pc EXCEPT ![s] = IF item = Sentinel THEN "end" ELSE "work"]
      /\ hold' = [hold EXCEPT ![s] = item]
      /\ running' = running /\ puts' = puts /\ step' = step /\ sent' = sent /\ done' = done
  BY DEF Get, Goto
<1>2. /\ queue[s] \in Seq(Items) /\ Items \subseteq Nat /\ Stages \subseteq Threads /\ done[s] \in Nat
      /\ hold[s] \in Nat
  BY MaxChunksAssumption DEF IInv, Types, Items, Threads
<1>3. item \in Items /\ item = queue[s][1] /\ 1 \in 1..Len(queue[s]) /\ Len(queue[s]) \in Nat
  <2> DEFINE q == queue[s]
  <2>1. q \in Seq(Items) /\ q # << >>
    BY <1>1, <1>2
  <2> HIDE DEF q
  <2>2. Head(q) = q[1] /\ Head(q) \in Items /\ Len(q) \in Nat /\ Len(q) > 0
    BY <2>1, TailFacts
  <2> QED
    BY <2>2 DEF q
<1> HIDE DEF item
<1>4. /\ queue'[s] = Tail(queue[s]) /\ hold'[s] = item
      /\ pc'[s] = IF item = Sentinel THEN "end" ELSE "work"
      /\ \A r \in Stages : r # s => queue'[r] = queue[r] /\ hold'[r] = hold[r] /\ pc'[r] = pc[r]
      /\ \A r \in Stages : Source(r)' = Source(r) /\ (Pending(r)' <=> Pending(r))
  BY <1>1, <1>2 DEF IInv, Types, Source, Pending
<1>5. /\ queue'[s] \in Seq(Items) /\ Len(queue'[s]) = Len(queue[s]) - 1 /\ Len(queue'[s]) \in Nat
      /\ \A i \in 1..Len(queue'[s]) :
           i + 1 \in 1..Len(queue[s]) /\ queue'[s][i] = queue[s][i + 1] /\ queue'[s][i] \in Nat
      /\ \A i \in 1..Len(queue'[s]) : queue'[s][i] <= Source(s)
      /\ Pending(s) => \A i \in 1..Len(queue'[s]) : queue'[s][i] < Source(s)
      /\ \A i, j \in 1..Len(queue'[s]) :
           i < j /\ queue'[s][j] # Sentinel => queue'[s][i] < queue'[s][j]
  BY <1>1, <1>4, TailOrdered
<1>6. Types'
  <2>1. Len(queue'[s]) <= Capacity
    BY <1>3, <1>5, CapacityAssumption DEF IInv, Types
  <2>2. /\ queue' \in [Stages -> Seq(Items)]
        /\ \A r \in Stages : Len(queue'[r]) <= Capacity
    BY <1>1, <1>4, <1>5, <2>1 DEF IInv, Types
  <2> QED
    BY <1>1, <1>3, <2>2 DEF IInv, Types
<1>7. Calls'
  BY <1>1, <1>4 DEF IInv, Calls, Stages
<1>8. Serving'
  <2> SUFFICES ASSUME running', NEW r \in Stages
               PROVE  pc'[r] # "end" /\ \A i \in 1..Len(queue'[r]) : queue'[r][i] # Sentinel
    BY DEF Serving
  <2>1. \A u \in Stages : pc[u] # "end" /\ \A i \in 1..Len(queue[u]) : queue[u][i] # Sentinel
    BY <1>1 DEF IInv, Serving
  <2>2. CASE r # s
    BY <1>4, <2>1, <2>2
  <2>3. CASE r = s
    <3>1. item # Sentinel /\ pc'[s] = "work"
      BY <1>3, <1>4, <2>1
    <3>2. \A i \in 1..Len(queue'[s]) : queue'[s][i] # Sentinel
      BY <1>5, <2>1
    <3> QED
      BY <2>3, <3>1, <3>2
  <2> QED
    BY <2>2, <2>3
<1>9. RoomKept'
  <2> SUFFICES ASSUME running', NEW r \in Stages, step'[Producer(r)] = "again"
               PROVE  Len(queue'[r]) < Capacity
    BY DEF RoomKept, Producer
  <2>1. Len(queue[r]) < Capacity
    BY <1>1 DEF IInv, RoomKept
  <2>2. queue'[r] = queue[r] \/ (r = s /\ Len(queue'[s]) = Len(queue[s]) - 1)
    BY <1>4, <1>5
  <2> QED
    BY <1>3, <2>1, <2>2, CapacityAssumption
<1>10. ASSUME NEW r \in Stages PROVE Ordered(r)' /\ Kept(r)'
  <2>1. Ordered(r) /\ Kept(r)
    BY DEF IInv
  <2>2. CASE r # s
    <3>1. Ordered(r)'
      BY <1>1, <1>4, <2>1, <2>2 DEF Ordered
    <3>2. Kept(r)'
      BY <1>1, <1>4, <2>1, <2>2 DEF Kept, Producer
    <3> QED
      BY <3>1, <3>2
  <2>3. CASE r = s
    <3>1. item <= Source(s) /\ (Pending(s) => item < Source(s))
      BY <1>3, <2>1, <2>3 DEF Ordered
    <3>2. item # Sentinel => hold[s] < item /\ done[s] <= hold[s]
      BY <1>1, <1>3, <2>1, <2>3 DEF Ordered
    <3>3. \A i \in 1..Len(queue'[s]) : queue'[s][i] # Sentinel => item < queue'[s][i]
      <4> TAKE i \in 1..Len(queue'[s])
      <4>1. i + 1 \in 1..Len(queue[s]) /\ queue'[s][i] = queue[s][i + 1] /\ 1 < i + 1
        BY <1>5
      <4>2. \A u, v \in 1..Len(queue[s]) :
              u < v /\ queue[s][v] # Sentinel => queue[s][u] < queue[s][v]
        BY <2>1, <2>3 DEF Ordered
      <4> QED
        BY <1>3, <4>1, <4>2
    <3>4. pc'[s] # "end" => item # Sentinel /\ done[s] < item
      <4>1. pc'[s] # "end" => item # Sentinel
        BY <1>4
      <4>2. item \in Nat /\ hold[s] \in Nat /\ done[s] \in Nat
        BY <1>2, <1>3
      <4> QED
        BY <3>2, <4>1, <4>2
    <3>5. Ordered(s)'
      <4>1. /\ Source(s)' = Source(s) /\ (Pending(s)' <=> Pending(s))
            /\ hold'[s] = item /\ done'[s] = done[s] /\ item \in Nat /\ done[s] \in Nat
        BY <1>1, <1>2, <1>3, <1>4
      <4>2. pc'[s] # "end" => /\ done'[s] <= hold'[s] /\ hold'[s] <= Source(s)'
                              /\ pc'[s] = "work" => done'[s] < hold'[s]
                              /\ Pending(s)' => hold'[s] < Source(s)'
        BY <3>1, <3>4, <4>1
      <4>3. /\ \A i \in 1..Len(queue'[s]) : queue'[s][i] <= Source(s)'
            /\ Pending(s)' => \A i \in 1..Len(queue'[s]) : queue'[s][i] < Source(s)'
            /\ \A i, j \in 1..Len(queue'[s]) :
                 i < j /\ queue'[s][j] # Sentinel => queue'[s][i] < queue'[s][j]
            /\ \A i \in 1..Len(queue'[s]) : queue'[s][i] # Sentinel => hold'[s] < queue'[s][i]
        BY <1>5, <3>3, <4>1
      <4> QED
        BY <4>2, <4>3 DEF Ordered
    <3>6. Kept(s)'
      <4> SUFFICES ASSUME running, puts[Producer(s)] = << >>, Source(s) > 0
                   PROVE  item = Source(s)
                            \/ (queue'[s] # << >> /\ queue'[s][Len(queue'[s])] = Source(s))
        BY <1>1, <1>4 DEF Kept, Producer
      <4>1. hold[s] = Source(s) \/ queue[s][Len(queue[s])] = Source(s)
        BY <2>1, <2>3 DEF Kept
      <4>2. item # Sentinel
        BY <1>3 DEF IInv, Serving
      <4>3. hold[s] # Source(s)
        BY <1>2, <1>3, <3>1, <3>2, <4>2
      <4>4. CASE Len(queue[s]) = 1
        BY <1>3, <4>1, <4>3, <4>4
      <4>5. CASE Len(queue[s]) # 1
        <5>1. Len(queue'[s]) \in 1..Len(queue'[s]) /\ Len(queue'[s]) + 1 = Len(queue[s])
          <6>1. /\ Len(queue[s]) \in Nat /\ 1 \in 1..Len(queue[s])
                /\ Len(queue'[s]) = Len(queue[s]) - 1
            BY <1>3, <1>5
          <6> DEFINE m == Len(queue'[s])
                     n == Len(queue[s])
          <6>2. n \in Nat /\ 1 \in 1..n /\ m = n - 1 /\ n # 1
            BY <4>5, <6>1
          <6> HIDE DEF m, n
          <6>3. m \in 1..m /\ m + 1 = n
            BY <6>2
          <6> QED
            BY <6>3 DEF m, n
        <5>2. queue'[s][Len(queue'[s])] = queue[s][Len(queue[s])]
          BY <1>5, <5>1
        <5>3. queue'[s] # << >>
          BY <1>5, <5>1
        <5> QED
          BY <4>1, <4>3, <5>2, <5>3
      <4> QED
        BY <4>4, <4>5
    <3> QED
      BY <2>3, <3>5, <3>6
  <2> QED
    BY <2>2, <2>3
<1> QED
  BY <1>6, <1>7, <1>8, <1>9, <1>10 DEF IInv

LEMMA PublishStep ==
  ASSUME IInv, NEW s \in Stages, Publish(s)
  PROVE  /\ IInv' /\ done[s] < hold[s] /\ hold[s] <= Source(s)
         /\ done' = [done EXCEPT ![s] = hold[s]] /\ sent' = sent
<1>1. /\ puts[s] = << >> /\ pc[s] = "work" /\ pc' = [pc EXCEPT ![s] = "check"]
      /\ done' = [done EXCEPT ![s] = hold[s]]
      /\ running' = running /\ queue' = queue /\ step' = step /\ hold' = hold /\ sent' = sent
  BY DEF Publish, Goto
<1>2. puts' = IF s = "phase" THEN [puts EXCEPT !["phase"] = Call("doa", hold["phase"])] ELSE puts
  BY DEF Publish, Call
<1>3. /\ hold[s] \in Nat /\ done[s] \in Nat /\ Source(s) \in Nat /\ Items \subseteq Nat
      /\ Stages \subseteq Threads /\ Stages = {"phase", "doa"} /\ {"rx", "phase"} \subseteq Threads
  BY MaxChunksAssumption DEF IInv, Types, Items, Source, Stages, Threads
<1>4. Ordered(s) /\ done[s] < hold[s] /\ hold[s] <= Source(s)
  BY <1>1 DEF IInv, Ordered
<1>5. \A r \in Stages : pc'[r] = (IF r = s THEN "check" ELSE pc[r])
  BY <1>1, <1>3 DEF IInv, Types
<1>6. Types'
  <2>1. Call("doa", hold["phase"]) \in Seq(Stages \X Items)
    BY <1>3, CallTypes DEF IInv, Types
  <2> QED
    BY <1>1, <1>2, <2>1 DEF IInv, Types
<1>7. \A t \in Threads : t # "phase" => puts'[t] = puts[t]
  BY <1>2 DEF IInv, Types
<1>8. Serving' /\ RoomKept'
  BY <1>1, <1>5 DEF IInv, Serving, RoomKept, Producer
<1>9. CASE s = "phase"
  <2>1. /\ puts'["phase"] = Call("doa", hold["phase"]) /\ puts["phase"] = << >>
        /\ puts'["phase"] # << >> /\ done'["phase"] = hold["phase"] /\ done'["doa"] = done["doa"]
    BY <1>1, <1>2, <1>3, <1>9, CallFacts DEF IInv, Types
  <2>2. /\ Source("doa")' = hold["phase"] /\ Source("doa") = done["phase"]
        /\ Source("phase")' = Source("phase") /\ (Pending("phase")' <=> Pending("phase"))
        /\ Pending("doa")'
    BY <1>1, <1>3, <1>7, <2>1 DEF Source, Pending, Producer
  <2>3. Calls'
    BY <1>1, <1>3, <1>4, <1>7, <1>9, <2>1, <2>2 DEF IInv, Calls, Threads
  <2>4. Ordered("phase")' /\ Kept("phase")'
    <3>1. Ordered("phase")'
      BY <1>1, <1>3, <1>4, <1>5, <1>9, <2>1, <2>2 DEF Ordered
    <3>2. Kept("phase")
      BY <1>3 DEF IInv
    <3> QED
      BY <1>1, <1>3, <1>7, <2>2, <3>1, <3>2 DEF Kept, Producer
  <2>5. Ordered("doa")'
    <3>1. Ordered("doa") /\ done["phase"] < hold["phase"]
      BY <1>3, <1>4, <1>9 DEF IInv
    <3>2. \A i \in 1..Len(queue["doa"]) : queue["doa"][i] \in Nat
      <4> DEFINE q == queue["doa"]
      <4>1. q \in Seq(Items)
        BY <1>3 DEF IInv, Types
      <4> HIDE DEF q
      <4>2. \A i \in 1..Len(q) : q[i] \in Items
        BY <4>1
      <4> QED
        BY <1>3, <4>2 DEF q
    <3>3. hold["doa"] \in Nat /\ done["doa"] \in Nat /\ hold["phase"] \in Nat /\ done["phase"] \in Nat
      BY <1>3 DEF IInv, Types
    <3>4. \A i \in 1..Len(queue["doa"]) : queue["doa"][i] < hold["phase"]
      BY <2>2, <3>1, <3>2, <3>3 DEF Ordered
    <3> QED
      BY <1>1, <1>3, <1>5, <1>9, <2>1, <2>2, <3>1, <3>2, <3>3, <3>4 DEF Ordered
  <2>6. Kept("doa")'
    BY <2>1 DEF Kept, Producer
  <2> QED
    BY <1>1, <1>3, <1>4, <1>6, <1>8, <2>3, <2>4, <2>5, <2>6 DEF IInv
<1>10. CASE s = "doa"
  <2>1. /\ puts' = puts /\ done'["phase"] = done["phase"] /\ done'["doa"] = hold["doa"]
    BY <1>1, <1>2, <1>3, <1>10 DEF IInv, Types
  <2>2. \A r \in Stages : Source(r)' = Source(r) /\ (Pending(r)' <=> Pending(r))
    BY <1>1, <1>3, <2>1 DEF Source, Pending, Producer
  <2>3. Calls'
    BY <1>1, <1>3, <2>1, <2>2 DEF IInv, Calls
  <2>4. ASSUME NEW r \in Stages PROVE Ordered(r)' /\ Kept(r)'
    <3>1. Ordered(r) /\ Kept(r)
      BY DEF IInv
    <3>2. Ordered(r)'
      BY <1>1, <1>3, <1>4, <1>5, <1>10, <2>1, <2>2, <3>1 DEF Ordered
    <3> QED
      BY <1>1, <2>1, <2>2, <3>1, <3>2 DEF Kept, Producer
  <2> QED
    BY <1>1, <1>4, <1>6, <1>8, <2>3, <2>4 DEF IInv
<1> QED
  BY <1>3, <1>9, <1>10

LEMMA StageStep ==
  ASSUME IInv, NEW s \in Stages, Stage(s)
  PROVE  IInv'
<1>1. CASE Check(s)
  <2>1. /\ pc' = [pc EXCEPT ![s] = IF running THEN "get" ELSE "end"] /\ pc[s] = "check"
        /\ UNCHANGED <<running, queue, puts, step, hold, sent, done>>
    BY <1>1 DEF Check, Goto
  <2> QED
    BY <2>1, ControlStep DEF IInv, Types, Threads
<1>2. CASE GetTimeout(s)
  <2>1. /\ pc' = [pc EXCEPT ![s] = "check"] /\ pc[s] = "get"
        /\ UNCHANGED <<running, queue, puts, step, hold, sent, done>>
    BY <1>2 DEF GetTimeout, Goto
  <2> QED
    BY <2>1, ControlStep DEF IInv, Types, Threads
<1> QED
  BY <1>1, <1>2, GetStep, PublishStep DEF Stage

-----------------------------------------------------------------------------
(* The theorems                                                            *)

LEMMA Initially == Init => IInv
<1> SUFFICES ASSUME Init PROVE IInv
  OBVIOUS
<1>1. 0 \in Items /\ << >> \in Seq(Items) /\ Len(<< >>) = 0 /\ "phase" \in Threads
  BY MaxChunksAssumption DEF Items, Threads, Stages
<1>2. Types
  BY <1>1, CallTypes, CapacityAssumption DEF Init, Types, Threads, Stages
<1>3. Calls
  BY CallFacts DEF Init, Calls, Threads, Stages
<1>4. Serving /\ RoomKept
  BY DEF Init, Serving, RoomKept, Producer, Threads, Stages
<1>5. \A s \in Stages : Ordered(s)
  <2>1. \A s \in Stages : ~Pending(s)
    BY <1>1, CallFacts DEF Init, Pending, Source, Producer, Threads, Stages
  <2>2. \A s \in Stages : Len(queue[s]) = 0 /\ hold[s] = 0 /\ done[s] = 0 /\ Source(s) = 0 /\ pc[s] = "check"
    BY DEF Init, Source, Stages, Threads
  <2> QED
    BY <2>1, <2>2 DEF Ordered
<1>6. \A s \in Stages : Kept(s)
  BY DEF Init, Kept, Source, Stages
<1> QED
  BY <1>2, <1>3, <1>4, <1>5, <1>6 DEF IInv

LEMMA Inductive == IInv /\ [Next]_vars => IInv'
<1>1. ASSUME IInv, Next PROVE IInv'
  BY <1>1, PutLatestStep, StageStep, RxStep, RunStopStep DEF Next
<1>2. ASSUME IInv, UNCHANGED vars PROVE IInv'
  <2>1. Types' /\ Serving' /\ RoomKept'
    BY <1>2 DEF vars, IInv, Types, Serving, RoomKept
  <2>2. \A s \in Stages : Pending(s)' = Pending(s) /\ Source(s)' = Source(s)
    BY <1>2 DEF vars, Pending, Source
  <2>3. Calls'
    BY <1>2 DEF vars, IInv, Calls, Pending, Source
  <2>4. \A s \in Stages : Ordered(s)' /\ Kept(s)'
    BY <1>2, <2>2 DEF vars, IInv, Ordered, Kept
  <2> QED
    BY <2>1, <2>3, <2>4 DEF IInv
<1> QED
  BY <1>1, <1>2

\* The inductive invariant holds in every state: calls in progress, queues, the
\* chunks in hand and the results always fit together.
THEOREM Invariance == Spec => []IInv
  BY Initially, Inductive, PTL DEF Spec

\* What the invariant says of the types and the bounds, of the newest chunk and
\* of the stages of a run that is up.
LEMMA InvServes == IInv => QueuesServe
<1> SUFFICES ASSUME IInv PROVE QueuesServe
  OBVIOUS
<1>1. \A t \in Threads : Len(puts[t]) <= 2
  <2>1. \A s \in Stages : Len(Call(s, Source(s))) = 1
    BY CallTypes DEF IInv, Types, Source, Stages
  <2>2. \A t \in Threads : \/ puts[t] \in {<< >>, Shutdown, Rest}
                           \/ \E s \in Stages : puts[t] = Call(s, Source(s))
    BY DEF IInv, Calls, Pending, Producer, Threads, Stages
  <2> TAKE t \in Threads
  <2>3. CASE puts[t] = << >>
    BY <2>3, CallTypes
  <2>4. CASE puts[t] = Shutdown
    BY <2>4, CallTypes
  <2>5. CASE puts[t] = Rest
    BY <2>5, CallTypes
  <2>6. ASSUME NEW s \in Stages, puts[t] = Call(s, Source(s)) PROVE Len(puts[t]) <= 2
    <3>1. Len(Call(s, Source(s))) = 1
      BY <2>1
    <3> QED
      BY <2>6, <3>1
  <2> QED
    BY <2>2, <2>3, <2>4, <2>5, <2>6
<1>2. TypeOK
  BY <1>1 DEF IInv, Types, TypeOK
<1>3. NewestKept
  BY DEF IInv, Kept, NewestKept, Producer, Source, Stages
<1>4. StagesServe
  BY DEF IInv, Serving, StagesServe
<1> QED
  BY <1>2, <1>3, <1>4 DEF QueuesServe

\* While the run is up, the newest chunk is in hand or last in its queue and no
\* stage has left, for every capacity and every number of chunks.
THEOREM NewestServed == Spec => []QueuesServe
  BY Invariance, InvServes, PTL

\* put_latest with its races implements the latest-only pipeline: a result is
\* only ever replaced by that of a newer chunk.
THEOREM Refinement == Spec => OnlyNewer
<1>1. Init => Newest!Init
  BY DEF Init, Newest!Init, Stages
<1>2. IInv /\ [Next]_vars => [Newest!Next]_<<sent, done["phase"], done["doa"]>>
  <2> SUFFICES ASSUME IInv, [Next]_vars
               PROVE  Newest!Next \/ (sent' = sent /\ done' = done)
    BY DEF Newest!Next
  <2>1. CASE \E s \in Stages : Publish(s)
    <3> PICK s \in Stages : Publish(s)
      BY <2>1
    <3>1. /\ done[s] < hold[s] /\ hold[s] <= Source(s)
          /\ done' = [done EXCEPT ![s] = hold[s]] /\ sent' = sent
      BY PublishStep
    <3>2. /\ hold[s] \in Nat /\ Source(s) \in Nat /\ \A r \in Stages : done[r] \in Nat
          /\ DOMAIN done = Stages
      BY MaxChunksAssumption DEF IInv, Types, Items, Source, Stages
    <3>3. CASE s = "phase"
      <4>1. Newest!PhasesOfNewer
        BY <3>1, <3>2, <3>3 DEF Newest!PhasesOfNewer, Source, Stages
      <4> QED
        BY <4>1 DEF Newest!Next
    <3>4. CASE s = "doa"
      <4>1. Newest!AngleOfNewer
        BY <3>1, <3>2, <3>4 DEF Newest!AngleOfNewer, Source, Stages
      <4> QED
        BY <4>1 DEF Newest!Next
    <3> QED
      BY <3>3, <3>4 DEF Stages
  <2>2. CASE RxChunk
    BY <2>2 DEF RxChunk, Newest!Next, Newest!Receive
  <2>3. CASE \E t \in Threads : PutLatest(t)
    BY <2>3 DEF PutLatest, PutNow, DropOldest, PutAgain, AtStep
  <2>4. CASE \E s \in Stages : Check(s) \/ GetTimeout(s) \/ Get(s)
    BY <2>4 DEF Check, GetTimeout, Get
  <2>5. CASE RxCheck \/ RxNothing \/ RxFails \/ RxOverflows \/ Run \/ Stop
    BY <2>5 DEF RxCheck, RxNothing, RxFails, RxOverflows, Run, RunEnds, RunJoins, Stop
  <2>6. CASE UNCHANGED vars
    BY <2>6 DEF vars
  <2> QED
    BY <2>1, <2>2, <2>3, <2>4, <2>5, <2>6 DEF Next, Stage, Rx
<1>3. IInv /\ [Next]_vars => [Newest!Next]_Newest!vars
  BY <1>2 DEF Newest!vars
<1> QED
  BY <1>1, <1>3, Invariance, PTL DEF Spec, OnlyNewer, Newest!Spec

=============================================================================
