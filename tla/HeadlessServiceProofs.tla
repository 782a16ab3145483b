----------------------- MODULE HeadlessServiceProofs -----------------------
(***************************************************************************)
(* What HeadlessService promises, for every size of the event queue and    *)
(* any number of starts, stops and of what else may happen.                *)
(*                                                                         *)
(* ServiceIsTruthful speaks of the moments when the lifecycle lock is free *)
(* and ViewFollows of those when the queue is drained.  The inductive      *)
(* invariant says what holds between: which thread has the lock (Locks),   *)
(* what the monitor of the current run has still to do (Runs), and where   *)
(* the latest state is on its way to the client (Following).               *)
(***************************************************************************)
EXTENDS HeadlessService, FiniteSetTheorems, FunctionTheorems, SequenceTheorems, TLAPS

Announcing == {"init", "announce", "start"}
Opening == {"starting", "started"}
Locked == Opening \union {"stopping", "shutting"}

Worker == [running : BOOLEAN, requested : BOOLEAN, seen : BOOLEAN, stopped : BOOLEAN]

\* Where the threads are and what they have said.
Types ==
  /\ shutdown \in BOOLEAN /\ mishaps \subseteq Mishaps
  /\ pc \in [Commanders -> CommanderPCs]
  /\ monitor \in [Generations -> {"off", "wait", "ended", "told", "done"}]
  /\ lock \in Commanders \union {"monitor", Free}
  /\ generation \in Nat
  /\ backend \in {"off", "starting", "up", "ending"} /\ chances \in 0..MaxChances
  /\ latest \in States
  /\ starts \in 0..MaxStarts /\ stops \in 0..MaxStops
  /\ worker \in Worker

\* The session: who still has an event to put is where it made it.
Session ==
  /\ listed \in BOOLEAN /\ connected \in BOOLEAN
  /\ accept \in States \union {"listen", "listed", "greeted", "serving"}
  /\ connected => listed
  /\ events \in Seq(Messages) /\ Len(events) <= QueueSize
  /\ out \in [Producers -> Messages \union {Nothing}]
  /\ took \subseteq Producers /\ \A p \in took : out[p] # Nothing
  /\ inbox \in Seq({"start", "stop", "shutdown"})
  /\ out["monitor"] # Nothing => lock = "monitor"
  /\ out["accept"] # Nothing => accept = "greeted"

\* The starts on their way to the reader.
Ordered == {i \in 1..Len(inbox) : inbox[i] = "start"}

\* Every start that is, or may still be, carried out was ordered: by the client,
\* or by --auto-start.
Counted ==
  generation + Cardinality(Ordered) + (IF pc["reader"] = "start" THEN 1 ELSE 0)
    + (IF pc["serve"] \in Announcing THEN 1 ELSE 0) <= starts + 1

\* The lock and the steps that are under it.
Locks ==
  /\ \A p \in Commanders : lock = p <=> pc[p] \in Locked
  /\ \A n \in Generations : monitor[n] = "told" => n = generation
  /\ lock = "monitor" <=> \E n \in Generations : monitor[n] = "told"

\* The current run has its monitor, or one that is about to be started, until
\* the end of the run is announced.
Runs ==
  /\ \A n \in Generations : n > generation => monitor[n] = "off"
  /\ backend # "off" => generation \in Generations /\ monitor[generation] \in {"off", "wait"}
  /\ latest = Running => generation \in Generations /\ monitor[generation] \in {"off", "wait", "ended"}
  /\ \A p \in Commanders : pc[p] \in Opening => generation \in Generations /\ monitor[generation] = "off"
  /\ generation \in Generations /\ monitor[generation] = "off" => \E p \in Commanders : pc[p] \in Opening

\* What was said too early is known to be.
Idles ==
  /\ pc["serve"] \in Announcing /\ generation # 0 => "early" \in mishaps
  /\ latest = Idle /\ backend # "off" =>
       "early" \in mishaps \/ \E p \in Commanders : pc[p] = "starting"

NoState(ev) == \A i \in 1..Len(ev) : ev[i] \notin States

\* The last state of ev is s.
LastState(ev, s) ==
  \E i \in 1..Len(ev) : ev[i] = s /\ \A j \in 1..Len(ev) : j > i => ev[j] \notin States

\* The latest state is about to be put, or the last one queued, or what the
\* worker was told last.
Followed ==
  \/ \E p \in Producers : out[p] = latest
  \/ LastState(events, latest)
  \/ NoState(events) /\ (worker.running <=> latest = Running)

\* From the greeting of the session on, unless a state was missed or came early.
Undisturbed == connected /\ "missed" \notin mishaps /\ "early" \notin mishaps

Following == Undisturbed /\ accept \in {"greeted", "serving"} => Followed

IInv == Types /\ Session /\ Counted /\ Locks /\ Runs /\ Idles /\ Following

-----------------------------------------------------------------------------
(* The steps, one by one.                                                  *)

\* The rest of what happens around the session.
Aside ==
  \/ Signal \/ Accept \/ AcceptNext \/ Disconnect \/ BackendNote
  \/ \E p \in Producers : MakeRoom(p) \/ PutAgain(p)
  \/ WorkerStart \/ WorkerStop \/ Deliver

\* Those of the commanders, ...
Commanding(p) == StartTake(p) \/ StartTell(p) \/ StartDone(p) \/ StopTake(p) \/ StopDone(p)

\* ... and those of the threads that take no lock.
Moving == ServeInit \/ ServeAnnounce \/ ServeWake \/ ServeClose \/ ReadCommand \/ ReadShutdown \/ Reply

Ending == BackendBegins \/ BackendFails \/ BackendEnds

\* Every step is one of these.
LEMMA Steps ==
  ASSUME [Next]_vars
  PROVE  \/ Aside \/ Moving \/ Ending \/ UNCHANGED vars
         \/ \E p \in Commanders : Commanding(p)
         \/ \E n \in Generations : Monitor(n)
BY DEF Next, Serve, Read, Command, Commanders, Aside, Commanding, Moving, Ending

core == <<pc, monitor, lock, generation, backend, latest>>

\* What happens aside changes neither the runs nor what is said of them.
LEMMA AsideCore ==
  ASSUME Aside \/ UNCHANGED vars
  PROVE  UNCHANGED core /\ mishaps \subseteq mishaps'
<1> USE DEF core, service
<1>1. CASE Signal \/ Accept \/ Disconnect \/ WorkerStart \/ WorkerStop
  BY <1>1 DEF Signal, Accept, Disconnect, WorkerStart, WorkerStop
<1>2. CASE AcceptNext
  BY <1>2 DEF AcceptNext, AcceptState, AcceptPut, AcceptDone
<1>3. CASE BackendNote \/ Deliver
  BY <1>3 DEF BackendNote, Deliver
<1>4. CASE \E p \in Producers : MakeRoom(p) \/ PutAgain(p)
  BY <1>4 DEF MakeRoom, PutAgain
<1>5. CASE UNCHANGED vars
  BY <1>5 DEF vars
<1> QED
  BY <1>1, <1>2, <1>3, <1>4, <1>5 DEF Aside

-----------------------------------------------------------------------------
(* Types.                                                                  *)

\* Nobody but the run thread, the monitors and the commanders turns a run.
LEMMA CommandTypes ==
  ASSUME Types, NEW p \in Commanders, Commanding(p)
  PROVE  Types'
<1> USE DEF Types, client
<1>1. CASE StartTake(p)
  <2>1. pc' \in [Commanders -> CommanderPCs]
    BY <1>1 DEF StartTake, At, AfterStart, CommanderPCs
  <2>2. mishaps' \subseteq Mishaps
    BY <1>1 DEF StartTake, Mishaps
  <2>3. lock' \in Commanders \union {"monitor", Free} /\ generation' \in Nat
        /\ backend' \in {"off", "starting", "up", "ending"}
    BY <1>1 DEF StartTake
  <2> QED
    BY <1>1, <2>1, <2>2, <2>3 DEF StartTake
<1>2. CASE StartTell(p)
  BY <1>2 DEF StartTell, At, Publish, CommanderPCs, States
<1>3. CASE StartDone(p)
  BY <1>3 DEF StartDone, At, AfterStart, CommanderPCs
<1>4. CASE StopTake(p)
  BY <1>4 DEF StopTake, At, Publish, AfterStop, CommanderPCs, States
<1>5. CASE StopDone(p)
  BY <1>5 DEF StopDone, At, AfterStop, CommanderPCs, Mishaps
<1> QED
  BY <1>1, <1>2, <1>3, <1>4, <1>5 DEF Commanding

\* Types stay what they are.
LEMMA TypesStep ==
  ASSUME Types, Session, [Next]_vars
  PROVE  Types'
<1> USE DEF Types, client
<1>1. CASE Aside
  <2>1. UNCHANGED core
    BY <1>1, AsideCore
  <2>2. CASE Signal \/ Accept \/ Disconnect
    <3>1. chances' \in 0..MaxChances
      BY <2>2, BoundsAssumption DEF Signal, Accept, Disconnect, Chance
    <3>3. shutdown' \in BOOLEAN
      BY <2>2 DEF Signal, Accept, Disconnect, service
    <3>2. UNCHANGED <<starts, stops, worker, mishaps>>
      BY <2>2 DEF Signal, Accept, Disconnect
    <3> QED
      BY <2>1, <3>1, <3>2, <3>3 DEF core
  <2>3. CASE AcceptNext
    BY <2>1, <2>3 DEF AcceptNext, AcceptState, AcceptPut, AcceptDone, core, Mishaps
  <2>4. CASE BackendNote
    BY <2>1, <2>4, BoundsAssumption DEF BackendNote, Chance, core, service
  <2>5. CASE \E p \in Producers : MakeRoom(p) \/ PutAgain(p)
    BY <2>1, <2>5 DEF MakeRoom, PutAgain, core, service, Mishaps
  <2>6. CASE WorkerStart
    <3>1. worker' \in Worker
      BY <2>6 DEF WorkerStart, Worker, Session
    <3>2. starts' \in 0..MaxStarts /\ UNCHANGED <<service, backend, chances, latest, stops, mishaps>>
      BY <2>6, BoundsAssumption DEF WorkerStart
    <3> QED
      BY <3>1, <3>2 DEF service
  <2>7. CASE WorkerStop
    BY <2>1, <2>7, BoundsAssumption DEF WorkerStop, core, service
  <2>8. CASE Deliver
    <3>1. worker' \in Worker
      BY <2>8 DEF Deliver, OnMessage, Worker
    <3> QED
      BY <2>1, <2>8, <3>1 DEF Deliver, core, service
  <2> QED
    BY <1>1, <2>2, <2>3, <2>4, <2>5, <2>6, <2>7, <2>8 DEF Aside
<1>2. CASE Moving
  <2>1. UNCHANGED <<monitor, lock, generation, backend, chances, starts, stops, worker, mishaps>>
    BY <1>2 DEF Moving, ServeInit, ServeAnnounce, ServeWake, ServeClose, ReadCommand, ReadShutdown, Reply
  <2>2. shutdown' \in BOOLEAN /\ latest' \in States
    BY <1>2 DEF Moving, ServeInit, ServeAnnounce, ServeWake, ServeClose, ReadCommand, ReadShutdown, Reply, States
  <2>3. pc' \in [Commanders -> CommanderPCs]
    <3>1. CASE ReadCommand
      <4>1. Head(inbox) \in {"start", "stop", "shutdown"}
        BY <3>1 DEF ReadCommand, Session
      <4> QED
        BY <3>1, <4>1 DEF ReadCommand, At, CommanderPCs
    <3>2. CASE ~ReadCommand
      BY <1>2, <3>2 DEF Moving, ServeInit, ServeAnnounce, ServeWake, ServeClose, ReadShutdown, Reply, At, CommanderPCs
    <3> QED
      BY <3>1, <3>2
  <2> QED
    BY <2>1, <2>2, <2>3
<1>3. CASE Ending
  BY <1>3, BoundsAssumption DEF Ending, BackendBegins, BackendFails, BackendEnds, Chance, service
<1>4. CASE \E p \in Commanders : Commanding(p)
  BY <1>4, CommandTypes
<1>5. CASE \E n \in Generations : Monitor(n)
  BY <1>5 DEF Monitor, MonitorWait, MonitorPublish, MonitorDone, Publish, States
<1>6. CASE UNCHANGED vars
  BY <1>6 DEF vars, service
<1> QED
  BY <1>1, <1>2, <1>3, <1>4, <1>5, <1>6, Steps

-----------------------------------------------------------------------------
(* The starts ordered.                                                     *)

\* They can be counted.
LEMMA OrderedFinite ==
  ASSUME Session
  PROVE  IsFiniteSet(Ordered) /\ Cardinality(Ordered) \in Nat
<1>1. IsFiniteSet(1..Len(inbox)) /\ Ordered \in SUBSET (1..Len(inbox))
  BY FS_Interval DEF Session, Ordered
<1> QED
  BY <1>1, FS_Subset, FS_CardinalityType

\* Reading a command takes it from those that can be counted.
LEMMA OrderedTail ==
  ASSUME Session, inbox # << >>, inbox' = Tail(inbox)
  PROVE  Cardinality(Ordered') + (IF Head(inbox) = "start" THEN 1 ELSE 0) <= Cardinality(Ordered)
<1> DEFINE Rest == Ordered \ {1}
           shift == [i \in Ordered' |-> i + 1]
<1>1. IsFiniteSet(Ordered) /\ Cardinality(Ordered) \in Nat
  BY OrderedFinite
<1>2. IsFiniteSet(Rest) /\ Cardinality(Rest) + (IF 1 \in Ordered THEN 1 ELSE 0) = Cardinality(Ordered)
  BY <1>1, FS_RemoveElement
<1>3. 1 \in Ordered <=> Head(inbox) = "start"
  BY DEF Session, Ordered
<1>4. shift \in [Ordered' -> Rest]
  BY DEF Session, Ordered
<1>5. shift \in Injection(Ordered', Rest)
  <2>1. \A i, j \in Ordered' : shift[i] = shift[j] => i = j
    BY DEF Session, Ordered
  <2> QED
    BY <1>4, <2>1, Fun_IsInj
<1>6. Cardinality(Ordered') <= Cardinality(Rest)
  BY <1>2, <1>5, FS_Injection
<1>7. Cardinality(Ordered') \in Nat /\ Cardinality(Rest) \in Nat
  BY <1>2, <1>5, FS_Injection, FS_CardinalityType
<1> QED
  BY <1>1, <1>2, <1>3, <1>6, <1>7

\* A command given adds at most itself.
LEMMA OrderedAppend ==
  ASSUME Session, NEW c \in {"start", "stop", "shutdown"}, inbox' = Append(inbox, c)
  PROVE  Cardinality(Ordered') = Cardinality(Ordered) + (IF c = "start" THEN 1 ELSE 0)
<1>1. IsFiniteSet(Ordered) /\ Cardinality(Ordered) \in Nat
  BY OrderedFinite
<1>2. CASE c = "start"
  <2>1. Ordered' = Ordered \union {Len(inbox) + 1} /\ Len(inbox) + 1 \notin Ordered
    BY <1>2 DEF Session, Ordered
  <2> QED
    BY <1>1, <1>2, <2>1, FS_AddElement
<1>3. CASE c # "start"
  <2>1. Ordered' = Ordered
    BY <1>3 DEF Session, Ordered
  <2> QED
    BY <1>1, <1>3, <2>1
<1> QED
  BY <1>2, <1>3

\* A cut connection loses commands.
LEMMA OrderedCut ==
  ASSUME Session, NEW k \in 0..Len(inbox), inbox' = SubSeq(inbox, 1, k)
  PROVE  Cardinality(Ordered') <= Cardinality(Ordered) /\ Cardinality(Ordered') \in Nat
<1>1. \A i \in 1..k : inbox[i] \in {"start", "stop", "shutdown"}
  BY DEF Session
<1>2. Len(inbox') = k /\ \A i \in 1..k : inbox'[i] = inbox[i]
  BY <1>1, SubSeqProperties
<1>3. Ordered' \in SUBSET Ordered
  BY <1>2 DEF Session, Ordered
<1> QED
  BY <1>3, OrderedFinite, FS_Subset, FS_CardinalityType

-----------------------------------------------------------------------------
(* The runs and their monitors.                                            *)

\* What a commander does, it does under the lock.
LEMMA CommandRuns ==
  ASSUME Types, Session, Counted, Locks, Runs, Idles, NEW p \in Commanders, Commanding(p)
  PROVE  Locks' /\ Runs' /\ Idles'
<1> USE DEF Types, Commanders, Free
<1>1. CASE StartTake(p)
  <2>1. CASE IsRunning
    <3>1. UNCHANGED <<monitor, lock, generation, backend, latest, mishaps>> /\ lock = Free
          /\ pc' = [pc EXCEPT ![p] = AfterStart(p)] /\ pc[p] = "start"
      BY <1>1, <2>1 DEF StartTake, At
    <3> QED
      BY <3>1 DEF AfterStart, Locks, Locked, Opening, Runs, Idles, Announcing
  <2>2. CASE ~IsRunning
    <3>1. /\ lock = Free /\ lock' = p /\ pc' = [pc EXCEPT ![p] = "starting"] /\ pc[p] = "start"
          /\ UNCHANGED <<monitor, latest>> /\ generation' = generation + 1 /\ backend = "off"
      BY <1>1, <2>2 DEF StartTake, At, IsRunning
    <3>2. mishaps \subseteq mishaps' /\ (p = "reader" /\ pc["serve"] \in Announcing => "early" \in mishaps')
      BY <1>1, <2>2 DEF StartTake, Announcing
    <3>3. generation + 1 \in Generations
      BY <3>1, OrderedFinite, BoundsAssumption DEF Counted, Generations, Announcing
    <3>4. monitor[generation + 1] = "off" /\ \A n \in Generations : n > generation + 1 => monitor[n] = "off"
      BY <3>3 DEF Runs, Generations
    <3>5. Locks'
      BY <3>1 DEF Locks, Locked, Opening
    <3>6. Runs'
      BY <3>1, <3>3, <3>4 DEF Runs, Locks, Locked, Opening
    <3>7. Idles'
      BY <3>1, <3>2 DEF Idles, Announcing
    <3> QED
      BY <3>5, <3>6, <3>7
  <2> QED
    BY <2>1, <2>2
<1>2. CASE StartTell(p)
  <2>1. /\ pc[p] = "starting" /\ pc' = [pc EXCEPT ![p] = "started"] /\ latest' = Running
        /\ UNCHANGED <<monitor, lock, generation, backend, mishaps>>
    BY <1>2 DEF StartTell, At, Publish
  <2> QED
    BY <2>1 DEF Locks, Locked, Opening, Runs, Idles, Announcing, Running, Idle
<1>3. CASE StartDone(p)
  <2>1. /\ pc[p] = "started" /\ pc' = [pc EXCEPT ![p] = AfterStart(p)] /\ lock' = Free
        /\ monitor' = [monitor EXCEPT ![generation] = "wait"]
        /\ UNCHANGED <<generation, backend, latest, mishaps>>
    BY <1>3 DEF StartDone, At
  <2>2. generation \in Generations /\ monitor[generation] = "off" /\ lock = p
    BY <2>1 DEF Runs, Locks, Locked, Opening
  <2>3. \A q \in Commanders : pc[q] \in Locked => q = p
    BY <2>2 DEF Locks
  <2>4. Locks'
    BY <2>1, <2>2, <2>3 DEF Locks, Locked, Opening, AfterStart
  <2>5. Runs'
    BY <2>1, <2>2, <2>3 DEF Runs, Locked, Opening, AfterStart
  <2>6. Idles'
    BY <2>1, <2>2, <2>3 DEF Idles, Announcing, AfterStart
  <2> QED
    BY <2>4, <2>5, <2>6
<1>4. CASE StopTake(p)
  <2>1. /\ lock = Free /\ pc[p] \in {"stop", "shutdown"}
        /\ UNCHANGED <<monitor, generation, backend, mishaps>>
    BY <1>4 DEF StopTake, At
  <2>2. CASE IsRunning
    <3>1. /\ lock' = p /\ latest' = Running /\ backend # "off"
          /\ pc' = [pc EXCEPT ![p] = IF pc[p] = "stop" THEN "stopping" ELSE "shutting"]
      BY <1>4, <2>2 DEF StopTake, At, Publish, IsRunning
    <3>2. \A q \in Commanders : pc[q] \notin Locked
      BY <2>1 DEF Locks
    <3> QED
      BY <2>1, <3>1, <3>2 DEF Locks, Locked, Opening, Runs, Idles, Announcing, Running, Idle
  <2>3. CASE ~IsRunning
    <3>1. UNCHANGED <<lock, latest>> /\ pc' = [pc EXCEPT ![p] = AfterStop(p)]
      BY <1>4, <2>3 DEF StopTake, At
    <3> QED
      BY <2>1, <3>1 DEF AfterStop, Locks, Locked, Opening, Runs, Idles, Announcing
  <2> QED
    BY <2>2, <2>3
<1>5. CASE StopDone(p)
  <2>1. /\ pc[p] \in {"stopping", "shutting"} /\ pc' = [pc EXCEPT ![p] = AfterStop(p)] /\ lock' = Free
        /\ UNCHANGED <<monitor, generation, latest>> /\ mishaps \subseteq mishaps'
        /\ backend' \in {backend, "ending"} /\ (backend = "off" <=> backend' = "off")
    BY <1>5 DEF StopDone, At
  <2>2. lock = p /\ \A q \in Commanders : pc[q] \in Locked => q = p
    BY <2>1 DEF Locks, Locked
  <2>3. Locks'
    BY <2>1, <2>2 DEF Locks, Locked, Opening, AfterStop
  <2>4. Runs'
    BY <2>1 DEF Runs, Opening, AfterStop
  <2>5. Idles'
    BY <2>1 DEF Idles, Announcing, AfterStop
  <2> QED
    BY <2>3, <2>4, <2>5
<1> QED
  BY <1>1, <1>2, <1>3, <1>4, <1>5 DEF Commanding

\* A monitor speaks only for the current run, and only when it has ended.
LEMMA MonitorRuns ==
  ASSUME Types, Locks, Runs, Idles, NEW n \in Generations, Monitor(n)
  PROVE  Locks' /\ Runs' /\ Idles'
<1> USE DEF Types, Commanders, Free
<1>1. CASE MonitorWait(n)
  <2>1. /\ monitor[n] = "wait" /\ monitor' = [monitor EXCEPT ![n] = "ended"]
        /\ backend = "off" \/ generation # n
        /\ UNCHANGED <<pc, lock, generation, backend, latest, mishaps>>
    BY <1>1 DEF MonitorWait
  <2> QED
    BY <2>1 DEF Locks, Runs, Idles
<1>2. CASE MonitorPublish(n)
  <2>1. /\ monitor[n] = "ended" /\ lock = Free
        /\ UNCHANGED <<pc, generation, backend, mishaps>>
    BY <1>2 DEF MonitorPublish
  <2>2. CASE n = generation
    <3>1. monitor' = [monitor EXCEPT ![n] = "told"] /\ lock' = "monitor" /\ latest' = Idle
      BY <1>2, <2>2 DEF MonitorPublish, Publish
    <3>2. backend = "off"
      BY <2>1, <2>2 DEF Runs
    <3> QED
      BY <2>1, <2>2, <3>1, <3>2 DEF Locks, Locked, Opening, Runs, Idles, Running, Idle
  <2>3. CASE n # generation
    <3>1. monitor' = [monitor EXCEPT ![n] = "done"] /\ UNCHANGED <<lock, latest>>
      BY <1>2, <2>3 DEF MonitorPublish
    <3> QED
      BY <2>1, <2>3, <3>1 DEF Locks, Runs, Idles
  <2> QED
    BY <2>2, <2>3
<1>3. CASE MonitorDone(n)
  <2>1. /\ monitor[n] = "told" /\ monitor' = [monitor EXCEPT ![n] = "done"] /\ lock' = Free
        /\ UNCHANGED <<pc, generation, backend, latest, mishaps>>
    BY <1>3 DEF MonitorDone
  <2>2. n = generation /\ lock = "monitor"
    BY <2>1 DEF Locks
  <2>3. Locks'
    BY <2>1, <2>2 DEF Locks
  <2> QED
    BY <2>1, <2>2, <2>3 DEF Runs, Idles
<1> QED
  BY <1>1, <1>2, <1>3 DEF Monitor

\* Every step keeps the locks, the monitors and what was said.
LEMMA RunsStep ==
  ASSUME Types, Session, Counted, Locks, Runs, Idles, [Next]_vars
  PROVE  Locks' /\ Runs' /\ Idles'
<1>1. CASE Aside \/ UNCHANGED vars
  BY <1>1, AsideCore DEF core, Locks, Runs, Idles
<1>2. CASE Moving
  <2> USE DEF Types, Commanders
  <2>1. UNCHANGED <<monitor, lock, generation, backend, mishaps>>
    BY <1>2 DEF Moving, ServeInit, ServeAnnounce, ServeWake, ServeClose, ReadCommand, ReadShutdown, Reply
  <2>2. CASE ServeInit
    <3>1. pc["serve"] = "init" /\ pc' = [pc EXCEPT !["serve"] = "announce"] /\ latest' = Idle
      BY <2>2 DEF ServeInit, At
    <3>2. backend # "off" => "early" \in mishaps
      BY <3>1 DEF Runs, Idles, Announcing, Generations
    <3> QED
      BY <2>1, <3>1, <3>2 DEF Locks, Locked, Opening, Runs, Idles, Announcing, Running, Idle
  <2>3. CASE ServeAnnounce
    <3>1. /\ pc["serve"] = "announce" /\ latest' = latest
          /\ pc' \in {[pc EXCEPT !["serve"] = "start"], [pc EXCEPT !["serve"] = "wait"]}
      BY <2>3 DEF ServeAnnounce, At
    <3> QED
      BY <2>1, <3>1 DEF Locks, Locked, Opening, Runs, Idles, Announcing
  <2>4. CASE ServeWake \/ ServeClose
    <3>1. /\ pc["serve"] \in {"wait", "join"} /\ latest' = latest
          /\ pc' \in {[pc EXCEPT !["serve"] = "stop"], [pc EXCEPT !["serve"] = "closed"]}
      BY <2>4 DEF ServeWake, ServeClose, At
    <3> QED
      BY <2>1, <3>1 DEF Locks, Locked, Opening, Runs, Idles, Announcing
  <2>5. CASE ReadCommand \/ ReadShutdown \/ Reply
    <3>1. /\ pc["reader"] \in {"idle", "set", "reply"} /\ latest' = latest
          /\ \E to \in {"start", "stop", "shutdown", "reply", "idle"} : pc' = [pc EXCEPT !["reader"] = to]
      <4>1. CASE ReadCommand
        <5>1. Head(inbox) \in {"start", "stop", "shutdown"}
          BY <4>1 DEF ReadCommand, Session
        <5> QED
          BY <4>1, <5>1 DEF ReadCommand, At
      <4>2. CASE ReadShutdown \/ Reply
        BY <4>2 DEF ReadShutdown, Reply, At
      <4> QED
        BY <2>5, <4>1, <4>2
    <3> QED
      BY <2>1, <3>1 DEF Locks, Locked, Opening, Runs, Idles, Announcing
  <2> QED
    BY <1>2, <2>2, <2>3, <2>4, <2>5 DEF Moving
<1>3. CASE Ending
  <2>1. UNCHANGED <<pc, monitor, lock, generation, latest, mishaps>> /\ (backend = "off" => backend' = "off")
    BY <1>3 DEF Ending, BackendBegins, BackendFails, BackendEnds, service
  <2> QED
    BY <2>1 DEF Locks, Runs, Idles
<1>4. CASE \E p \in Commanders : Commanding(p)
  BY <1>4, CommandRuns
<1>5. CASE \E n \in Generations : Monitor(n)
  BY <1>5, MonitorRuns
<1> QED
  BY <1>1, <1>2, <1>3, <1>4, <1>5, Steps

-----------------------------------------------------------------------------
(* The session and its queue.                                              *)

\* A broadcast puts its event into the queue or keeps it to put again.
LEMMA BroadcastSession ==
  ASSUME Session, NEW p \in Producers, NEW m \in Messages, out[p] = Nothing, Broadcast(p, m)
  PROVE  /\ events' \in Seq(Messages) /\ Len(events') <= QueueSize
         /\ out' \in [Producers -> Messages \union {Nothing}]
         /\ \A q \in took : out'[q] # Nothing
         /\ \A q \in Producers : q # p => out'[q] = out[q]
<1> USE DEF Session
<1>1. events' \in Seq(Messages) /\ Len(events') <= QueueSize
  BY QueueSizeAssumption DEF Broadcast, Room
<1>2. /\ out' \in [Producers -> Messages \union {Nothing}]
      /\ \A q \in Producers : q # p => out'[q] = out[q]
  BY DEF Broadcast
<1> QED
  BY <1>1, <1>2

\* The session of a step that broadcasts and changes nothing else of it.
LEMMA SessionKept ==
  ASSUME Session, NEW p \in Producers, NEW m \in Messages, out[p] = Nothing, Broadcast(p, m),
         p = "monitor" => lock' = "monitor", p # "monitor" /\ lock = "monitor" => lock' = "monitor",
         p # "accept", UNCHANGED <<listed, connected, accept, took, inbox>>
  PROVE  Session'
<1>1. /\ events' \in Seq(Messages) /\ Len(events') <= QueueSize
      /\ out' \in [Producers -> Messages \union {Nothing}]
      /\ \A q \in took : out'[q] # Nothing
      /\ \A q \in Producers : q # p => out'[q] = out[q]
  BY BroadcastSession
<1>2. "monitor" \in Producers /\ "accept" \in Producers
  BY DEF Producers
<1> QED
  BY <1>1, <1>2 DEF Session

\* The commanders.
LEMMA CommandSession ==
  ASSUME Types, Session, Locks, NEW p \in Commanders, Commanding(p)
  PROVE  Session'
<1>1. p \in Producers /\ p \notin {"monitor", "accept"} /\ Running \in Messages
  BY DEF Producers, Commanders, Messages, States
<1>2. CASE StartTake(p) \/ StartDone(p) \/ StopDone(p) \/ (StopTake(p) /\ ~IsRunning)
  <2>1. UNCHANGED <<listed, connected, accept, events, out, took, inbox>>
    BY <1>2 DEF StartTake, StartDone, StopDone, StopTake, queue, client
  <2>2. lock = "monitor" => lock' = "monitor"
    <3>1. CASE StartTake(p) \/ (StopTake(p) /\ ~IsRunning)
      BY <3>1 DEF StartTake, StopTake, Free
    <3>2. CASE StartDone(p) \/ StopDone(p)
      <4>1. pc[p] \in Locked
        BY <3>2 DEF StartDone, StopDone, At, Locked, Opening
      <4> QED
        BY <4>1 DEF Locks, Commanders
    <3> QED
      BY <1>2, <3>1, <3>2
  <2> QED
    BY <2>1, <2>2 DEF Session
<1>3. CASE StartTell(p)
  <2>1. /\ out[p] = Nothing /\ Broadcast(p, Running) /\ lock' = lock
        /\ UNCHANGED <<listed, connected, accept, took, inbox>>
    BY <1>3 DEF StartTell, At, Publish, client
  <2> QED
    BY <1>1, <2>1, SessionKept
<1>4. CASE StopTake(p) /\ IsRunning
  <2>1. /\ out[p] = Nothing /\ Broadcast(p, Running) /\ lock = Free
        /\ UNCHANGED <<listed, connected, accept, took, inbox>>
    BY <1>4 DEF StopTake, At, Publish, client
  <2> QED
    BY <1>1, <2>1, SessionKept DEF Free
<1> QED
  BY <1>2, <1>3, <1>4 DEF Commanding

\* The sessions of the rest.
LEMMA SessionStep ==
  ASSUME Types, Session, Locks, [Next]_vars
  PROVE  Session'
<1>0. /\ {"serve", "reader", "accept", "backend", "monitor"} \subseteq Producers
      /\ {Running, Idle, "failed", "note"} \subseteq Messages
  BY DEF Producers, Commanders, Messages, States
<1>1. CASE Aside
  <2> USE DEF Session
  <2>1. lock' = lock
    BY <1>1, AsideCore DEF core
  <2>2. CASE Signal
    BY <2>1, <2>2 DEF Signal, queue, client
  <2>3. CASE Accept
    BY <2>1, <2>3 DEF Accept, queue, client
  <2>4. CASE AcceptState \/ AcceptDone
    BY <2>1, <2>4 DEF AcceptState, AcceptDone, queue, client, Types, States, Running, Idle
  <2>5. CASE AcceptPut
    <3>1. /\ accept \in States /\ out["accept"] = Nothing /\ accept' = "greeted"
          /\ Broadcast("accept", accept) /\ UNCHANGED <<listed, connected, took, inbox>>
      BY <2>5 DEF AcceptPut, client, States, Running, Idle
    <3>2. /\ events' \in Seq(Messages) /\ Len(events') <= QueueSize
          /\ out' \in [Producers -> Messages \union {Nothing}]
          /\ \A q \in took : out'[q] # Nothing
          /\ \A q \in Producers : q # "accept" => out'[q] = out[q]
      <4>1. accept \in Messages
        BY <3>1 DEF Messages
      <4> HIDE DEF Session
      <4> QED
        BY <1>0, <3>1, <4>1, BroadcastSession
    <3> QED
      BY <1>0, <2>1, <3>1, <3>2
  <2>6. CASE Disconnect
    <3> PICK k \in 0..Len(inbox) : inbox' = SubSeq(inbox, 1, k)
      BY <2>6 DEF Disconnect
    <3>1. inbox' \in Seq({"start", "stop", "shutdown"})
      <4>1. \A i \in 1..k : inbox[i] \in {"start", "stop", "shutdown"}
        OBVIOUS
      <4> QED
        BY <4>1, SubSeqProperties
    <3>2. /\ connected' = FALSE /\ listed' = FALSE /\ events' = << >> /\ took' = {}
          /\ out' = [p \in Producers |-> Nothing] /\ accept' = accept
      BY <2>6 DEF Disconnect, service
    <3>3. Len(events') <= QueueSize /\ events' \in Seq(Messages)
      BY <3>2, QueueSizeAssumption
    <3> QED
      BY <1>0, <3>1, <3>2, <3>3
  <2>7. CASE BackendNote
    <3>1. /\ out["backend"] = Nothing /\ Broadcast("backend", "note")
          /\ UNCHANGED <<listed, connected, accept, took, inbox>>
      BY <2>7 DEF BackendNote, service, client
    <3> HIDE DEF Session
    <3> QED
      BY <1>0, <2>1, <3>1, SessionKept
  <2>8. ASSUME NEW p \in Producers, MakeRoom(p)
        PROVE  Session'
    <3>1. events' \in Seq(Messages) /\ Len(events') <= QueueSize
      BY <2>8, QueueSizeAssumption DEF MakeRoom
    <3> QED
      BY <2>1, <2>8, <3>1 DEF MakeRoom, service, client
  <2>9. ASSUME NEW p \in Producers, PutAgain(p)
        PROVE  Session'
    <3>1. out[p] \in Messages
      BY <2>9 DEF PutAgain
    <3>2. events' \in Seq(Messages) /\ Len(events') <= QueueSize
      BY <2>9, <3>1, QueueSizeAssumption DEF PutAgain, Room
    <3> QED
      BY <2>1, <2>9, <3>2 DEF PutAgain, service, client
  <2>10. CASE WorkerStart \/ WorkerStop
    <3>1. inbox' \in Seq({"start", "stop", "shutdown"})
      <4>1. inbox' = inbox \/ \E c \in {"start", "stop", "shutdown"} : inbox' = Append(inbox, c)
        <5>1. CASE WorkerStart
          BY <5>1, Zenon DEF WorkerStart
        <5>2. CASE WorkerStop
          BY <5>2, Zenon DEF WorkerStop
        <5> QED
          BY <2>10, <5>1, <5>2
      <4>2. ASSUME NEW c \in {"start", "stop", "shutdown"}
            PROVE  Append(inbox, c) \in Seq({"start", "stop", "shutdown"})
        BY AppendProperties
      <4> QED
        BY <4>1, <4>2
    <3>2. UNCHANGED <<listed, connected, accept, events, out, took>>
      BY <2>10 DEF WorkerStart, WorkerStop, service, queue
    <3> QED
      BY <2>1, <3>1, <3>2
  <2>11. CASE Deliver
    <3>1. events' \in Seq(Messages) /\ Len(events') <= QueueSize
      BY <2>11, QueueSizeAssumption DEF Deliver
    <3> QED
      BY <2>1, <2>11, <3>1 DEF Deliver, service
  <2> QED
    BY <1>1, <2>2, <2>3, <2>4, <2>5, <2>6, <2>7, <2>8, <2>9, <2>10, <2>11 DEF Aside, AcceptNext
<1>2. CASE Moving
  <2>1. CASE ServeAnnounce
    <3>1. /\ out["serve"] = Nothing /\ Broadcast("serve", Idle)
          /\ UNCHANGED <<lock, listed, connected, accept, took, inbox>>
      BY <2>1 DEF ServeAnnounce, At, client
    <3> QED
      BY <1>0, <3>1, SessionKept
  <2>2. CASE Reply
    <3>1. /\ out["reader"] = Nothing /\ Broadcast("reader", "note")
          /\ UNCHANGED <<lock, listed, connected, accept, took, inbox>>
      BY <2>2 DEF Reply, At, client
    <3> QED
      BY <1>0, <3>1, SessionKept
  <2>3. CASE ServeInit \/ ServeWake \/ ReadShutdown
    BY <2>3 DEF ServeInit, ServeWake, ReadShutdown, queue, client, Session
  <2>4. CASE ServeClose
    BY <2>4 DEF ServeClose, queue, client, Session
  <2>5. CASE ReadCommand
    BY <2>5 DEF ReadCommand, queue, Session
  <2> QED
    BY <1>2, <2>1, <2>2, <2>3, <2>4, <2>5 DEF Moving
<1>3. CASE Ending
  <2>1. CASE BackendFails
    <3>1. /\ out["backend"] = Nothing /\ Broadcast("backend", "failed")
          /\ UNCHANGED <<lock, listed, connected, accept, took, inbox>>
      BY <2>1 DEF BackendFails, service, client
    <3> QED
      BY <1>0, <3>1, SessionKept
  <2>2. CASE BackendBegins \/ BackendEnds
    BY <2>2 DEF BackendBegins, BackendEnds, service, queue, client, Session
  <2> QED
    BY <1>3, <2>1, <2>2 DEF Ending
<1>4. CASE \E p \in Commanders : Commanding(p)
  BY <1>4, CommandSession
<1>5. CASE \E n \in Generations : Monitor(n)
  <2> PICK n \in Generations : Monitor(n)
    BY <1>5
  <2>1. CASE MonitorPublish(n) /\ n = generation
    <3>1. /\ lock = Free /\ lock' = "monitor" /\ Broadcast("monitor", Idle)
          /\ UNCHANGED <<listed, connected, accept, took, inbox>>
      BY <2>1 DEF MonitorPublish, Publish, client
    <3>2. out["monitor"] = Nothing
      BY <3>1 DEF Session, Free
    <3> QED
      BY <1>0, <3>1, <3>2, SessionKept
  <2>2. CASE MonitorWait(n) \/ (MonitorPublish(n) /\ n # generation)
    BY <2>2 DEF MonitorWait, MonitorPublish, queue, client, Session
  <2>3. CASE MonitorDone(n)
    BY <2>3 DEF MonitorDone, queue, client, Session
  <2> QED
    BY <2>1, <2>2, <2>3 DEF Monitor
<1>6. CASE UNCHANGED vars
  BY <1>6 DEF vars, service, queue, client, Session
<1> QED
  BY <1>1, <1>2, <1>3, <1>4, <1>5, <1>6, Steps

-----------------------------------------------------------------------------
(* No run without an order.                                                *)

\* What is counted stays within the starts given.
LEMMA CountedStep ==
  ASSUME Types, Session, Counted, [Next]_vars
  PROVE  Counted'
<1> USE DEF Counted
<1>1. Cardinality(Ordered) \in Nat
  BY OrderedFinite
<1>2. CASE Aside
  <2>1. UNCHANGED <<generation, pc>>
    BY <1>2, AsideCore DEF core
  <2>2. CASE WorkerStart
    <3>1. starts' = starts + 1
      BY <2>2 DEF WorkerStart
    <3>2. Cardinality(Ordered') \in {Cardinality(Ordered), Cardinality(Ordered) + 1}
      <4>1. CASE connected
        <5>1. inbox' = Append(inbox, "start")
          BY <2>2, <4>1 DEF WorkerStart
        <5> QED
          BY <5>1, OrderedAppend
      <4>2. CASE ~connected
        BY <2>2, <4>2 DEF WorkerStart, Ordered
      <4> QED
        BY <4>1, <4>2
    <3> QED
      BY <1>1, <2>1, <3>1, <3>2 DEF Types
  <2>3. CASE WorkerStop
    <3>1. starts' = starts
      BY <2>3 DEF WorkerStop
    <3>2. Cardinality(Ordered') = Cardinality(Ordered)
      <4>1. inbox' = Append(inbox, "stop") \/ inbox' = Append(inbox, "shutdown")
        BY <2>3 DEF WorkerStop
      <4>2. CASE inbox' = Append(inbox, "stop")
        BY <1>1, <4>2, OrderedAppend
      <4>3. CASE inbox' = Append(inbox, "shutdown")
        BY <1>1, <4>3, OrderedAppend
      <4> QED
        BY <4>1, <4>2, <4>3
    <3> QED
      BY <2>1, <3>1, <3>2
  <2>4. CASE Disconnect
    <3> PICK k \in 0..Len(inbox) : inbox' = SubSeq(inbox, 1, k)
      BY <2>4 DEF Disconnect
    <3>1. Cardinality(Ordered') <= Cardinality(Ordered) /\ Cardinality(Ordered') \in Nat
      BY OrderedCut
    <3>2. starts' = starts
      BY <2>4 DEF Disconnect
    <3> QED
      BY <1>1, <2>1, <3>1, <3>2 DEF Types
  <2>5. CASE ~WorkerStart /\ ~WorkerStop /\ ~Disconnect
    <3>1. UNCHANGED <<inbox, starts>>
      BY <1>2, <2>5 DEF Aside, Signal, Accept, AcceptNext, AcceptState, AcceptPut, AcceptDone,
         BackendNote, MakeRoom, PutAgain, Deliver, client
    <3> QED
      BY <2>1, <3>1 DEF Ordered
  <2> QED
    BY <2>2, <2>3, <2>4, <2>5
<1>3. CASE Moving
  <2>1. UNCHANGED <<generation, starts>>
    BY <1>3 DEF Moving, ServeInit, ServeAnnounce, ServeWake, ServeClose, ReadCommand, ReadShutdown,
       Reply, client
  <2>2. CASE ReadCommand
    <3>1. /\ inbox # << >> /\ inbox' = Tail(inbox) /\ pc["reader"] = "idle"
          /\ pc' = [pc EXCEPT !["reader"] = Head(inbox)]
      BY <2>2 DEF ReadCommand, At
    <3>2. Cardinality(Ordered') + (IF Head(inbox) = "start" THEN 1 ELSE 0) <= Cardinality(Ordered)
          /\ Cardinality(Ordered') \in Nat
      <4>1. inbox' \in Seq({"start", "stop", "shutdown"})
        BY <3>1 DEF Session
      <4>2. IsFiniteSet(1..Len(inbox')) /\ Ordered' \in SUBSET (1..Len(inbox'))
        BY <4>1, FS_Interval DEF Ordered
      <4> QED
        BY <3>1, <4>2, OrderedTail, FS_Subset, FS_CardinalityType
    <3> QED
      BY <1>1, <2>1, <3>1, <3>2 DEF Types, Commanders
  <2>3. CASE ~ReadCommand
    <3>1. inbox' = inbox
      BY <1>3, <2>3 DEF Moving, ServeInit, ServeAnnounce, ServeWake, ServeClose, ReadShutdown, Reply, client
    <3>2. /\ pc'["reader"] = "start" => pc["reader"] = "start"
          /\ pc'["serve"] \in Announcing => pc["serve"] \in Announcing
      BY <1>3, <2>3 DEF Moving, ServeInit, ServeAnnounce, ServeWake, ServeClose, ReadShutdown, Reply,
         At, Types, Commanders, Announcing
    <3> QED
      BY <1>1, <2>1, <3>1, <3>2 DEF Ordered, Types
  <2> QED
    BY <2>2, <2>3
<1>4. CASE Ending \/ UNCHANGED vars \/ \E n \in Generations : Monitor(n)
  <2>1. UNCHANGED <<generation, pc, inbox, starts>>
    BY <1>4 DEF Ending, BackendBegins, BackendFails, BackendEnds, Monitor, MonitorWait, MonitorPublish,
       MonitorDone, vars, service, client
  <2> QED
    BY <2>1 DEF Ordered
<1>5. ASSUME NEW p \in Commanders, Commanding(p)
      PROVE  Counted'
  <2>1. UNCHANGED <<inbox, starts>>
    BY <1>5 DEF Commanding, StartTake, StartTell, StartDone, StopTake, StopDone, client
  <2>2. CASE StartTake(p)
    <3>1. /\ pc[p] = "start" /\ pc' = [pc EXCEPT ![p] = IF IsRunning THEN AfterStart(p) ELSE "starting"]
          /\ generation' \in {generation, generation + 1}
      BY <2>2 DEF StartTake, At
    <3> QED
      BY <1>1, <2>1, <3>1 DEF Ordered, Types, Commanders, Announcing, AfterStart
  <2>3. CASE StartTell(p) \/ StartDone(p) \/ StopTake(p) \/ StopDone(p)
    <3>1. /\ generation' = generation
          /\ \E to \in {"started", "wait", "reply", "stopping", "shutting", "join", "set"} :
               pc' = [pc EXCEPT ![p] = to]
      BY <2>3 DEF StartTell, StartDone, StopTake, StopDone, At, AfterStart, AfterStop
    <3> QED
      BY <1>1, <2>1, <3>1 DEF Ordered, Types, Commanders, Announcing
  <2> QED
    BY <1>5, <2>2, <2>3 DEF Commanding
<1> QED
  BY <1>2, <1>3, <1>4, <1>5, Steps

-----------------------------------------------------------------------------
(* The latest state on its way to the client.                              *)

\* A state put behind the others is the last one; any other event changes nothing.
LEMMA LastOfAppend ==
  ASSUME NEW ev \in Seq(Messages), NEW m \in Messages
  PROVE  /\ m \in States => LastState(Append(ev, m), m)
         /\ m \notin States => /\ NoState(ev) => NoState(Append(ev, m))
                               /\ \A s \in States : LastState(ev, s) => LastState(Append(ev, m), s)
<1>1. /\ Len(Append(ev, m)) = Len(ev) + 1 /\ Append(ev, m)[Len(ev) + 1] = m
      /\ \A i \in 1..Len(ev) : Append(ev, m)[i] = ev[i]
  OBVIOUS
<1>2. ASSUME m \in States
      PROVE  LastState(Append(ev, m), m)
  BY <1>1 DEF LastState
<1>3. ASSUME m \notin States, NoState(ev)
      PROVE  NoState(Append(ev, m))
  BY <1>1, <1>3 DEF NoState
<1>4. ASSUME m \notin States, NEW s \in States, LastState(ev, s)
      PROVE  LastState(Append(ev, m), s)
  <2> PICK i \in 1..Len(ev) : ev[i] = s /\ \A j \in 1..Len(ev) : j > i => ev[j] \notin States
    BY <1>4 DEF LastState
  <2>1. i \in 1..Len(Append(ev, m)) /\ Append(ev, m)[i] = s
    BY <1>1
  <2>2. \A j \in 1..Len(Append(ev, m)) : j > i => Append(ev, m)[j] \notin States
    BY <1>1, <1>4
  <2> QED
    BY <2>1, <2>2 DEF LastState
<1> QED
  BY <1>2, <1>3, <1>4

\* The event in front is the last state, or the last state stays behind it.
LEMMA LastOfTail ==
  ASSUME NEW ev \in Seq(Messages), ev # << >>
  PROVE  /\ NoState(ev) => Head(ev) \notin States /\ NoState(Tail(ev))
         /\ \A s \in States : LastState(ev, s) =>
              LastState(Tail(ev), s) \/ (Head(ev) = s /\ NoState(Tail(ev)))
<1>1. /\ Len(Tail(ev)) = Len(ev) - 1 /\ Len(ev) \in Nat /\ Len(ev) > 0 /\ Head(ev) = ev[1]
      /\ \A i \in 1..Len(Tail(ev)) : i + 1 \in 1..Len(ev) /\ Tail(ev)[i] = ev[i + 1]
  OBVIOUS
<1>2. ASSUME NoState(ev)
      PROVE  Head(ev) \notin States /\ NoState(Tail(ev))
  BY <1>1, <1>2 DEF NoState
<1>3. ASSUME NEW s \in States, LastState(ev, s)
      PROVE  LastState(Tail(ev), s) \/ (Head(ev) = s /\ NoState(Tail(ev)))
  <2> PICK i \in 1..Len(ev) : ev[i] = s /\ \A j \in 1..Len(ev) : j > i => ev[j] \notin States
    BY <1>3 DEF LastState
  <2>1. CASE i = 1
    BY <1>1, <2>1 DEF NoState
  <2>2. CASE i > 1
    <3>1. i - 1 \in 1..Len(Tail(ev)) /\ Tail(ev)[i - 1] = s
      BY <1>1, <2>2
    <3>2. \A j \in 1..Len(Tail(ev)) : j > i - 1 => Tail(ev)[j] \notin States
      BY <1>1
    <3> QED
      BY <3>1, <3>2 DEF LastState
  <2> QED
    BY <2>1, <2>2
<1> QED
  BY <1>2, <1>3

\* A state that is broadcast as the latest one is on its way.
LEMMA StateFollowed ==
  ASSUME Session, NEW p \in Producers, NEW s \in States, connected, Broadcast(p, s), latest' = s
  PROVE  Followed'
<1>1. s \in Messages /\ listed
  BY DEF Messages, Session
<1>2. CASE Room
  <2>1. events' = Append(events, s)
    BY <1>1, <1>2 DEF Broadcast
  <2> QED
    BY <1>1, <2>1, LastOfAppend DEF Session, Followed
<1>3. CASE ~Room
  <2>1. out'[p] = s
    BY <1>1, <1>3 DEF Broadcast, Session
  <2> QED
    BY <2>1 DEF Followed
<1> QED
  BY <1>2, <1>3

\* An event that is no state does not come between.
LEMMA NoteFollowed ==
  ASSUME Types, Session, Followed, NEW p \in Producers, NEW m \in Messages \ States, out[p] = Nothing,
         Broadcast(p, m), UNCHANGED <<latest, worker>>
  PROVE  Followed'
<1>1. latest \in States /\ latest # Nothing
  BY DEF Types, States, Running, Idle, Nothing
<1>2. CASE \E q \in Producers : out[q] = latest
  <2> PICK q \in Producers : out[q] = latest
    BY <1>2
  <2>1. q # p
    BY <1>1
  <2>2. out'[q] = latest'
    BY <2>1 DEF Broadcast, Session
  <2> QED
    BY <2>2 DEF Followed
<1>3. CASE ~\E q \in Producers : out[q] = latest
  <2>1. LastState(events, latest) \/ (NoState(events) /\ (worker.running <=> latest = Running))
    BY <1>3 DEF Followed
  <2>2. events' = events \/ events' = Append(events, m)
    BY DEF Broadcast
  <2>3. LastState(events, latest) => LastState(events', latest)
    BY <1>1, <2>2, LastOfAppend DEF Session
  <2>4. NoState(events) => NoState(events')
    BY <2>2, LastOfAppend DEF Session
  <2> QED
    BY <2>1, <2>3, <2>4 DEF Followed
<1> QED
  BY <1>2, <1>3

\* A thread makes room or puts its event without losing the last state, unless
\* that is known.
LEMMA QueueFollowing ==
  ASSUME Types, Session, Following, NEW p \in Producers, MakeRoom(p) \/ PutAgain(p)
  PROVE  Following'
<1>1. UNCHANGED <<connected, accept, latest, worker>> /\ mishaps \subseteq mishaps'
  BY DEF MakeRoom, PutAgain, service, client
<1> SUFFICES ASSUME Undisturbed', accept' \in {"greeted", "serving"}
             PROVE  Followed'
  BY DEF Following
<1>2. Followed /\ connected /\ "missed" \notin mishaps'
  BY <1>1 DEF Following, Undisturbed
<1>3. latest \in States /\ latest # Nothing
  BY DEF Types, States, Running, Idle, Nothing
<1>4. CASE MakeRoom(p)
  <2>1. out' = out /\ (events # << >> => Head(events) \notin States /\ events' = Tail(events))
        /\ (events = << >> => events' = events)
    BY <1>2, <1>4 DEF MakeRoom
  <2>2. CASE events = << >>
    BY <1>1, <1>2, <2>1, <2>2 DEF Followed
  <2>3. CASE events # << >>
    <3>1. LastState(events, latest) => LastState(events', latest)
      BY <1>3, <2>1, <2>3, LastOfTail DEF Session
    <3>2. NoState(events) => NoState(events')
      BY <2>1, <2>3, LastOfTail DEF Session
    <3> QED
      BY <1>1, <1>2, <2>1, <3>1, <3>2 DEF Followed
  <2> QED
    BY <2>2, <2>3
<1>5. CASE PutAgain(p)
  <2>1. /\ out[p] \in Messages /\ out' = [out EXCEPT ![p] = Nothing]
        /\ events' = IF Room THEN Append(events, out[p]) ELSE events
        /\ out[p] \in States => Room /\ out[p] = latest
    BY <1>2, <1>5 DEF PutAgain, Session
  <2>2. CASE out[p] \in States
    <3>1. events' = Append(events, latest)
      BY <2>1, <2>2
    <3>2. LastState(events', latest)
      BY <1>3, <2>1, <2>2, <3>1, LastOfAppend DEF Session
    <3> QED
      BY <1>1, <3>2 DEF Followed
  <2>3. CASE out[p] \notin States
    <3>1. \A q \in Producers : out[q] = latest => out'[q] = latest
      BY <1>3, <2>1, <2>3 DEF Session
    <3>2. events' = events \/ events' = Append(events, out[p])
      BY <2>1
    <3>3. LastState(events, latest) => LastState(events', latest)
      BY <1>3, <2>1, <2>3, <3>2, LastOfAppend DEF Session
    <3>4. NoState(events) => NoState(events')
      BY <2>1, <2>3, <3>2, LastOfAppend DEF Session
    <3> QED
      BY <1>1, <1>2, <3>1, <3>3, <3>4 DEF Followed
  <2> QED
    BY <2>2, <2>3
<1> QED
  BY <1>4, <1>5

\* The worker is told the event in front.
LEMMA DeliverFollowing ==
  ASSUME Types, Session, Following, Deliver
  PROVE  Following'
<1>1. /\ UNCHANGED <<connected, accept, latest, mishaps, out>>
      /\ events # << >> /\ events' = Tail(events) /\ worker' = OnMessage(Head(events))
  BY DEF Deliver, service
<1> SUFFICES ASSUME Undisturbed', accept' \in {"greeted", "serving"}
             PROVE  Followed'
  BY DEF Following
<1>2. Followed
  BY <1>1 DEF Following, Undisturbed
<1>3. latest \in States
  BY DEF Types
<1>4. CASE \E q \in Producers : out[q] = latest
  BY <1>1, <1>4 DEF Followed
<1>5. CASE LastState(events, latest)
  <2>1. CASE LastState(events', latest)
    BY <1>1, <2>1 DEF Followed
  <2>2. CASE Head(events) = latest /\ NoState(events')
    <3>1. worker'.running <=> latest = Running
      BY <1>1, <1>3, <2>2 DEF OnMessage, States, Running, Idle, Types, Worker
    <3> QED
      BY <1>1, <2>2, <3>1 DEF Followed
  <2> QED
    BY <1>1, <1>3, <1>5, <2>1, <2>2, LastOfTail DEF Session
<1>6. CASE NoState(events) /\ (worker.running <=> latest = Running)
  <2>1. Head(events) \notin States /\ NoState(events')
    BY <1>1, <1>6, LastOfTail DEF Session
  <2>2. worker'.running <=> worker.running
    BY <1>1, <2>1 DEF OnMessage, States, Running, Idle, Types, Worker
  <2> QED
    BY <1>1, <1>6, <2>1, <2>2 DEF Followed
<1> QED
  BY <1>2, <1>4, <1>5, <1>6 DEF Followed

\* Every step keeps the latest state on its way.
LEMMA FollowingStep ==
  ASSUME Types, Session, Runs, Idles, Following, [Next]_vars
  PROVE  Following'
<1>0. /\ {"serve", "reader", "accept", "backend", "monitor"} \subseteq Producers
      /\ Commanders \subseteq Producers /\ {Running, Idle} \subseteq States
      /\ {"failed", "note"} \subseteq Messages \ States
  BY DEF Producers, Commanders, Messages, States, Running, Idle
<1>1. CASE Aside
  <2>1. CASE Signal
    BY <2>1 DEF Signal, Following, Undisturbed, Followed, queue, client
  <2>2. CASE Accept
    BY <2>2 DEF Accept, Following
  <2>3. CASE AcceptState
    BY <2>3 DEF AcceptState, Following, Types, States, Running, Idle
  <2>4. CASE AcceptPut
    <3>1. CASE ~connected
      BY <2>4, <3>1 DEF AcceptPut, Following, Undisturbed
    <3>2. CASE accept # latest
      BY <2>4, <3>2 DEF AcceptPut, Following, Undisturbed
    <3>3. CASE connected /\ accept = latest
      <4>1. Broadcast("accept", latest) /\ latest' = latest /\ latest \in States
        BY <2>4, <3>3 DEF AcceptPut, Types
      <4> QED
        BY <1>0, <3>3, <4>1, StateFollowed DEF Following
    <3> QED
      BY <3>1, <3>2, <3>3
  <2>5. CASE AcceptDone
    BY <2>5 DEF AcceptDone, Following, Undisturbed, Followed, queue, client
  <2>6. CASE Disconnect
    BY <2>6 DEF Disconnect, Following, Undisturbed
  <2>7. CASE BackendNote
    <3>1. /\ out["backend"] = Nothing /\ Broadcast("backend", "note")
          /\ UNCHANGED <<connected, accept, mishaps, latest, worker>>
      BY <2>7 DEF BackendNote, service, client
    <3> QED
      BY <1>0, <3>1, NoteFollowed DEF Following, Undisturbed
  <2>8. CASE \E p \in Producers : MakeRoom(p) \/ PutAgain(p)
    BY <2>8, QueueFollowing
  <2>9. CASE WorkerStart
    <3>1. (worker'.running <=> worker.running) /\ UNCHANGED <<connected, accept, mishaps, latest, events, out>>
      BY <2>9 DEF WorkerStart, service, queue, Types, Worker
    <3> QED
      BY <3>1 DEF Following, Undisturbed, Followed
  <2>10. CASE WorkerStop
    BY <2>10 DEF WorkerStop, service, queue, Following, Undisturbed, Followed
  <2>11. CASE Deliver
    BY <2>11, DeliverFollowing
  <2> QED
    BY <1>1, <2>1, <2>2, <2>3, <2>4, <2>5, <2>6, <2>7, <2>8, <2>9, <2>10, <2>11 DEF Aside, AcceptNext
<1>2. CASE Moving
  <2>1. CASE ServeInit \/ ServeAnnounce
    <3>1. /\ pc["serve"] \in Announcing /\ UNCHANGED <<connected, accept, mishaps, worker>>
      BY <2>1 DEF ServeInit, ServeAnnounce, At, client, Announcing
    <3>2. "early" \notin mishaps => latest = Idle
      BY <3>1 DEF Idles, Runs, Generations, Types, States
    <3>3. CASE ServeInit
      <4>1. latest' = Idle /\ UNCHANGED <<events, out>>
        BY <3>3 DEF ServeInit, queue
      <4> QED
        BY <3>1, <3>2, <4>1 DEF Following, Undisturbed, Followed
    <3>4. CASE ServeAnnounce
      <4>1. Broadcast("serve", Idle) /\ latest' = latest
        BY <3>4 DEF ServeAnnounce
      <4>2. ASSUME Undisturbed'
            PROVE  Followed'
        BY <1>0, <3>1, <3>2, <4>1, <4>2, StateFollowed DEF Undisturbed
      <4> QED
        BY <4>2 DEF Following
    <3> QED
      BY <2>1, <3>3, <3>4
  <2>2. CASE ServeWake \/ ReadCommand \/ ReadShutdown
    <3>1. UNCHANGED <<connected, accept, mishaps, latest, events, out, worker>>
      BY <2>2 DEF ServeWake, ReadCommand, ReadShutdown, queue, client
    <3> QED
      BY <3>1 DEF Following, Undisturbed, Followed
  <2>3. CASE ServeClose
    BY <2>3 DEF ServeClose, Following, Undisturbed
  <2>4. CASE Reply
    <3>1. /\ out["reader"] = Nothing /\ Broadcast("reader", "note")
          /\ UNCHANGED <<connected, accept, mishaps, latest, worker>>
      BY <2>4 DEF Reply, At, client
    <3> QED
      BY <1>0, <3>1, NoteFollowed DEF Following, Undisturbed
  <2> QED
    BY <1>2, <2>1, <2>2, <2>3, <2>4 DEF Moving
<1>3. CASE Ending
  <2>1. CASE BackendFails
    <3>1. /\ out["backend"] = Nothing /\ Broadcast("backend", "failed")
          /\ UNCHANGED <<connected, accept, mishaps, latest, worker>>
      BY <2>1 DEF BackendFails, service, client
    <3> QED
      BY <1>0, <3>1, NoteFollowed DEF Following, Undisturbed
  <2>2. CASE BackendBegins \/ BackendEnds
    BY <2>2 DEF BackendBegins, BackendEnds, service, queue, client, Following, Undisturbed, Followed
  <2> QED
    BY <1>3, <2>1, <2>2 DEF Ending
<1>4. ASSUME NEW p \in Commanders, Commanding(p)
      PROVE  Following'
  <2>1. UNCHANGED <<connected, accept, worker>> /\ mishaps \subseteq mishaps'
    BY <1>4 DEF Commanding, StartTake, StartTell, StartDone, StopTake, StopDone, client
  <2>2. CASE StartTell(p) \/ (StopTake(p) /\ IsRunning)
    <3>1. Broadcast(p, Running) /\ latest' = Running
      BY <2>2 DEF StartTell, StopTake, Publish
    <3>2. ASSUME Undisturbed'
          PROVE  Followed'
      BY <1>0, <2>1, <3>1, <3>2, StateFollowed DEF Undisturbed
    <3> QED
      BY <3>2 DEF Following
  <2>3. CASE StartTake(p) \/ StartDone(p) \/ StopDone(p) \/ (StopTake(p) /\ ~IsRunning)
    <3>1. UNCHANGED <<latest, events, out>>
      BY <2>3 DEF StartTake, StartDone, StopDone, StopTake, queue
    <3> QED
      BY <2>1, <3>1 DEF Following, Undisturbed, Followed
  <2> QED
    BY <1>4, <2>2, <2>3 DEF Commanding
<1>5. ASSUME NEW n \in Generations, Monitor(n)
      PROVE  Following'
  <2>1. UNCHANGED <<connected, accept, worker, mishaps>>
    BY <1>5 DEF Monitor, MonitorWait, MonitorPublish, MonitorDone, client
  <2>2. CASE MonitorPublish(n) /\ n = generation
    <3>1. Broadcast("monitor", Idle) /\ latest' = Idle
      BY <2>2 DEF MonitorPublish, Publish
    <3>2. ASSUME Undisturbed'
          PROVE  Followed'
      BY <1>0, <2>1, <3>1, <3>2, StateFollowed DEF Undisturbed
    <3> QED
      BY <3>2 DEF Following
  <2>3. CASE MonitorWait(n) \/ MonitorDone(n) \/ (MonitorPublish(n) /\ n # generation)
    <3>1. UNCHANGED <<latest, events, out>>
      BY <2>3 DEF MonitorWait, MonitorDone, MonitorPublish, queue
    <3> QED
      BY <2>1, <3>1 DEF Following, Undisturbed, Followed
  <2> QED
    BY <1>5, <2>2, <2>3 DEF Monitor
<1>6. CASE UNCHANGED vars
  BY <1>6 DEF vars, service, queue, client, Following, Undisturbed, Followed
<1> QED
  BY <1>1, <1>2, <1>3, <1>4, <1>5, <1>6, Steps

-----------------------------------------------------------------------------
(* The invariant.                                                          *)

\* At the start nothing runs, nobody is connected, and one start may be made.
LEMMA InitIInv == Init => IInv
<1> SUFFICES ASSUME Init
             PROVE  IInv
  OBVIOUS
<1>1. Types
  <2>1. pc \in [Commanders -> CommanderPCs]
    BY DEF Init, CommanderPCs
  <2>2. worker \in Worker
    BY DEF Init, Worker
  <2>3. /\ lock \in Commanders \union {"monitor", Free} /\ generation \in Nat
        /\ 0 \in 0..MaxChances /\ 0 \in 0..MaxStarts /\ 0 \in 0..MaxStops
    BY BoundsAssumption DEF Init
  <2>4. shutdown \in BOOLEAN /\ mishaps \subseteq Mishaps /\ latest \in States
    BY DEF Init, States
  <2>5. monitor \in [Generations -> {"off", "wait", "ended", "told", "done"}]
    BY DEF Init
  <2> QED
    BY <2>1, <2>2, <2>3, <2>4, <2>5 DEF Init, Types
<1>2. Session
  <2>1. /\ listed = FALSE /\ connected = FALSE /\ accept = "listen"
        /\ events = << >> /\ inbox = << >> /\ took = {}
        /\ out = [p \in Producers |-> Nothing]
    BY DEF Init
  <2>2. Len(events) <= QueueSize /\ events \in Seq(Messages)
        /\ inbox \in Seq({"start", "stop", "shutdown"})
    BY <2>1, QueueSizeAssumption
  <2>3. listed \in BOOLEAN /\ connected \in BOOLEAN /\ (connected => listed)
    BY <2>1
  <2>4. /\ out \in [Producers -> Messages \union {Nothing}]
        /\ out["monitor"] = Nothing /\ out["accept"] = Nothing
    BY <2>1 DEF Producers
  <2> QED
    BY <2>1, <2>2, <2>3, <2>4 DEF Session
<1>3. pc["serve"] = "init" /\ pc["reader"] = "idle" /\ generation = 0
  BY DEF Init, Commanders
<1>4. Counted
  <2>1. Ordered = {} /\ starts = 0
    BY DEF Init, Ordered
  <2> QED
    BY <1>3, <2>1, FS_EmptySet DEF Counted
<1>5. Locks
  BY <1>3 DEF Init, Locks, Locked, Opening, Commanders, Free
<1>6. Runs
  BY <1>3 DEF Init, Runs, Generations, Opening, Commanders, Running, Idle
<1>7. Idles /\ Following
  BY <1>3 DEF Init, Idles, Following, Undisturbed
<1> QED
  BY <1>1, <1>2, <1>4, <1>5, <1>6, <1>7 DEF IInv

\* Every step preserves it.
LEMMA NextIInv == IInv /\ [Next]_vars => IInv'
<1> SUFFICES ASSUME IInv, [Next]_vars
             PROVE  IInv'
  OBVIOUS
<1> QED
  BY TypesStep, SessionStep, CountedStep, RunsStep, FollowingStep DEF IInv

\* The invariant holds in every reachable state.
THEOREM Invariance == Spec => []IInv
BY InitIInv, NextIInv, PTL DEF Spec

-----------------------------------------------------------------------------
(* Results.                                                                *)

\* What the service says of its backend is, or will be made, true: "running" is
\* retracted by the monitor of the run it was said of, and "idle" is not said of
\* a service that runs, whatever monitors of earlier runs wake up late and
\* whichever thread of serve(), the session and the monitors takes the lock.
THEOREM Truthful == Spec => []ServiceIsTruthful
<1>1. IInv => TypeOK
  <2> SUFFICES ASSUME IInv
               PROVE  TypeOK
    OBVIOUS
  <2>1. generation \in 0..(MaxStarts + 1)
    <3>1. generation \in Nat /\ starts \in 0..MaxStarts /\ Cardinality(Ordered) \in Nat
      BY OrderedFinite DEF IInv, Types
    <3> QED
      BY <3>1, BoundsAssumption DEF IInv, Counted
  <2> QED
    BY <2>1 DEF IInv, Types, Session, TypeOK, Worker
<1>2. IInv => RunningIsRetracted
  BY DEF IInv, Types, Locks, Locked, Runs, RunningIsRetracted, Commanders, Free
<1>3. IInv => IdleIsTrue
  BY DEF IInv, Types, Locks, Locked, Opening, Idles, IdleIsTrue, Commanders, Free
<1> QED
  BY <1>1, <1>2, <1>3, Invariance, PTL DEF ServiceIsTruthful

\* Whenever the queue of the session is drained, the worker of the GUI has the
\* service's latest state, for every size of the queue and however many threads
\* meet it full at once.
THEOREM ViewIsFollowed == Spec => []ViewFollows
<1>1. IInv => ViewFollows
  <2> SUFFICES ASSUME IInv, accept = "serving", connected, mishaps \intersect {"missed", "early"} = {},
                      events = << >>, \A p \in Producers : out[p] = Nothing
               PROVE  worker.running = (latest = Running)
    BY DEF ViewFollows
  <2>1. Followed
    BY DEF IInv, Following, Undisturbed
  <2>2. ~LastState(events, latest)
    BY DEF LastState
  <2>3. latest # Nothing /\ worker.running \in BOOLEAN
    BY DEF IInv, Types, States, Running, Idle, Nothing, Worker
  <2>4. worker.running <=> latest = Running
    BY <2>1, <2>2, <2>3 DEF Followed
  <2> QED
    BY <2>3, <2>4
<1> QED
  BY <1>1, Invariance, PTL

=============================================================================
