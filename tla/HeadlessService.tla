-------------------------- MODULE HeadlessService --------------------------
(***************************************************************************)
(* The headless service (app/headless.py) that owns the backend, its IPC   *)
(* server (runtime/ipc.py), and the worker of a GUI on the other side of   *)
(* the socket (runtime/remote_worker.py).                                  *)
(*                                                                         *)
(* The service starts and stops the backend under its lifecycle lock, for  *)
(* serve() and for the reader thread of the client's session; a monitor    *)
(* thread per run announces its end.  Announcements, replies and status    *)
(* messages of all these threads go to the session's bounded event queue.  *)
(* The backend is what BackendLifecycle makes of it: up, ending, off.      *)
(*                                                                         *)
(* The client reads a message as soon as it is sent: what is in the socket *)
(* counts as queued.  MaxStarts and MaxStops bound the operator, MaxChances*)
(* what happens besides, of the kinds in Chances: a signal, a failing run, *)
(* a status message, a cut connection.  MayAutoStart: --auto-start may be  *)
(* given.  QueueSize is 32.                                                *)
(***************************************************************************)
EXTENDS Naturals, Sequences

CONSTANTS QueueSize, MaxStarts, MaxStops, MaxChances, Chances, MayAutoStart

ASSUME QueueSizeAssumption == QueueSize \in Nat \ {0}
ASSUME BoundsAssumption == MaxStarts \in Nat /\ MaxStops \in Nat /\ MaxChances \in Nat
                           /\ Chances \subseteq {"signal", "failure", "note", "cut"}
                           /\ MayAutoStart \in BOOLEAN

\* The runs of the backend: serve's --auto-start, then the operator's starts.
Generations == 1..(MaxStarts + 1)

Commanders == {"serve", "reader"}
Producers == Commanders \union {"accept", "backend", "monitor"}

Free == "free"
Nothing == "nothing"

\* Messages: the state of the backend, its failure, and what the worker ignores
\* (status messages, replies).
Running == "running"
Idle == "idle"
States == {Running, Idle}
Messages == States \union {"failed", "note"}

VARIABLES
  pc,         \* serve() and the reader of the session
  monitor,    \* _monitor_backend of each generation
  accept,     \* the accept loop, for the client's session
  lock,       \* _lifecycle_lock
  generation, \* _monitor_generation
  shutdown,   \* the _shutdown event
  backend,    \* "off", "starting" (its thread), "up" or "ending"
  chances,    \* how many of Chances have happened
  latest,     \* _latest_state
  listed,     \* the session is in the server's _sessions
  events,     \* the session's _events
  out,        \* the event of a thread that met a full queue
  took,       \* the threads that took one out of the full queue
  connected,  \* the connection of the client
  inbox,      \* commands on their way to the reader
  starts, stops, \* commands given by the GUI
  worker,     \* the flags of RemoteStreamWorker
  asked,      \* a stop was sent and the worker is still active, for the properties
  mishaps     \* what went wrong so far, for the properties: see Mishaps

service == <<pc, monitor, accept, lock, generation, shutdown>>
queue   == <<events, out, took>>
client  == <<inbox, starts, stops, worker, asked>>
vars    == <<service, backend, chances, latest, listed, queue, connected, client, mishaps>>

\* early: a start was carried out for the client while serve() was still at its
\*        own beginning: announcing that it is idle, and then --auto-start.
\* late:  a start was carried out after the shutdown was requested.
\* lost:  a stop reached the backend before run() had cleared the stop flags.
\* missed: a state was dropped from the full queue or enqueued after a later one.
Mishaps == {"early", "late", "lost", "missed"}

Init ==
  /\ pc = [p \in Commanders |-> IF p = "serve" THEN "init" ELSE "idle"]
  /\ monitor = [n \in Generations |-> "off"]
  /\ accept = "listen"
  /\ lock = Free /\ generation = 0 /\ shutdown = FALSE
  /\ backend = "off" /\ chances = 0
  /\ latest = Idle
  /\ listed = FALSE /\ events = << >>
  /\ out = [p \in Producers |-> Nothing] /\ took = {}
  /\ connected = FALSE
  /\ inbox = << >> /\ starts = 0 /\ stops = 0
  /\ worker = [running |-> FALSE, requested |-> FALSE, seen |-> FALSE, stopped |-> TRUE]
  /\ asked = FALSE /\ mishaps = {}

\* BackendRuntime.is_running
IsRunning == backend # "off"

\* One of the things that may happen, within their bound.
Chance(c) == c \in Chances /\ chances < MaxChances /\ chances' = chances + 1

At(p, from, to) == /\ out[p] = Nothing
                   /\ pc[p] = from /\ pc' = [pc EXCEPT ![p] = to]

-----------------------------------------------------------------------------
(* The event queue of the session.                                         *)

Room == Len(events) < QueueSize

\* _broadcast: put the event into the queue of the session, if it is listed and
\* open; a thread that meets a full queue has more to do.
Broadcast(p, m) ==
  LET open == listed /\ connected
  IN  /\ events' = IF open /\ Room THEN Append(events, m) ELSE events
      /\ out' = [out EXCEPT ![p] = IF open /\ ~Room THEN m ELSE Nothing]

\* publish_state: the latest state first, then the sessions.
Publish(p, s) == latest' = s /\ Broadcast(p, s)

\* The queue was full: enqueue takes the oldest event out
MakeRoom(p) ==
  /\ out[p] # Nothing /\ p \notin took
  /\ events' = IF events = << >> THEN events ELSE Tail(events)
  /\ took' = took \union {p}
  /\ mishaps' = IF events # << >> /\ Head(events) \in States
                 THEN mishaps \union {"missed"} ELSE mishaps
  /\ UNCHANGED <<service, backend, chances, latest, listed, out, connected, client>>

\* and puts its own, unless another thread has taken the place.
PutAgain(p) ==
  /\ p \in took
  /\ events' = IF Room /\ connected THEN Append(events, out[p]) ELSE events
  /\ out' = [out EXCEPT ![p] = Nothing] /\ took' = took \ {p}
  /\ mishaps' = IF out[p] \in States /\ (~Room \/ out[p] # latest)
                 THEN mishaps \union {"missed"} ELSE mishaps
  /\ UNCHANGED <<service, backend, chances, latest, listed, connected, client>>

-----------------------------------------------------------------------------
(* _start_backend and _stop_backend.                                       *)

\* Where serve() and the reader go on after a start, and after a stop.
AfterStart(p) == IF p = "serve" THEN "wait" ELSE "reply"
AfterStop(p) == IF p = "serve" THEN "join"
                ELSE IF pc[p] \in {"shutdown", "shutting"} THEN "set" ELSE "reply"

StartTake(p) ==
  /\ At(p, "start", IF IsRunning THEN AfterStart(p) ELSE "starting")
  /\ lock = Free
  /\ IF IsRunning
       THEN UNCHANGED <<lock, generation, backend, mishaps>>
       ELSE /\ lock' = p
            /\ generation' = generation + 1
            /\ backend' = "starting"
            /\ mishaps' = mishaps \union
                 (IF p = "reader" /\ pc["serve"] \in {"init", "announce", "start"} THEN {"early"} ELSE {}) \union
                 (IF shutdown THEN {"late"} ELSE {})
  /\ UNCHANGED <<monitor, accept, shutdown, chances, latest, listed, queue, connected,
                 client>>

StartTell(p) ==
  /\ At(p, "starting", "started")
  /\ Publish(p, Running)
  /\ UNCHANGED <<monitor, accept, lock, generation, shutdown, backend, chances, listed,
                 took, connected, client, mishaps>>

\* The monitor thread is started last.
StartDone(p) ==
  /\ At(p, "started", AfterStart(p))
  /\ monitor' = [monitor EXCEPT ![generation] = "wait"]
  /\ lock' = Free
  /\ UNCHANGED <<accept, generation, shutdown, backend, chances, latest, listed, queue,
                 connected, client, mishaps>>

StopTake(p) ==
  /\ lock = Free
  /\ \E from \in {"stop", "shutdown"} :
       At(p, from, IF IsRunning THEN IF from = "stop" THEN "stopping" ELSE "shutting"
                   ELSE AfterStop(p))
  /\ IF IsRunning THEN lock' = p /\ Publish(p, Running)
                  ELSE UNCHANGED <<lock, latest, events, out>>
  /\ UNCHANGED <<monitor, accept, generation, shutdown, backend, chances, listed, took,
                 connected, client, mishaps>>

\* backend.stop returned.  The run may have ended meanwhile; one that has not begun
\* clears the request when it does.
StopDone(p) ==
  /\ \E from \in {"stopping", "shutting"} : At(p, from, AfterStop(p))
  /\ backend' = IF backend = "up" THEN "ending" ELSE backend
  /\ mishaps' = IF backend = "starting" THEN mishaps \union {"lost"} ELSE mishaps
  /\ lock' = Free
  /\ UNCHANGED <<monitor, accept, generation, shutdown, chances, latest, listed, queue,
                 connected, client>>

-----------------------------------------------------------------------------
(* serve().                                                                *)

\* The server listens before publish_state(idle), which here has its two steps,
ServeInit ==
  /\ At("serve", "init", "announce")
  /\ latest' = Idle
  /\ UNCHANGED <<monitor, accept, lock, generation, shutdown, backend, chances, listed,
                 queue, connected, client, mishaps>>

\* because only here two threads can publish at once.  Then --auto-start, if given.
ServeAnnounce ==
  /\ \/ MayAutoStart /\ At("serve", "announce", "start")
     \/ At("serve", "announce", "wait")
  /\ Broadcast("serve", Idle)
  /\ UNCHANGED <<monitor, accept, lock, generation, shutdown, backend, chances, latest,
                 listed, took, connected, client, mishaps>>

\* Fault: the service leaves without stopping the backend.
ServeWakeLeaves ==
  /\ shutdown
  /\ At("serve", "wait", "join")
  /\ UNCHANGED <<monitor, accept, lock, generation, shutdown, backend, chances, latest,
                 listed, queue, connected, client, mishaps>>

ServeWake ==
  /\ shutdown
  /\ At("serve", "wait", "stop")
  /\ UNCHANGED <<monitor, accept, lock, generation, shutdown, backend, chances, latest,
                 listed, queue, connected, client, mishaps>>

\* backend.wait(15 s), then the server and its sessions are closed.
ServeClose ==
  /\ At("serve", "join", "closed")
  /\ connected' = FALSE
  /\ UNCHANGED <<monitor, accept, lock, generation, shutdown, backend, chances, latest,
                 listed, queue, client, mishaps>>

\* SIGINT or SIGTERM
Signal ==
  /\ Chance("signal") /\ ~shutdown
  /\ shutdown' = TRUE
  /\ UNCHANGED <<pc, monitor, accept, lock, generation, backend, latest, listed,
                 queue, connected, client, mishaps>>

-----------------------------------------------------------------------------
(* The session: its accept, its reader, its sender.                        *)

Accept ==
  /\ accept = "listen" /\ pc["serve"] # "closed"
  /\ accept' = "listed" /\ listed' = TRUE /\ connected' = TRUE
  /\ UNCHANGED <<pc, monitor, lock, generation, shutdown, backend, chances, latest,
                 queue, client, mishaps>>

\* session.enqueue(self._latest_state): the state is read
AcceptState ==
  /\ accept = "listed"
  /\ accept' = latest
  /\ UNCHANGED <<pc, monitor, lock, generation, shutdown, backend, chances, latest,
                 listed, queue, connected, client, mishaps>>

\* and put, where a later one may be in front of it.
AcceptPut ==
  /\ accept \in States
  /\ accept' = "greeted"
  /\ Broadcast("accept", accept)
  /\ mishaps' = IF accept # latest THEN mishaps \union {"missed"} ELSE mishaps
  /\ UNCHANGED <<pc, monitor, lock, generation, shutdown, backend, chances, latest,
                 listed, took, connected, client>>

\* The reader and the sender are started.
AcceptDone ==
  /\ accept = "greeted" /\ out["accept"] = Nothing
  /\ accept' = "serving"
  /\ UNCHANGED <<pc, monitor, lock, generation, shutdown, backend, chances, latest,
                 listed, queue, connected, client, mishaps>>

\* _handle_command
ReadCommand ==
  /\ accept = "serving"
  /\ inbox # << >>
  /\ At("reader", "idle", Head(inbox))
  /\ inbox' = Tail(inbox)
  /\ UNCHANGED <<monitor, accept, lock, generation, shutdown, backend, chances, latest,
                 listed, queue, connected, starts, stops, worker, asked, mishaps>>

ReadShutdown ==
  /\ At("reader", "set", "reply")
  /\ shutdown' = TRUE
  /\ UNCHANGED <<monitor, accept, lock, generation, backend, chances, latest, listed,
                 queue, connected, client, mishaps>>

Reply ==
  /\ At("reader", "reply", "idle")
  /\ Broadcast("reader", "note")
  /\ UNCHANGED <<monitor, accept, lock, generation, shutdown, backend, chances, latest,
                 listed, took, connected, client, mishaps>>

\* The socket fails, or the client did not take a message for 0.5 s; the client
\* sees the end of the stream and says nothing.  The reader may have some of its
\* commands already.
Disconnect ==
  /\ Chance("cut") /\ connected
  /\ connected' = FALSE /\ listed' = FALSE
  /\ events' = << >> /\ out' = [p \in Producers |-> Nothing] /\ took' = {}
  /\ \E k \in 0..Len(inbox) : inbox' = SubSeq(inbox, 1, k)
  /\ asked' = FALSE
  /\ UNCHANGED <<service, backend, latest, starts, stops, worker, mishaps>>

-----------------------------------------------------------------------------
(* _monitor_backend.                                                       *)

MonitorWait(n) ==
  /\ monitor[n] = "wait"
  /\ backend = "off" \/ generation # n
  /\ monitor' = [monitor EXCEPT ![n] = "ended"]
  /\ UNCHANGED <<pc, accept, lock, generation, shutdown, backend, chances, latest,
                 listed, queue, connected, client, mishaps>>

\* Fault: the monitor of an earlier run announces the end of the current one.
MonitorPublishAnyway(n) ==
  /\ monitor[n] = "ended" /\ lock = Free
  /\ monitor' = [monitor EXCEPT ![n] = "told"]
  /\ lock' = "monitor"
  /\ Publish("monitor", Idle)
  /\ UNCHANGED <<pc, accept, generation, shutdown, backend, chances, listed, took,
                 connected, client, mishaps>>

\* Fault: a new client would be told, the present one is not.
MonitorPublishQuietly(n) ==
  /\ monitor[n] = "ended" /\ lock = Free
  /\ monitor' = [monitor EXCEPT ![n] = IF n = generation THEN "told" ELSE "done"]
  /\ latest' = IF n = generation THEN Idle ELSE latest
  /\ lock' = IF n = generation THEN "monitor" ELSE lock
  /\ UNCHANGED <<pc, accept, generation, shutdown, backend, chances, listed, queue,
                 connected, client, mishaps>>

MonitorPublish(n) ==
  /\ monitor[n] = "ended" /\ lock = Free
  /\ IF n = generation
       THEN /\ monitor' = [monitor EXCEPT ![n] = "told"]
            /\ lock' = "monitor"
            /\ Publish("monitor", Idle)
       ELSE /\ monitor' = [monitor EXCEPT ![n] = "done"]
            /\ UNCHANGED <<lock, latest, events, out>>
  /\ UNCHANGED <<pc, accept, generation, shutdown, backend, chances, listed, took,
                 connected, client, mishaps>>

MonitorDone(n) ==
  /\ monitor[n] = "told" /\ out["monitor"] = Nothing
  /\ monitor' = [monitor EXCEPT ![n] = "done"]
  /\ lock' = Free
  /\ UNCHANGED <<pc, accept, generation, shutdown, backend, chances, latest, listed,
                 queue, connected, client, mishaps>>

-----------------------------------------------------------------------------
(* The backend.                                                            *)

\* A status message.
BackendNote ==
  /\ IsRunning /\ out["backend"] = Nothing /\ Chance("note")
  /\ Broadcast("backend", "note")
  /\ UNCHANGED <<service, backend, latest, listed, took, connected, client, mishaps>>

\* A failure ends the run by itself.
BackendFails ==
  /\ Chance("failure") /\ backend = "up" /\ out["backend"] = Nothing
  /\ backend' = "ending"
  /\ Broadcast("backend", "failed")
  /\ UNCHANGED <<service, latest, listed, took, connected, client, mishaps>>

\* run() clears the stop flags of earlier runs.
BackendBegins ==
  /\ backend = "starting"
  /\ backend' = "up"
  /\ UNCHANGED <<service, chances, latest, listed, queue, connected, client, mishaps>>

\* The finalizer of run() is through.
BackendEnds ==
  /\ backend = "ending" /\ out["backend"] = Nothing
  /\ backend' = "off"
  /\ UNCHANGED <<service, chances, latest, listed, queue, connected, client, mishaps>>

-----------------------------------------------------------------------------
(* RemoteStreamWorker.                                                     *)

Active == worker.running \/ worker.requested

\* Without a connection the command raises and the request is taken back.
WorkerStart ==
  /\ ~Active /\ starts < MaxStarts
  /\ starts' = starts + 1
  /\ worker' = [worker EXCEPT !.requested = connected, !.seen = FALSE, !.stopped = ~connected]
  /\ inbox' = IF connected THEN Append(inbox, "start") ELSE inbox
  /\ UNCHANGED <<service, backend, chances, latest, listed, queue, connected, stops, asked,
                 mishaps>>

\* stop(), or shutdown_service() of the closing GUI.
WorkerStop ==
  /\ stops < MaxStops /\ connected
  /\ stops' = stops + 1
  /\ \/ Active /\ inbox' = Append(inbox, "stop") /\ asked' = TRUE
     \/ inbox' = Append(inbox, "shutdown") /\ UNCHANGED asked
  /\ UNCHANGED <<service, backend, chances, latest, listed, queue, connected, starts, worker,
                 mishaps>>

\* Fault: the end of a run is taken for granted.
OnMessageNoState(m) ==
  CASE m = Running -> [worker EXCEPT !.running = TRUE, !.seen = TRUE]
    [] m = Idle /\ worker.seen ->
         [worker EXCEPT !.requested = FALSE, !.seen = FALSE, !.stopped = TRUE]
    [] m = "failed" -> [worker EXCEPT !.requested = FALSE]
    [] OTHER -> worker

\* _on_message
OnMessage(m) ==
  CASE m = Running -> [worker EXCEPT !.running = TRUE, !.seen = TRUE]
    [] m = Idle /\ worker.seen ->
         [running |-> FALSE, requested |-> FALSE, seen |-> FALSE, stopped |-> TRUE]
    [] m = Idle /\ ~worker.seen -> [worker EXCEPT !.running = FALSE]
    [] m = "failed" -> [worker EXCEPT !.requested = FALSE]
    [] OTHER -> worker

\* The sender takes an event from the queue, the client's reader handles it.
Deliver ==
  /\ accept = "serving" /\ connected
  /\ events # << >>
  /\ worker' = OnMessage(Head(events))
  /\ events' = Tail(events)
  /\ asked' = (asked /\ (worker'.running \/ worker'.requested))
  /\ UNCHANGED <<service, backend, chances, latest, listed, out, took, connected, inbox, starts,
                 stops, mishaps>>

-----------------------------------------------------------------------------
Command(p) == StartTake(p) \/ StartTell(p) \/ StartDone(p) \/ StopTake(p) \/ StopDone(p)
Serve == ServeInit \/ ServeAnnounce \/ ServeWake \/ ServeClose \/ Command("serve")
Read == ReadCommand \/ ReadShutdown \/ Reply \/ Command("reader")
Monitor(n) == MonitorWait(n) \/ MonitorPublish(n) \/ MonitorDone(n)
AcceptNext == AcceptState \/ AcceptPut \/ AcceptDone

Next == \/ Serve \/ Signal \/ Accept \/ AcceptNext \/ Read \/ Disconnect
        \/ \E n \in Generations : Monitor(n)
        \/ \E p \in Producers : MakeRoom(p) \/ PutAgain(p)
        \/ BackendBegins \/ BackendNote \/ BackendFails \/ BackendEnds
        \/ WorkerStart \/ WorkerStop \/ Deliver

Spec == Init /\ [][Next]_vars

\* Threads go on.  Nobody has to connect, start, stop, fail or disconnect.
FairSpec ==
  /\ Spec
  /\ WF_vars(Serve) /\ WF_vars(Read) /\ WF_vars(AcceptNext) /\ WF_vars(Deliver)
  /\ WF_vars(BackendBegins \/ BackendEnds)
  /\ WF_vars(\E n \in Generations : Monitor(n))
  /\ WF_vars(\E p \in Producers : MakeRoom(p) \/ PutAgain(p))

-----------------------------------------------------------------------------
(* Properties.                                                             *)

CommanderPCs == {"init", "announce", "start", "starting", "started", "wait", "stop", "stopping", "shutdown",
                 "shutting", "join", "closed", "idle", "set", "reply"}

\* Every variable has its type; the queue respects its size (_ClientSession._events).
TypeOK ==
  /\ shutdown \in BOOLEAN /\ listed \in BOOLEAN /\ connected \in BOOLEAN
  /\ mishaps \subseteq Mishaps
  /\ pc \in [Commanders -> CommanderPCs]
  /\ monitor \in [Generations -> {"off", "wait", "ended", "told", "done"}]
  /\ accept \in States \union {"listen", "listed", "greeted", "serving"}
  /\ lock \in Commanders \union {"monitor", Free}
  /\ generation \in 0..(MaxStarts + 1)
  /\ backend \in {"off", "starting", "up", "ending"} /\ chances \in 0..MaxChances
  /\ latest \in States
  /\ events \in Seq(Messages) /\ Len(events) <= QueueSize
  /\ out \in [Producers -> Messages \union {Nothing}]
  /\ took \subseteq Producers
  /\ inbox \in Seq({"start", "stop", "shutdown"})
  /\ starts \in 0..MaxStarts /\ stops \in 0..MaxStops
  /\ worker \in [running : BOOLEAN, requested : BOOLEAN, seen : BOOLEAN, stopped : BOOLEAN]

\* A run that was announced will be retracted: while the latest state is
\* "running", the monitor of the current generation has not spoken.
RunningIsRetracted ==
  latest = Running /\ lock = Free =>
    \E n \in Generations : n = generation /\ monitor[n] \in {"wait", "ended"}

\* The service never says it is idle while it runs a backend, whichever monitors
\* of earlier runs wake up late; the one exception is a start carried out before
\* serve() announces its first state (headless.py:60).
IdleIsTrue == latest = Idle /\ lock = Free => backend = "off" \/ "early" \in mishaps

\* What the service says of its backend is, or will be made, true.
ServiceIsTruthful == TypeOK /\ RunningIsRetracted /\ IdleIsTrue

\* The GUI follows: whenever the session's queue is drained, the worker has the
\* service's latest state, unless a state was dropped or overtaken in the queue or
\* the first state of serve() came after a start.
ViewFollows ==
  /\ accept = "serving" /\ connected /\ mishaps \intersect {"missed", "early"} = {}
  /\ events = << >> /\ \A p \in Producers : out[p] = Nothing
  => worker.running = (latest = Running)

\* What the GUI asked for is answered: with the connection intact, no mishap and
\* no shutdown, the worker never waits for ever for a requested start; it comes to
\* run or stops waiting.
StartIsAnswered ==
  []<>(worker.requested => worker.running \/ ~connected \/ shutdown \/ mishaps # {})

\* A worker whose stop was sent never stays active for ever, so that MainWindow
\* offers to start again and the cleanup of main.py does not wait for nothing; a
\* stop sent into the beginning of a run is lost, and that is a mishap.
StopIsAnswered ==
  []<>(asked => ~connected \/ shutdown \/ mishaps # {})

\* Neither the user's start nor the user's stop waits for ever.
GuiIsAnswered == StartIsAnswered /\ StopIsAnswered

\* After a shutdown, by command or by signal, the backend is never up for ever,
\* unless the stop was lost or a start slipped in behind it.
ShutdownStops == []<>(shutdown => backend # "up" \/ mishaps \intersect {"late", "lost"} # {})
=============================================================================
