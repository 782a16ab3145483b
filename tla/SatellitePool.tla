--------------------------- MODULE SatellitePool ---------------------------
(***************************************************************************)
(* How GNSS-SDR shares out satellites among its channels: GNSSFlowgraph,   *)
(* which keeps a search list per signal and the state of every channel,    *)
(* and the control thread, which applies to it the events of the channels  *)
(* and the telecommands in the order of one queue.  Everything here is     *)
(* done by the control thread; the channels run by themselves and are seen *)
(* as AcquisitionChannel leaves them: one satellite, one FSM state, one    *)
(* event for each change the control thread has to know of.                *)
(***************************************************************************)
EXTENDS Integers, FiniteSets, SequencesExt

CONSTANTS
    N,              \* the number of channels, 0 .. N-1
    MaxAcq,         \* Channels.in_acquisition
    Primary,        \* the signal that is searched without assistance
    Elevation,      \* the satellites assistance computes, the highest first
    None,
    Receivers,      \* the receivers looked at: see below
    MaxCommands     \* how many telecommands they are sent

\* A receiver, and what happens to it:
\*   list            the PRNs of the system, in order (set_signals_list)
\*   band            the signal of each channel
\*   systemBands     the signals priorize_satellites knows for the system
\*   needAssistance  GNSS-SDR.assist_dual_frequency_acq
\*   fixed           ChannelN.satellite, or None
\*   assisted        whether AGNSS assistance runs at start-up
\*   inView          the satellites that a search can find
\*   commands        the telecommands sent to it
\*   mayLose         whether tracking loses satellites
Ch == 0 .. N - 1

ASSUME PoolAssumption ==
    /\ N \in Nat \ {0} /\ MaxAcq \in 1..N /\ MaxCommands \in Nat
    /\ \A r \in Receivers :
         /\ IsInjective(r.list) /\ r.inView \subseteq ToSet(r.list)
         /\ r.band \in [Ch -> r.systemBands] /\ Primary \in Range(r.band)
         /\ None \notin ToSet(r.list) /\ r.fixed \in [Ch -> ToSet(r.list) \cup {None}]
         /\ \A c, d \in Ch : r.fixed[c] # None /\ r.band[c] = r.band[d] /\ c # d => r.fixed[c] # r.fixed[d]
         /\ ToSet(Elevation) \subseteq ToSet(r.list)
         /\ {r.needAssistance, r.assisted, r.mayLose} \subseteq BOOLEAN
         /\ r.commands \subseteq {"standby", "coldstart", "hotstart", "warmstart"}

VARIABLES
    receiver,  \* one of Receivers
    prns,      \* the satellites left by the list of banned ones
    avail,     \* available_signals_map_
    sat,       \* gnss_signal_ of each channel
    fsm,       \* state_ of each channel's FSM
    view,      \* channels_state_: 0 idle, 1 assigned, 2 acquisition, 3 tracking
    acqCount,  \* acq_channels_count_
    queue,     \* the control queue
    standby,   \* receiver_on_standby_
    phase,     \* "assist" until assist_GNSS has returned, then "loop"
    thrown,    \* an exception has ended the control thread
    status,    \* d_channel_status_map: the satellite last reported of each channel
    cmds,      \* the number of commands sent
    stale      \* history: an event was applied to a channel that a standby had stopped

vars == <<receiver, prns, avail, sat, fsm, view, acqCount, queue, standby, phase, thrown, status, cmds,
          stale>>
pool == <<avail, sat, fsm, view, acqCount, thrown>>

Band  == receiver.band
Fixed == receiver.fixed
Bands == Range(Band)

Searching(c) == fsm[c] = "acquiring"
Tracking(c)  == fsm[c] = "tracking"

-----------------------------------------------------------------------------
(* Start-up: assign_channels and set_channels_state.                       *)

Of(b) == {c \in Ch : Band[c] = b}

\* assign_channels refuses a configuration without a satellite to spare.
Fits(n) == \A b \in Bands : Cardinality(Of(b)) <= n - 1

\* Fixed satellites leave the list first; the other channels take from its
\* front, in order.
Unfixed(list, b) == SelectSeq(list, LAMBDA s : \A c \in Of(b) : Fixed[c] # s)
Free(b) == {c \in Of(b) : Fixed[c] = None}

Init ==
    /\ receiver \in Receivers
    /\ \E n \in {n \in 1..Len(receiver.list) :
                   /\ Fits(n)
                   /\ \A c \in Ch : Fixed[c] \in ToSet(SubSeq(receiver.list, 1, n)) \cup {None}} :
         LET list == SubSeq(receiver.list, 1, n)
             rest == [b \in Bands |-> Unfixed(list, b)]
             rank(c) == Cardinality({d \in Free(Band[c]) : d <= c})
         IN /\ prns = ToSet(list)
            /\ sat = [c \in Ch |-> IF Fixed[c] # None THEN Fixed[c] ELSE rest[Band[c]][rank(c)]]
            /\ avail = [b \in Bands |-> SubSeq(rest[b], Cardinality(Free(b)) + 1, Len(rest[b]))]
    /\ view = [c \in Ch |-> IF c < MaxAcq THEN 2 ELSE 1]
    /\ fsm = [c \in Ch |-> IF c < MaxAcq THEN "acquiring" ELSE "standby"]
    /\ acqCount = MaxAcq
    /\ queue = <<>> /\ standby = FALSE /\ thrown = FALSE /\ cmds = 0
    /\ status = [c \in Ch |-> None] /\ stale = FALSE
    /\ phase = IF receiver.assisted THEN "assist" ELSE "loop"

-----------------------------------------------------------------------------
(* The channels.                                                           *)

Tell(c, what) == queue' = Append(queue, [who |-> c, what |-> what])

Fail(c) ==
    /\ Searching(c) /\ ~thrown
    /\ fsm' = [fsm EXCEPT ![c] = "failed"]
    /\ Tell(c, "failed")
    /\ UNCHANGED <<receiver, prns, avail, sat, view, acqCount, standby, phase, thrown, status, cmds, stale>>

Find(c) ==
    /\ Searching(c) /\ sat[c] \in receiver.inView /\ ~thrown
    /\ fsm' = [fsm EXCEPT ![c] = "tracking"]
    /\ Tell(c, "acquired")
    /\ UNCHANGED <<receiver, prns, avail, sat, view, acqCount, standby, phase, thrown, status, cmds, stale>>

Lose(c) ==
    /\ receiver.mayLose /\ Tracking(c) /\ ~thrown
    /\ fsm' = [fsm EXCEPT ![c] = "standby"]
    /\ Tell(c, "lost")
    /\ UNCHANGED <<receiver, prns, avail, sat, view, acqCount, standby, phase, thrown, status, cmds, stale>>

\* The report every second, as it reaches the status map: the satellite of a
\* channel with a valid pseudorange, of one that was lost meanwhile too if its
\* report was under way; or nothing valid.  Only secondary signals read it.
ReportValid(c) ==
    /\ Band[c] = Primary /\ Bands # {Primary} /\ ~thrown
    /\ Tracking(c) \/ view[c] = 3
    /\ status[c] # sat[c] /\ status' = [status EXCEPT ![c] = sat[c]]
    /\ UNCHANGED <<receiver, prns, pool, queue, standby, phase, cmds, stale>>

ReportInvalid(c) ==
    /\ status[c] # None /\ ~thrown
    /\ status' = [status EXCEPT ![c] = None]
    /\ UNCHANGED <<receiver, prns, pool, queue, standby, phase, cmds, stale>>

Command ==
    /\ cmds < MaxCommands /\ ~thrown
    /\ \E c \in receiver.commands : Tell(None, c)
    /\ cmds' = cmds + 1
    /\ UNCHANGED <<receiver, prns, avail, sat, fsm, view, acqCount, standby, phase, thrown, status, stale>>

-----------------------------------------------------------------------------
(* The operations of the flowgraph, on the record of what they change.     *)

Now == [avail |-> avail, sat |-> sat, fsm |-> fsm, view |-> view,
        acqCount |-> acqCount, thrown |-> thrown]

Become(m) ==
    \E n \in {m} : /\ avail' = n.avail /\ sat' = n.sat /\ fsm' = n.fsm /\ view' = n.view
                   /\ acqCount' = n.acqCount /\ thrown' = n.thrown

PushBack(m, b, s) == [m EXCEPT !.avail[b] = Append(Remove(@, s), s)]

RemoveSignal(m, b, s) == [m EXCEPT !.avail[b] = Remove(@, s)]

\* start_acquisition: refused by an FSM that is acquiring or tracking.
StartAcquisition(m, c) ==
    [m EXCEPT !.view[c] = 2, !.acqCount = @ + 1,
              !.fsm[c] = IF @ \in {"acquiring", "tracking"} THEN @ ELSE "acquiring"]

\* Fault: the report is looked for among the channels of the own signal.
HelpersOfOwn(m, c) ==
    IF Band[c] = Primary THEN {} ELSE {d \in Of(Band[c]) : Contains(m.avail[Band[c]], status[d])}

\* search_next_signal: for a secondary signal, the satellite of the first
\* channel of the primary signal whose last report names one of the list,
\* whatever the channel does now; else the front.
Helpers(m, c) ==
    IF Band[c] = Primary THEN {} ELSE {d \in Of(Primary) : Contains(m.avail[Band[c]], status[d])}

\* Fault: the list is taken from its end, where satellites are put back.
TakesLast(m, c) == Last(m.avail[Band[c]])

NextSatellite(m, c) ==
    LET h == Helpers(m, c)
    IN IF h # {} THEN status[CHOOSE d \in h : \A e \in h : d <= e]
                 ELSE Head(m.avail[Band[c]])

\* An idle channel gets the next satellite; a secondary signal that would
\* need assistance and has none goes to the end of the list again.
Search(m, c) ==
    LET s == NextSatellite(m, c)
        m2 == [RemoveSignal(m, Band[c], s) EXCEPT !.sat[c] = s]
    IN IF Band[c] = Primary \/ Helpers(m, c) # {} \/ ~receiver.needAssistance
         THEN StartAcquisition(m2, c)
         ELSE PushBack(m2, Band[c], s)

\* One turn of the loop in acquisition_manager.
Serve(m, c) ==
    IF m.thrown \/ m.acqCount >= MaxAcq \/ m.view[c] > 1 THEN m
    ELSE IF Fixed[c] # None \/ m.view[c] = 1 THEN StartAcquisition(m, c)
    ELSE IF m.avail[Band[c]] = <<>> THEN [m EXCEPT !.thrown = TRUE]
    ELSE Search(m, c)

\* acquisition_manager(who): every channel once, from the next one on.  (TLC
\* evaluates what a bound variable stands for once only.)
Manage(m, who) ==
    LET after[i \in 0..N] ==
          IF i = 0 THEN m
          ELSE CHOOSE n \in {Serve(a, (i + who) % N) : a \in {after[i - 1]}} : TRUE
    IN after[N]

OneLess(n) == IF n > 0 THEN n - 1 ELSE 0

\* Fault: a channel that may not search again keeps quiet about its satellite.
LostForgets(c) ==
    IF acqCount < MaxAcq THEN StartAcquisition(Now, c) ELSE [Now EXCEPT !.view[c] = 0]

\* apply_action 0, 1 and 2, the events of channel c.
Failed(c) ==
    LET m == Manage([Now EXCEPT !.view[c] = 0, !.acqCount = OneLess(@)], c)
    IN IF Fixed[c] = None /\ ~m.thrown THEN PushBack(m, Band[c], sat[c]) ELSE m

Acquired(c) ==
    Manage([RemoveSignal(Now, Band[c], sat[c]) EXCEPT !.view[c] = 3, !.acqCount = OneLess(@)], c)

Lost(c) ==
    LET m == [Now EXCEPT !.view[c] = 0]
    IN IF acqCount < MaxAcq THEN StartAcquisition(Now, c)
       ELSE IF Fixed[c] = None THEN PushBack(m, Band[c], sat[c]) ELSE m

\* apply_action 10, request standby: channel after channel gives back its
\* satellite and is stopped.
StandBy ==
    LET stop(m, c) == [PushBack(m, Band[c], m.sat[c])
                          EXCEPT !.view[c] = 0,
                                 !.fsm[c] = IF @ = "failed" THEN @ ELSE "standby"]
    IN [FoldLeft(stop, Now, SelectSeq([i \in 1..N |-> i - 1], LAMBDA c : view[c] \in {2, 3}))
          EXCEPT !.acqCount = 0]

\* priorize_satellites: each satellite of the vector that is in a list goes
\* to its front.  A signal without channels has no list, and at() throws.
Priorize(m, seq) ==
    LET first(a, s) == [a EXCEPT !.avail = [b \in Bands |->
                          IF Contains(@[b], s) THEN <<s>> \o Remove(@[b], s) ELSE @[b]]]
    IN IF seq # <<>> /\ Bands # receiver.systemBands THEN [m EXCEPT !.thrown = TRUE]
       ELSE FoldLeft(first, m, seq)

-----------------------------------------------------------------------------
(* The control thread.                                                     *)

\* assist_GNSS, after the flowgraph has started and before the queue is read:
\* standby, the satellites in view first, and a hot start without effect.
Assist ==
    /\ phase = "assist" /\ ~thrown
    /\ phase' = "loop"
    /\ Become(Priorize(StandBy, Elevation))
    /\ UNCHANGED <<receiver, prns, queue, standby, status, cmds, stale>>

Ready == phase = "loop" /\ ~thrown

\* What the control thread takes a channel for that has an event of it.
Before == [failed |-> 2, acquired |-> 2, lost |-> 3]

\* An event of a channel; dropped on standby.
HandleEvent ==
    /\ Ready /\ queue # <<>> /\ Head(queue).who # None
    /\ LET e == Head(queue) IN
         IF standby THEN UNCHANGED <<pool, stale>>
         ELSE /\ \/ e.what = "failed" /\ Become(Failed(e.who))
                 \/ e.what = "acquired" /\ Become(Acquired(e.who))
                 \/ e.what = "lost" /\ Become(Lost(e.who))
              /\ stale' = (stale \/ view[e.who] # Before[e.what])
    /\ queue' = Tail(queue)
    /\ UNCHANGED <<receiver, prns, standby, phase, status, cmds>>

\* A telecommand: ControlThread::apply_action, then the flowgraph's.  A warm
\* start computes the satellites in view and hands on an empty vector.
HandleCommand ==
    /\ Ready /\ queue # <<>> /\ Head(queue).who = None
    /\ LET what == Head(queue).what IN
         /\ standby' = (what = "standby")
         /\ \/ what = "standby"   /\ Become(StandBy)
            \/ what = "coldstart" /\ UNCHANGED pool
            \/ what = "hotstart"  /\ Become(Priorize(Now, Elevation))
            \/ what = "warmstart" /\ Become(Priorize(Now, <<>>))
    /\ queue' = Tail(queue)
    /\ UNCHANGED <<receiver, prns, phase, status, cmds, stale>>

\* No event for 100 ms: acquisition_manager(0).
Idle ==
    /\ Ready /\ queue = <<>> /\ ~standby
    /\ acqCount < MaxAcq /\ \E c \in Ch : view[c] <= 1
    /\ Become(Manage(Now, 0))
    /\ UNCHANGED <<receiver, prns, queue, standby, phase, status, cmds, stale>>

Control == Assist \/ HandleEvent \/ HandleCommand \/ Idle

Next == Control \/ Command \/ \E c \in Ch : Fail(c) \/ Find(c) \/ Lose(c) \/ ReportValid(c) \/ ReportInvalid(c)

Spec == Init /\ [][Next]_vars

\* The control thread and the searches go on, and a search for a satellite
\* in view does not miss it for ever.
FairSpec ==
    /\ Spec /\ WF_vars(Control)
    /\ \A c \in Ch : WF_vars(Fail(c) \/ Find(c)) /\ SF_vars(Find(c))

-----------------------------------------------------------------------------
TypeOK ==
    /\ receiver \in Receivers /\ prns \subseteq ToSet(receiver.list)
    /\ \A b \in Bands : avail[b] \in Seq(prns) /\ IsInjective(avail[b])
    /\ sat \in [Ch -> prns] /\ view \in [Ch -> 0..3]
    /\ fsm \in [Ch -> {"standby", "acquiring", "tracking", "failed"}]
    /\ acqCount \in 0..MaxAcq /\ {standby, thrown, stale} \subseteq BOOLEAN
    /\ \A i \in DOMAIN queue :
         queue[i] \in [who : Ch, what : {"failed", "acquired", "lost"}] \cup [who : {None}, what : receiver.commands]
    /\ status \in [Ch -> prns \cup {None}]
    /\ phase \in {"assist", "loop"} /\ cmds \in 0..MaxCommands

\* No exception ends the control thread: a channel that is to search finds a
\* satellite in its list (gnss_flowgraph.cc:2239), and a list is there for
\* every signal that is looked up (gnss_flowgraph.cc:1953).
NeverThrows == ~thrown

\* No satellite is searched or tracked by two channels of one signal.
OneChannelEach ==
    \A c, d \in Ch :
        c # d /\ Band[c] = Band[d] /\ sat[c] = sat[d] =>
            ~({fsm[c], fsm[d]} \subseteq {"acquiring", "tracking"})

\* Every satellite is either in the list or with one channel that searches,
\* tracks or has reserved it: none is forgotten, none is given away twice.
Holds(c) == view[c] # 0 \/ Fixed[c] # None
NothingLost ==
    \A b \in Bands : \A s \in prns :
        (s \in ToSet(avail[b])) # (\E c \in Of(b) : Holds(c) /\ sat[c] = s)

\* The number of searches is counted right, so the limit is the one asked
\* for and a free place is always seen (gnss_flowgraph.cc:1730).
CountMatches == acqCount = Cardinality({c \in Ch : view[c] = 2})

\* With nothing left to read, the control thread is right about every channel
\* (gnss_flowgraph.h:247: 0 idle, 1 assigned, 2 acquisition, 3 tracking).
ViewsAgree ==
    queue = <<>> => \A c \in Ch : /\ view[c] = 2 <=> Searching(c)
                                  /\ view[c] = 3 <=> Tracking(c)

\* These four hold until an event from before a standby, of a telecommand or of
\* the assistance at start-up, is applied after it: the README shows what comes of
\* that.  No other event meets a channel that the control thread takes for another.
Consistent ==
    IF stale THEN receiver.assisted \/ "standby" \in receiver.commands
             ELSE OneChannelEach /\ NothingLost /\ CountMatches /\ ViewsAgree

\* On standby no channel works, once the events before it have been read.
StandbyIsQuiet == standby => \A c \in Ch : ~Searching(c) /\ ~Tracking(c)

\* Every satellite in view is tracked at last on the primary signal, whatever
\* the others take, if none is lost again: the list is searched in turns.
Found(s) == \E c \in Of(Primary) : Tracking(c) /\ sat[c] = s
AllFound ==
    receiver.mayLose \/ receiver.commands # {}
      \/ <>[](\A s \in receiver.inView \cap prns : Found(s))

\* While a channel of the primary signal keeps a satellite and its reports say so, a
\* channel of the second signal is tracking, or gets its turn again and again to
\* search one that the reports name: neither the others' searches, nor the end of
\* the list it goes to unaided, nor the report of a satellite lost since keeps it
\* waiting (gnss_flowgraph.cc:1748, 2279-2299).
Keeps(c) == Band[c] = Primary /\ Tracking(c) /\ status[c] = sat[c]
Aided(c) == Band[c] # Primary /\ (Tracking(c) \/ (Searching(c) /\ sat[c] \in Range(status)))
SecondIsAided ==
    []<>(Bands # {Primary} /\ (\E d \in Ch : Keeps(d)) => \E c \in Ch : Aided(c))

\* Every channel gets its turn.
PoolServes == AllFound /\ SecondIsAided

\* A satellite that is fixed to a channel is never in the list from which the
\* other channels are served (CHANGELOG.md:1511).
FixedStaysOut == \A c \in Ch : Fixed[c] # None => ~Contains(avail[Band[c]], Fixed[c])

\* Every satellite is in one place, the lists never run empty under a channel
\* that needs one, and the counts and views of the control thread are right.
PoolIsConsistent ==
    /\ TypeOK /\ NeverThrows /\ Consistent /\ FixedStaysOut /\ StandbyIsQuiet

\* What the documentation says of the same points and the code does not do: no
\* run checks this, and the README shows how it fails.

\* "Search the currently tracked primary signal satellites": a secondary signal
\* starts only on a satellite the primary signal tracks, or on the one the
\* channel had.
StartsAided ==
    [][\A c \in Ch : Band[c] # Primary /\ sat'[c] # sat[c] /\ view'[c] = 2 =>
          \E d \in Of(Primary) : Tracking(d) /\ sat[d] = sat'[c]]_vars
=============================================================================
