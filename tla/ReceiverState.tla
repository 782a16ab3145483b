--------------------------- MODULE ReceiverState ---------------------------
(***************************************************************************)
(* What the bridge believes of GNSS-SDR's channels                          *)
(* (gnss/sdr_bridge/receiver_state.py, udp_monitor.py, cno.py): one thread *)
(* reads the lines GNSS-SDR prints, another the packets of its tracking    *)
(* monitor, and both write the same tables under _state_lock.  The two     *)
(* streams leave GNSS-SDR from different threads and nothing orders them.   *)
(*                                                                         *)
(* GNSS-SDR is started with --minloglevel=1 and prints no INFO line, so    *)
(* the lines are those it writes to its standard output: a start of        *)
(* tracking, a loss of lock and a decoded message.  A run is one stretch of *)
(* tracking of one satellite by one channel; measurements carry its number. *)
(* MaxRuns bounds the runs, MaxLines and MaxPackets the two streams (a      *)
(* packet more is lost).                                                    *)
(***************************************************************************)
EXTENDS Naturals, Sequences

CONSTANTS Chans, Sats, NoSat, NoChan, MaxRuns, MaxLines, MaxPackets

ASSUME NoSatAssumption == NoSat \notin Sats
ASSUME NoChanAssumption == NoChan \notin Chans
ASSUME BoundsAssumption == MaxRuns \in Nat /\ {MaxLines, MaxPackets} \subseteq Nat \ {0}

Runs == 0 .. MaxRuns   \* 0: no run
NoCno == [sat |-> NoSat, run |-> 0]

VARIABLES
  inStep,   \* the readers keep up: everything sent is read before GNSS-SDR goes on
  lock,     \* the satellite a channel of GNSS-SDR tracks
  run,      \* the number of that run
  runs,     \* the runs begun so far
  leaving,  \* the satellite of the item a lost channel still has to send
  words,    \* the satellite and run whose symbols the decoder of a channel holds
  console,  \* lines printed and not yet read
  udp,      \* packets sent and not yet read
  stateOf, chanOf,  \* _prn_states
  confirmed,  \* its telemetry_confirmed: the run that was decoded, 0 for FALSE
  chanSat,  \* _channel_prn
  heard,    \* _tracking_prn_by_channel
  cno,      \* _tracking_cn0_by_channel: whose measurement it is
  history,  \* _tracking_cno_history: the runs its samples come from
  pending   \* the C/N0 of a message line, between its two critical sections

receiverVars == <<inStep, lock, run, runs, leaving, words>>
tableVars == <<stateOf, chanOf, confirmed, chanSat, heard, cno, history>>
vars == <<receiverVars, console, udp, tableVars, pending>>

NoWords == NoCno
NoLine == [kind |-> "none", channel |-> NoChan, sat |-> NoSat, run |-> 0]

Init ==
  /\ inStep \in BOOLEAN
  /\ lock = [c \in Chans |-> NoSat] /\ run = [c \in Chans |-> 0] /\ runs = 0
  /\ leaving = [c \in Chans |-> NoSat] /\ words = [c \in Chans |-> NoWords]
  /\ console = << >> /\ udp = << >>
  /\ stateOf = [s \in Sats |-> "none"] /\ chanOf = [s \in Sats |-> NoChan]
  /\ confirmed = [s \in Sats |-> 0]
  /\ chanSat = [c \in Chans |-> NoSat] /\ heard = [c \in Chans |-> NoSat]
  /\ cno = [c \in Chans |-> NoCno]
  /\ history = [c \in Chans |-> [s \in Sats |-> {}]]
  /\ pending = NoLine

-----------------------------------------------------------------------------
(* GNSS-SDR                                                                *)

\* When the readers keep up, what was sent before has been read.
Say(kind, c, s, r) ==
  /\ Len(console) < MaxLines
  /\ inStep => console = << >> /\ udp = << >> /\ pending = NoLine
  /\ console' = Append(console, [kind |-> kind, channel |-> c, sat |-> s, run |-> r])

Settled(c) == leaving[c] = NoSat /\ words[c] = NoWords

\* The tracking block of a channel begins a run.
Start(c, s) ==
  /\ lock[c] = NoSat /\ \A d \in Chans : lock[d] # s
  /\ runs < MaxRuns
  /\ inStep => Settled(c)
  /\ lock' = [lock EXCEPT ![c] = s]
  /\ runs' = runs + 1 /\ run' = [run EXCEPT ![c] = runs + 1]
  /\ Say("start", c, s, runs + 1)
  /\ UNCHANGED <<inStep, leaving, words, udp, tableVars, pending>>

\* One output of the tracking block: the monitor may send it, the decoder takes it.
Track(c, sends) ==
  /\ lock[c] # NoSat /\ leaving[c] = NoSat
  /\ words' = [words EXCEPT ![c] = [sat |-> lock[c], run |-> run[c]]]
  /\ IF sends THEN /\ Len(udp) < MaxPackets
                   /\ udp' = Append(udp, [channel |-> c, sat |-> lock[c], run |-> run[c]])
              ELSE UNCHANGED udp
  /\ UNCHANGED <<inStep, lock, run, runs, leaving, console, tableVars, pending>>

\* The loss is printed before the last item of the run is sent.
Lose(c) ==
  /\ lock[c] # NoSat /\ leaving[c] = NoSat
  /\ inStep => words[c] = NoWords
  /\ Say("loss", c, lock[c], run[c])
  /\ leaving' = [leaving EXCEPT ![c] = lock[c]]
  /\ lock' = [lock EXCEPT ![c] = NoSat]
  /\ UNCHANGED <<inStep, run, runs, words, udp, tableVars, pending>>

\* That item has no C/N0 (run 0).
SendLast(c) ==
  /\ leaving[c] # NoSat
  /\ leaving' = [leaving EXCEPT ![c] = NoSat]
  /\ \/ Len(udp) < MaxPackets /\ udp' = Append(udp, [channel |-> c, sat |-> leaving[c], run |-> 0])
     \/ UNCHANGED udp
  /\ UNCHANGED <<inStep, lock, run, runs, words, console, tableVars, pending>>

\* The telemetry decoder ends a message, or not yet, with the symbols it holds.
Decode(c) ==
  /\ words[c] # NoWords
  /\ words' = [words EXCEPT ![c] = NoWords]
  /\ \/ Say("nav", c, words[c].sat, words[c].run)
     \/ UNCHANGED console
  /\ UNCHANGED <<inStep, lock, run, runs, leaving, udp, tableVars, pending>>

-----------------------------------------------------------------------------
(* The critical sections of the readers                                    *)

\* The satellite that owned the channel, when it is another one.
Displaced(c, s) == {p \in Sats \ {s} : p = chanSat[c]}

\* It is lost, unless it has moved on to another channel.
Demoted(c, s) == {p \in Displaced(c, s) : chanOf[p] = c}

ClearHistory(c, gone) == [history EXCEPT ![c] = [p \in Sats |-> IF p \in gone THEN {} ELSE @[p]]]

\* Fault: a satellite that comes back to its channel keeps what it had there.
SetStateKeeps(c, s, new, decoded) ==
  LET moved == Displaced(c, s) # {}
  IN /\ chanSat' = [chanSat EXCEPT ![c] = s]
     /\ stateOf' = [p \in Sats |-> IF p = s THEN new
                                   ELSE IF p \in Demoted(c, s) THEN "lost" ELSE stateOf[p]]
     /\ chanOf' = [chanOf EXCEPT ![s] = c]
     /\ confirmed' = [confirmed EXCEPT ![s] = IF decoded # 0 THEN decoded ELSE @]
     /\ heard' = [heard EXCEPT ![c] = IF moved THEN NoSat ELSE @]
     /\ cno' = [cno EXCEPT ![c] = IF moved THEN NoCno ELSE @]
     /\ history' = ClearHistory(c, Displaced(c, s))

\* _set_prn_state(c, s, new); decoded: the run its updates confirm, if any
SetState(c, s, new, decoded) ==
  LET moved == Displaced(c, s) # {}
      fresh == new # "tracking" \/ chanSat[c] # s \/ stateOf[s] # "tracking"
  IN /\ chanSat' = [chanSat EXCEPT ![c] = s]
     /\ stateOf' = [p \in Sats |-> IF p = s THEN new
                                   ELSE IF p \in Demoted(c, s) THEN "lost" ELSE stateOf[p]]
     /\ chanOf' = [chanOf EXCEPT ![s] = c]
     /\ confirmed' = [p \in Sats |->
          IF p \in Demoted(c, s) THEN 0
          ELSE IF p # s THEN confirmed[p]
          ELSE IF decoded # 0 THEN decoded ELSE IF fresh THEN 0 ELSE confirmed[s]]
     /\ heard' = [heard EXCEPT ![c] = IF moved THEN NoSat ELSE @]
     /\ cno' = [cno EXCEPT ![c] = IF moved \/ fresh THEN NoCno ELSE @]
     /\ history' = ClearHistory(c, Displaced(c, s) \union (IF fresh THEN {s} ELSE {}))

\* A start of tracking or a loss of lock.
ReadLine ==
  /\ console # << >> /\ pending = NoLine
  /\ LET line == Head(console) IN
       /\ line.kind # "nav"
       /\ SetState(line.channel, line.sat, IF line.kind = "loss" THEN "lost" ELSE "tracking", 0)
  /\ console' = Tail(console)
  /\ UNCHANGED <<receiverVars, udp, pending>>

\* A message: the satellite is tracked and decoded; its C/N0 comes after.
ReadMessage ==
  /\ console # << >> /\ pending = NoLine
  /\ Head(console).kind = "nav"
  /\ SetState(Head(console).channel, Head(console).sat, "tracking", Head(console).run)
  /\ pending' = Head(console) /\ console' = Tail(console)
  /\ UNCHANGED <<receiverVars, udp>>

\* Fault: the satellite is not looked up again.
TakeSampleUnchecked ==
  /\ pending # NoLine
  /\ pending' = NoLine
  /\ heard' = [heard EXCEPT ![pending.channel] = pending.sat]
  /\ cno' = [cno EXCEPT ![pending.channel] = [sat |-> pending.sat, run |-> pending.run]]
  /\ history' = [history EXCEPT ![pending.channel][pending.sat] = @ \union {pending.run}]
  /\ UNCHANGED <<receiverVars, console, udp, stateOf, chanOf, confirmed, chanSat>>

\* _set_runtime_cno_sample, in a critical section of its own
TakeSample ==
  LET c == pending.channel  s == pending.sat
      other == heard[c] \notin {NoSat, s}
      cleared == IF other THEN {chanSat[c], s} ELSE {}
  IN /\ pending # NoLine
     /\ pending' = NoLine
     /\ IF stateOf[s] = "tracking" /\ chanOf[s] = c
        THEN /\ heard' = [heard EXCEPT ![c] = s]
             /\ cno' = [cno EXCEPT ![c] = [sat |-> s, run |-> pending.run]]
             /\ history' = [ClearHistory(c, cleared) EXCEPT ![c][s] = @ \union {pending.run}]
        ELSE UNCHANGED <<heard, cno, history>>
     /\ UNCHANGED <<receiverVars, console, udp, stateOf, chanOf, confirmed, chanSat>>

\* Fault: a satellite already in the table keeps its entry.
ReadPacketOnce ==
  /\ udp # << >>
  /\ LET c == Head(udp).channel  s == Head(udp).sat
     IN /\ stateOf' = [stateOf EXCEPT ![s] = IF @ = "none" THEN "tracking" ELSE @]
        /\ chanOf' = [chanOf EXCEPT ![s] = IF @ = NoChan THEN c ELSE @]
  /\ udp' = Tail(udp)
  /\ UNCHANGED <<receiverVars, console, pending, chanSat, confirmed, heard, cno, history>>

\* _apply_gnss_synchro_observable_locked on a packet of the tracking monitor
ReadPacket ==
  /\ udp # << >>
  /\ LET c == Head(udp).channel  s == Head(udp).sat  r == Head(udp).run
         moved == Displaced(c, s) # {}
     IN /\ chanSat' = [chanSat EXCEPT ![c] = s]
        /\ stateOf' = [p \in Sats |-> IF p = s THEN "tracking"
                                      ELSE IF p \in Demoted(c, s) THEN "lost" ELSE stateOf[p]]
        /\ chanOf' = [chanOf EXCEPT ![s] = c]
        /\ confirmed' = [p \in Sats |-> IF p \in Demoted(c, s) THEN 0 ELSE confirmed[p]]
        /\ heard' = [heard EXCEPT ![c] = IF r # 0 THEN s ELSE IF moved THEN NoSat ELSE @]
        /\ cno' = [cno EXCEPT ![c] = IF r # 0 THEN [sat |-> s, run |-> r]
                                     ELSE IF moved THEN NoCno ELSE @]
        /\ history' = [ClearHistory(c, Displaced(c, s)) EXCEPT
                         ![c][s] = IF r # 0 THEN @ \union {r} ELSE @]
  /\ udp' = Tail(udp)
  /\ UNCHANGED <<receiverVars, console, pending>>

Receiver == \E c \in Chans :
  \/ \E s \in Sats : Start(c, s)
  \/ \E sends \in BOOLEAN : Track(c, sends)
  \/ Lose(c) \/ SendLast(c) \/ Decode(c)

Next == Receiver \/ ReadLine \/ ReadMessage \/ TakeSample \/ ReadPacket

Spec == Init /\ [][Next]_vars

\* The reader threads go on, what a lost channel has left is sent, and the
\* monitor sends a channel's items again and again.
Fairness ==
  /\ WF_vars(ReadLine \/ ReadMessage \/ TakeSample) /\ WF_vars(ReadPacket)
  /\ \A c \in Chans : WF_vars(SendLast(c)) /\ SF_vars(Track(c, TRUE))

FairSpec == Spec /\ Fairness

-----------------------------------------------------------------------------
(* Properties                                                              *)

Line == [kind : {"start", "loss", "nav"}, channel : Chans, sat : Sats, run : Runs]
Measure == [sat : Sats \union {NoSat}, run : Runs]

\* Every variable has values of its kind; the streams are bounded.
TypeOK ==
  /\ inStep \in BOOLEAN
  /\ lock \in [Chans -> Sats \union {NoSat}] /\ run \in [Chans -> Runs] /\ runs \in Runs
  /\ leaving \in [Chans -> Sats \union {NoSat}] /\ words \in [Chans -> Measure]
  /\ console \in Seq(Line) /\ Len(console) <= MaxLines
  /\ udp \in Seq([channel : Chans, sat : Sats, run : Runs]) /\ Len(udp) <= MaxPackets
  /\ stateOf \in [Sats -> {"none", "tracking", "lost"}] /\ chanOf \in [Sats -> Chans \union {NoChan}]
  /\ confirmed \in [Sats -> Runs]
  /\ chanSat \in [Chans -> Sats \union {NoSat}] /\ heard \in [Chans -> Sats \union {NoSat}]
  /\ cno \in [Chans -> Measure] /\ history \in [Chans -> [Sats -> SUBSET Runs]]
  /\ pending \in Line \union {NoLine}

Shown(s) == stateOf[s] = "tracking"

\* However late a line or a packet is read, a channel is never shown tracking
\* two satellites: whoever takes it over demotes the one before, and only
\* where that one has not been found on another channel since.
OneShownPerChannel ==
  \A s, t \in Sats : s # t /\ Shown(s) /\ Shown(t) => chanOf[s] # chanOf[t]

\* "This prevents stale C/N0 from a previous PRN making a new tracking channel
\* look stable": the C/N0 of a channel, the satellite it was last heard from and
\* its history are all of the satellite that owns the channel, also when a
\* packet gets between the two critical sections of a message line.
MeasuresAreOwn == \A c \in Chans :
  /\ heard[c] \in {NoSat, chanSat[c]}
  /\ cno[c].sat = heard[c] \/ cno[c] = NoCno
  /\ \A s \in Sats : history[c][s] # {} => s = chanSat[c]

\* What is shown of a channel is of one satellite, the one that owns it.
ShownIsOwn == TypeOK /\ OneShownPerChannel /\ MeasuresAreOwn

AllRead == console = << >> /\ udp = << >> /\ pending = NoLine

\* A satellite that was lost and is tracked again starts from nothing: its C/N0
\* history and its telemetry_confirmed are those of the run it is in. So it is as
\* long as the readers keep up; a line that is read late mixes two runs.
RunIsFresh == (inStep /\ AllRead) => \A c \in Chans : lock[c] # NoSat =>
  /\ history[c][lock[c]] \subseteq {run[c]}
  /\ confirmed[lock[c]] \in {0, run[c]}

\* Stale lines and packets of earlier runs can make a tracked satellite look
\* lost or moved; while it stays tracked, its own packets put that right.
TrackedIsShown == \A c \in Chans, s \in Sats :
  <>[](lock[c] = s) => <>[](Shown(s) /\ chanOf[s] = c)

=============================================================================
