------------------------ MODULE GnssReceiverProofs -------------------------
(***************************************************************************)
(* Proofs about ReceiverState, for every set of channels and satellites,   *)
(* every number of runs and streams of every length, and about             *)
(* AcquisitionChannel, for every search list, setting of the acquisition   *)
(* and number of commands: what the bridge believes, and the channels of   *)
(* the receiver it believes it of.  Last, about TelemetryDecoder, for      *)
(* frames, weeks and signals of every length.                              *)
(***************************************************************************)
EXTENDS ReceiverState, AcquisitionChannel, TelemetryDecoder, TLAPS

-----------------------------------------------------------------------------
(* The strengthening.                                                      *)

Packet == [channel : Chans, sat : Sats, run : Runs]

\* A satellite shown tracking owns the channel it is shown on.
Owner == \A s \in Sats : Shown(s) => /\ chanOf[s] \in Chans
                                     /\ chanSat[chanOf[s]] = s

\* Every variable has values of its kind; what a decoder holds is of a satellite.
TypeReceiver ==
  /\ inStep \in BOOLEAN
  /\ lock \in [Chans -> Sats \union {NoSat}] /\ run \in [Chans -> Runs] /\ runs \in Runs
  /\ leaving \in [Chans -> Sats \union {NoSat}] /\ words \in [Chans -> [sat : Sats, run : Runs] \union {NoWords}]

TypeStreams ==
  /\ console \in Seq(Line) /\ Len(console) <= MaxLines
  /\ udp \in Seq(Packet) /\ Len(udp) <= MaxPackets
  /\ pending \in Line \union {NoLine}

TypeTables ==
  /\ stateOf \in [Sats -> {"none", "tracking", "lost"}] /\ chanOf \in [Sats -> Chans \union {NoChan}]
  /\ confirmed \in [Sats -> Runs]
  /\ chanSat \in [Chans -> Sats \union {NoSat}] /\ heard \in [Chans -> Sats \union {NoSat}]
  /\ cno \in [Chans -> Measure] /\ history \in [Chans -> [Sats -> SUBSET Runs]]

IInv == TypeReceiver /\ TypeStreams /\ TypeTables /\ Owner /\ MeasuresAreOwn

\* The parts give type correctness.
LEMMA TypeParts == TypeReceiver /\ TypeStreams /\ TypeTables => TypeOK
<1> SUFFICES ASSUME TypeReceiver, TypeStreams, TypeTables
             PROVE  TypeOK
  OBVIOUS
<1>1. words \in [Chans -> Measure]
  BY BoundsAssumption DEF TypeReceiver, NoWords, NoCno, Measure, Runs
<1> QED
  BY <1>1 DEF TypeOK, TypeReceiver, TypeStreams, TypeTables, Packet

-----------------------------------------------------------------------------
(* What GNSS-SDR does leaves the tables alone.                              *)

\* The next line, or packet, is one, and the rest of the stream stays bounded.
LEMMA StreamFacts ==
  ASSUME TypeStreams
  PROVE  /\ console # << >> => /\ Head(console) \in Line
                               /\ Tail(console) \in Seq(Line) /\ Len(Tail(console)) <= MaxLines
         /\ udp # << >> => /\ Head(udp) \in Packet
                           /\ Tail(udp) \in Seq(Packet) /\ Len(Tail(udp)) <= MaxPackets
BY BoundsAssumption DEF TypeStreams

\* Printing a line keeps the console a bounded sequence of lines.
LEMMA SayType ==
  ASSUME TypeStreams, NEW kind \in {"start", "loss", "nav"}, NEW c \in Chans,
         NEW s \in Sats, NEW r \in Runs, Say(kind, c, s, r)
  PROVE  console' \in Seq(Line) /\ Len(console') <= MaxLines
<1>1. [kind |-> kind, channel |-> c, sat |-> s, run |-> r] \in Line
  BY DEF Line
<1> QED
  BY <1>1, BoundsAssumption DEF TypeStreams, Say

\* Sending a packet keeps the socket a bounded sequence of packets.
LEMMA SendType ==
  ASSUME TypeStreams, NEW c \in Chans, NEW s \in Sats, NEW r \in Runs,
         Len(udp) < MaxPackets, udp' = Append(udp, [channel |-> c, sat |-> s, run |-> r])
  PROVE  udp' \in Seq(Packet) /\ Len(udp') <= MaxPackets
<1>1. [channel |-> c, sat |-> s, run |-> r] \in Packet
  BY DEF Packet
<1> QED
  BY <1>1, BoundsAssumption DEF TypeStreams

\* Every action of GNSS-SDR keeps the types of its own state and of the streams.
LEMMA ReceiverStep ==
  ASSUME TypeReceiver, TypeStreams, Receiver
  PROVE  /\ TypeReceiver' /\ TypeStreams'
         /\ UNCHANGED tableVars
<1> PICK c \in Chans : \/ \E s \in Sats : Start(c, s)
                       \/ \E sends \in BOOLEAN : Track(c, sends)
                       \/ Lose(c) \/ SendLast(c) \/ Decode(c)
  BY DEF Receiver
<1>1. CASE \E s \in Sats : Start(c, s)
  <2> PICK s \in Sats : Start(c, s)
    BY <1>1
  <2>1. runs + 1 \in Runs /\ "start" \in {"start", "loss", "nav"}
    BY BoundsAssumption DEF Start, TypeReceiver, Runs
  <2>2. console' \in Seq(Line) /\ Len(console') <= MaxLines
    BY <2>1, SayType DEF Start
  <2> QED
    BY <2>1, <2>2 DEF Start, TypeReceiver, TypeStreams
<1>2. CASE \E sends \in BOOLEAN : Track(c, sends)
  <2> PICK sends \in BOOLEAN : Track(c, sends)
    BY <1>2
  <2>1. lock[c] \in Sats /\ run[c] \in Runs
    BY DEF Track, TypeReceiver
  <2>2. [sat |-> lock[c], run |-> run[c]] \in [sat : Sats, run : Runs]
    BY <2>1
  <2>3. udp' \in Seq(Packet) /\ Len(udp') <= MaxPackets
    BY <2>1, SendType DEF Track, TypeStreams
  <2> QED
    BY <2>2, <2>3 DEF Track, TypeReceiver, TypeStreams
<1>3. CASE Lose(c)
  <2>1. lock[c] \in Sats /\ run[c] \in Runs /\ "loss" \in {"start", "loss", "nav"}
    BY <1>3 DEF Lose, TypeReceiver
  <2>2. console' \in Seq(Line) /\ Len(console') <= MaxLines
    BY <1>3, <2>1, SayType DEF Lose
  <2> QED
    BY <1>3, <2>1, <2>2 DEF Lose, TypeReceiver, TypeStreams
<1>4. CASE SendLast(c)
  <2>1. leaving[c] \in Sats /\ 0 \in Runs
    BY <1>4, BoundsAssumption DEF SendLast, TypeReceiver, Runs
  <2>2. udp' \in Seq(Packet) /\ Len(udp') <= MaxPackets
    BY <1>4, <2>1, SendType DEF SendLast, TypeStreams
  <2> QED
    BY <1>4, <2>2 DEF SendLast, TypeReceiver, TypeStreams
<1>5. CASE Decode(c)
  <2>1. words[c].sat \in Sats /\ words[c].run \in Runs /\ "nav" \in {"start", "loss", "nav"}
    BY <1>5 DEF Decode, TypeReceiver
  <2>2. console' \in Seq(Line) /\ Len(console') <= MaxLines
    BY <1>5, <2>1, SayType DEF Decode, TypeStreams
  <2> QED
    BY <1>5, <2>2 DEF Decode, TypeReceiver, TypeStreams
<1> QED
  BY <1>1, <1>2, <1>3, <1>4, <1>5 DEF Start, Track, Lose, SendLast, Decode

-----------------------------------------------------------------------------
(* The critical sections.                                                  *)

\* At most the owner of a channel is displaced, and if a channel is shown
\* tracking a satellite that is not the newcomer, that one is demoted.
LEMMA DisplacedFacts ==
  ASSUME TypeTables, Owner, NEW c \in Chans, NEW s \in Sats
  PROVE  /\ Displaced(c, s) = {} <=> chanSat[c] \in {NoSat, s}
         /\ \A p \in Sats : p \in Displaced(c, s) <=> p # s /\ p = chanSat[c]
         /\ \A p \in Sats \ {s} : Shown(p) /\ chanOf[p] = c => p \in Demoted(c, s)
         /\ s \notin Demoted(c, s)
BY NoSatAssumption DEF Displaced, Demoted, TypeTables, Owner

\* A new state of a satellite leaves the tables typed.
LEMMA SetStateType ==
  ASSUME TypeTables, NEW c \in Chans, NEW s \in Sats, NEW new \in {"tracking", "lost"},
         NEW decoded \in Runs, SetState(c, s, new, decoded)
  PROVE  TypeTables'
<1>1. 0 \in Runs /\ NoCno \in Measure
  BY BoundsAssumption DEF Runs, NoCno, Measure
<1>2. history' \in [Chans -> [Sats -> SUBSET Runs]]
  BY DEF SetState, ClearHistory, TypeTables
<1>3. confirmed' \in [Sats -> Runs]
  BY <1>1 DEF SetState, TypeTables
<1>4. cno' \in [Chans -> Measure]
  BY <1>1 DEF SetState, TypeTables
<1> QED
  BY <1>2, <1>3, <1>4 DEF SetState, TypeTables

\* The newcomer owns the channel, and nobody else is shown on it.
LEMMA SetStateOwner ==
  ASSUME TypeTables, Owner, NEW c \in Chans, NEW s \in Sats, NEW new \in {"tracking", "lost"},
         NEW decoded, SetState(c, s, new, decoded)
  PROVE  Owner'
<1> SUFFICES ASSUME NEW p \in Sats, Shown(p)'
             PROVE  chanOf'[p] \in Chans /\ chanSat'[chanOf'[p]] = p
  BY DEF Owner
<1>1. CASE p = s
  BY <1>1 DEF SetState, TypeTables
<1>2. CASE p # s
  <2>1. p \notin Demoted(c, s) /\ Shown(p) /\ chanOf'[p] = chanOf[p]
    BY <1>2 DEF SetState, TypeTables, Shown
  <2>2. chanOf[p] # c
    BY <1>2, <2>1, DisplacedFacts
  <2> QED
    BY <2>1, <2>2 DEF SetState, TypeTables, Owner
<1> QED
  BY <1>1, <1>2

\* What was measured of a displaced satellite goes with it.
LEMMA SetStateMeasures ==
  ASSUME TypeTables, Owner, MeasuresAreOwn, NEW c \in Chans, NEW s \in Sats,
         NEW new, NEW decoded, SetState(c, s, new, decoded)
  PROVE  MeasuresAreOwn'
<1> SUFFICES ASSUME NEW d \in Chans
             PROVE  /\ heard'[d] \in {NoSat, chanSat'[d]}
                    /\ cno'[d].sat = heard'[d] \/ cno'[d] = NoCno
                    /\ \A p \in Sats : history'[d][p] # {} => p = chanSat'[d]
  BY DEF MeasuresAreOwn
<1>1. CASE d # c
  BY <1>1 DEF SetState, ClearHistory, TypeTables, MeasuresAreOwn
<1>2. CASE d = c
  <2>1. heard'[c] \in {NoSat, s}
    BY DisplacedFacts DEF SetState, TypeTables, MeasuresAreOwn
  <2>2. cno'[c].sat = heard'[c] \/ cno'[c] = NoCno
    BY DEF SetState, TypeTables, MeasuresAreOwn
  <2>3. ASSUME NEW p \in Sats, p # s
        PROVE  history'[c][p] = {}
    <3>1. history[c][p] # {} => p \in Displaced(c, s)
      BY <2>3, DisplacedFacts DEF MeasuresAreOwn
    <3> QED
      BY <3>1 DEF SetState, ClearHistory, TypeTables
  <2> QED
    BY <1>2, <2>1, <2>2, <2>3 DEF SetState, TypeTables
<1> QED
  BY <1>1, <1>2

\* The three conjuncts about the tables, for a step that sets a state.
LEMMA SetStateTables ==
  ASSUME TypeTables, Owner, MeasuresAreOwn, NEW c \in Chans, NEW s \in Sats,
         NEW new \in {"tracking", "lost"}, NEW decoded \in Runs, SetState(c, s, new, decoded)
  PROVE  TypeTables' /\ Owner' /\ MeasuresAreOwn'
BY SetStateType, SetStateOwner, SetStateMeasures

\* A sample of a message line is taken only of the satellite that owns the channel.
LEMMA TakeSampleTables ==
  ASSUME TypeTables, TypeStreams, Owner, MeasuresAreOwn, TakeSample
  PROVE  TypeTables' /\ Owner' /\ MeasuresAreOwn'
<1> DEFINE c == pending.channel
           s == pending.sat
<1>1. pending \in Line
  BY DEF TakeSample, TypeStreams
<1>2. c \in Chans /\ s \in Sats /\ pending.run \in Runs
  BY <1>1 DEF Line
<1>3. Owner'
  BY DEF TakeSample, Owner, Shown
<1>4. CASE ~(stateOf[s] = "tracking" /\ chanOf[s] = c)
  BY <1>3, <1>4 DEF TakeSample, TypeTables, MeasuresAreOwn
<1>5. CASE stateOf[s] = "tracking" /\ chanOf[s] = c
  <2> DEFINE other == heard[c] \notin {NoSat, s}
             cleared == IF other THEN {chanSat[c], s} ELSE {}
  <2>1. chanSat[c] = s
    BY <1>2, <1>5 DEF Owner, Shown
  <2>2. /\ heard' = [heard EXCEPT ![c] = s]
        /\ cno' = [cno EXCEPT ![c] = [sat |-> s, run |-> pending.run]]
        /\ history' = [ClearHistory(c, cleared) EXCEPT ![c][s] = @ \union {pending.run}]
        /\ UNCHANGED <<stateOf, chanOf, confirmed, chanSat>>
    BY <1>5 DEF TakeSample
  <2>3. ClearHistory(c, cleared) \in [Chans -> [Sats -> SUBSET Runs]]
    BY <1>2 DEF ClearHistory, TypeTables
  <2>4. history' \in [Chans -> [Sats -> SUBSET Runs]]
    <3> DEFINE kept == ClearHistory(c, cleared)
    <3>1. kept \in [Chans -> [Sats -> SUBSET Runs]]
      BY <2>3
    <3>2. history' = [kept EXCEPT ![c][s] = @ \union {pending.run}]
      BY <2>2
    <3> HIDE DEF kept
    <3> QED
      BY <1>2, <3>1, <3>2
  <2>5. TypeTables'
    BY <1>2, <2>2, <2>4 DEF TypeTables, Measure
  <2>6. ASSUME NEW d \in Chans, NEW p \in Sats, history'[d][p] # {}
        PROVE  p = chanSat[d]
    <3>1. (d = c /\ p = s) \/ history[d][p] # {}
      BY <1>2, <2>2, <2>3, <2>6 DEF ClearHistory, TypeTables
    <3> QED
      BY <2>1, <3>1 DEF MeasuresAreOwn
  <2>7. MeasuresAreOwn'
    BY <1>2, <2>1, <2>2, <2>6 DEF MeasuresAreOwn, TypeTables
  <2> QED
    BY <1>3, <2>5, <2>7
<1> QED
  BY <1>4, <1>5

\* A packet makes its satellite the owner of its channel.
LEMMA ReadPacketTables ==
  ASSUME TypeTables, TypeStreams, Owner, MeasuresAreOwn, ReadPacket
  PROVE  TypeTables' /\ Owner' /\ MeasuresAreOwn'
<1> DEFINE c == Head(udp).channel
           s == Head(udp).sat
           r == Head(udp).run
           moved == Displaced(c, s) # {}
           cleared == ClearHistory(c, Displaced(c, s))
<1>1. c \in Chans /\ s \in Sats /\ r \in Runs /\ 0 \in Runs
  <2>1. Head(udp) \in Packet
    BY StreamFacts DEF ReadPacket
  <2> QED
    BY <2>1, BoundsAssumption DEF Packet, Runs
<1>2. /\ chanSat' = [chanSat EXCEPT ![c] = s]
      /\ stateOf' = [p \in Sats |-> IF p = s THEN "tracking"
                                    ELSE IF p \in Demoted(c, s) THEN "lost" ELSE stateOf[p]]
      /\ chanOf' = [chanOf EXCEPT ![s] = c]
      /\ confirmed' = [p \in Sats |-> IF p \in Demoted(c, s) THEN 0 ELSE confirmed[p]]
      /\ heard' = [heard EXCEPT ![c] = IF r # 0 THEN s ELSE IF moved THEN NoSat ELSE @]
      /\ cno' = [cno EXCEPT ![c] = IF r # 0 THEN [sat |-> s, run |-> r]
                                   ELSE IF moved THEN NoCno ELSE @]
      /\ history' = [cleared EXCEPT ![c][s] = IF r # 0 THEN @ \union {r} ELSE @]
  BY DEF ReadPacket
<1>3. cleared \in [Chans -> [Sats -> SUBSET Runs]]
  BY <1>1 DEF ClearHistory, TypeTables
<1>4. TypeTables'
  <2>1. history' \in [Chans -> [Sats -> SUBSET Runs]]
    <3> HIDE DEF cleared, c, s, r
    <3>1. cleared[c] \in [Sats -> SUBSET Runs]
      BY <1>1, <1>3
    <3>2. [cleared[c] EXCEPT ![s] = IF r # 0 THEN @ \union {r} ELSE @] \in [Sats -> SUBSET Runs]
      BY <1>1, <3>1
    <3>3. history' = [cleared EXCEPT ![c] = [cleared[c] EXCEPT ![s] = IF r # 0 THEN @ \union {r} ELSE @]]
      BY <1>1, <1>2, <1>3
    <3> QED
      BY <1>1, <1>3, <3>2, <3>3
  <2>2. NoCno \in Measure /\ [sat |-> s, run |-> r] \in Measure
    BY <1>1 DEF NoCno, Measure
  <2> QED
    BY <1>1, <1>2, <2>1, <2>2 DEF TypeTables
<1>5. Owner'
  <2> SUFFICES ASSUME NEW p \in Sats, Shown(p)'
               PROVE  chanOf'[p] \in Chans /\ chanSat'[chanOf'[p]] = p
    BY DEF Owner
  <2>1. CASE p = s
    BY <1>1, <1>2, <2>1 DEF TypeTables
  <2>2. CASE p # s
    <3>1. p \notin Demoted(c, s) /\ Shown(p) /\ chanOf'[p] = chanOf[p]
      BY <1>1, <1>2, <2>2 DEF TypeTables, Shown
    <3>2. chanOf[p] # c
      BY <1>1, <2>2, <3>1, DisplacedFacts
    <3> QED
      BY <1>1, <1>2, <3>1, <3>2 DEF TypeTables, Owner
  <2> QED
    BY <2>1, <2>2
<1>6. MeasuresAreOwn'
  <2> SUFFICES ASSUME NEW d \in Chans
               PROVE  /\ heard'[d] \in {NoSat, chanSat'[d]}
                      /\ cno'[d].sat = heard'[d] \/ cno'[d] = NoCno
                      /\ \A p \in Sats : history'[d][p] # {} => p = chanSat'[d]
    BY DEF MeasuresAreOwn
  <2>1. CASE d # c
    BY <1>1, <1>2, <1>3, <2>1 DEF ClearHistory, TypeTables, MeasuresAreOwn
  <2>2. CASE d = c
    <3>1. heard'[c] \in {NoSat, s}
      <4>1. ~moved => heard[c] \in {NoSat, s}
        BY <1>1, DisplacedFacts DEF MeasuresAreOwn
      <4>2. heard'[c] \in {s, NoSat} \/ (~moved /\ heard'[c] = heard[c])
        BY <1>1, <1>2 DEF TypeTables
      <4> QED
        BY <4>1, <4>2
    <3>2. cno'[c].sat = heard'[c] \/ cno'[c] = NoCno
      BY <1>1, <1>2 DEF TypeTables, MeasuresAreOwn, NoCno
    <3>3. ASSUME NEW p \in Sats, p # s
          PROVE  history'[c][p] = {}
      <4>1. history[c][p] # {} => p \in Displaced(c, s)
        BY <1>1, <3>3, DisplacedFacts DEF MeasuresAreOwn
      <4>2. history'[c][p] = cleared[c][p]
        BY <1>1, <1>2, <1>3, <3>3
      <4> QED
        BY <1>1, <4>1, <4>2 DEF ClearHistory, TypeTables
    <3> QED
      BY <1>1, <1>2, <2>2, <3>1, <3>2, <3>3 DEF TypeTables
  <2> QED
    BY <2>1, <2>2
<1> QED
  BY <1>4, <1>5, <1>6

-----------------------------------------------------------------------------
(* The invariant.                                                          *)

\* At the start nothing is shown and nothing is measured.
LEMMA InitIInv == Init => IInv
<1> SUFFICES ASSUME Init
             PROVE  IInv
  OBVIOUS
<1>1. 0 \in Runs /\ NoCno \in Measure
  BY BoundsAssumption DEF Runs, NoCno, Measure
<1>2. TypeReceiver
  BY <1>1 DEF Init, TypeReceiver, NoWords
<1>3. TypeStreams
  BY BoundsAssumption DEF Init, TypeStreams
<1>4. TypeTables
  BY <1>1 DEF Init, TypeTables
<1> QED
  BY <1>2, <1>3, <1>4 DEF Init, IInv, Owner, MeasuresAreOwn, Shown

\* Every step preserves it.
LEMMA NextIInv == IInv /\ [Next]_vars => IInv'
<1> SUFFICES ASSUME IInv, [Next]_vars
             PROVE  IInv'
  OBVIOUS
<1> USE DEF IInv
<1>1. CASE Receiver
  BY <1>1, ReceiverStep DEF tableVars, TypeTables, Owner, MeasuresAreOwn, Shown
<1>2. CASE ReadLine
  <2> DEFINE line == Head(console)
  <2>1. line \in Line /\ line.kind # "nav" /\ console' \in Seq(Line) /\ Len(console') <= MaxLines
    BY <1>2, StreamFacts DEF ReadLine
  <2>2. TypeReceiver' /\ TypeStreams'
    BY <1>2, <2>1 DEF ReadLine, receiverVars, TypeReceiver, TypeStreams
  <2>3. line.channel \in Chans /\ line.sat \in Sats /\ 0 \in Runs
    BY <2>1, BoundsAssumption DEF Line, Runs
  <2>4. SetState(line.channel, line.sat, IF line.kind = "loss" THEN "lost" ELSE "tracking", 0)
    BY <1>2 DEF ReadLine
  <2>5. (IF line.kind = "loss" THEN "lost" ELSE "tracking") \in {"tracking", "lost"}
    OBVIOUS
  <2> HIDE DEF line
  <2> QED
    BY <2>2, <2>3, <2>4, <2>5, SetStateTables
<1>3. CASE ReadMessage
  <2> DEFINE line == Head(console)
  <2>1. line \in Line /\ console' \in Seq(Line) /\ Len(console') <= MaxLines
    BY <1>3, StreamFacts DEF ReadMessage
  <2>2. TypeReceiver' /\ TypeStreams'
    BY <1>3, <2>1 DEF ReadMessage, receiverVars, TypeReceiver, TypeStreams
  <2>3. line.channel \in Chans /\ line.sat \in Sats /\ line.run \in Runs
    BY <2>1 DEF Line
  <2>4. SetState(line.channel, line.sat, "tracking", line.run)
    BY <1>3 DEF ReadMessage
  <2> HIDE DEF line
  <2> QED
    BY <2>2, <2>3, <2>4, SetStateTables
<1>4. CASE TakeSample
  <2>1. TypeReceiver' /\ TypeStreams'
    BY <1>4 DEF TakeSample, receiverVars, TypeReceiver, TypeStreams
  <2> QED
    BY <1>4, <2>1, TakeSampleTables
<1>5. CASE ReadPacket
  <2>1. TypeReceiver' /\ TypeStreams'
    BY <1>5, StreamFacts DEF ReadPacket, receiverVars, TypeReceiver, TypeStreams
  <2> QED
    BY <1>5, <2>1, ReadPacketTables
<1>6. CASE UNCHANGED vars
  BY <1>6 DEF vars, receiverVars, tableVars, TypeReceiver, TypeStreams, TypeTables, Owner,
     MeasuresAreOwn, Shown
<1> QED
  BY <1>1, <1>2, <1>3, <1>4, <1>5, <1>6 DEF Next

\* The invariant holds in every reachable state.
THEOREM Inductive == Spec => []IInv
BY InitIInv, NextIInv, PTL DEF Spec

-----------------------------------------------------------------------------
(* Results.                                                                *)

\* Types: the tables stay well formed whatever is read in whatever order.
THEOREM TypeCorrect == Spec => []TypeOK
<1>1. IInv => TypeOK
  BY TypeParts DEF IInv
<1> QED
  BY <1>1, Inductive, PTL

\* A channel is never shown tracking two satellites, however far the lines and
\* the packets of GNSS-SDR lag behind it and behind each other.
THEOREM OneShown == Spec => []OneShownPerChannel
<1>1. IInv => OneShownPerChannel
  BY DEF IInv, Owner, OneShownPerChannel
<1> QED
  BY <1>1, Inductive, PTL

\* The measurements of a channel are those of the satellite that owns it, also
\* those taken in the second critical section of a message line.
THEOREM OwnMeasures == Spec => []MeasuresAreOwn
<1>1. IInv => MeasuresAreOwn
  BY DEF IInv
<1> QED
  BY <1>1, Inductive, PTL

\* What is shown of a channel is of one satellite, the one that owns it.
THEOREM ShownStateIsOwn == Spec => []ShownIsOwn
<1>1. IInv => ShownIsOwn
  BY TypeParts DEF IInv, Owner, OneShownPerChannel, ShownIsOwn
<1> QED
  BY <1>1, Inductive, PTL

-----------------------------------------------------------------------------
(* Runs that do not mix.  While the readers keep up, what is on its way and *)
(* what is in the tables is of the run a channel is in, or of the one it   *)
(* has just lost.                                                          *)

\* The line on its way is that of a loss of s by c.
Losing(c, s) ==
  console # << >> /\ Head(console).kind = "loss"
    /\ Head(console).channel = c /\ Head(console).sat = s

Holds(c, s) == lock[c] = s \/ Losing(c, s)

\* r is the run in which c tracks s.
IsRun(c, s, r) == lock[c] = s /\ run[c] = r

OneChannel == \A c, d \in Chans : lock[c] = lock[d] /\ lock[c] # NoSat => c = d

\* The line on its way.
LineWay ==
  /\ Len(console) <= 1 /\ (pending # NoLine => console = << >>)
  /\ console # << >> =>
       LET line == Head(console)
       IN  IF line.kind = "loss"
             THEN run[line.channel] = line.run /\ \A d \in Chans : lock[d] # line.sat
             ELSE IsRun(line.channel, line.sat, line.run)
  /\ pending # NoLine => IsRun(pending.channel, pending.sat, pending.run)

\* What is sent, or held by a decoder.
Way ==
  /\ LineWay
  /\ \A i \in 1..Len(udp) : udp[i].run # 0 => IsRun(udp[i].channel, udp[i].sat, udp[i].run)
  /\ \A c \in Chans : words[c] # NoWords => IsRun(c, words[c].sat, words[c].run)

\* What is in the tables.
Fresh ==
  /\ \A c \in Chans, s \in Sats : history[c][s] # {} => Holds(c, s) /\ history[c][s] \subseteq {run[c]}
  /\ \A s \in Sats : confirmed[s] # 0 => \E c \in Chans : Holds(c, s) /\ confirmed[s] = run[c]

KeepsUp == OneChannel /\ (inStep => Way /\ Fresh)

\* Two channels never track one satellite: a run starts on one that is free.
LEMMA OneChannelStep ==
  ASSUME IInv, OneChannel, [Next]_vars
  PROVE  OneChannel' /\ inStep' = inStep
<1> USE DEF IInv, TypeReceiver, OneChannel
<1>1. CASE Receiver
  <2> PICK c \in Chans : \/ \E s \in Sats : Start(c, s)
                         \/ \E sends \in BOOLEAN : Track(c, sends)
                         \/ Lose(c) \/ SendLast(c) \/ Decode(c)
    BY <1>1 DEF Receiver
  <2>1. CASE \E s \in Sats : Start(c, s)
    BY <2>1 DEF Start
  <2>2. CASE Lose(c)
    BY <2>2 DEF Lose
  <2>3. CASE (\E sends \in BOOLEAN : Track(c, sends)) \/ SendLast(c) \/ Decode(c)
    BY <2>3 DEF Track, SendLast, Decode
  <2> QED
    BY <2>1, <2>2, <2>3
<1>2. CASE ReadLine \/ ReadMessage \/ TakeSample \/ ReadPacket
  BY <1>2 DEF ReadLine, ReadMessage, TakeSample, ReadPacket, receiverVars
<1>3. CASE UNCHANGED vars
  BY <1>3 DEF vars, receiverVars
<1> QED
  BY <1>1, <1>2, <1>3 DEF Next

\* A start of tracking: nothing is on its way, and nothing is held of the channel.
LEMMA StartFresh ==
  ASSUME IInv, OneChannel, inStep, Way, Fresh, NEW c \in Chans, NEW s \in Sats, Start(c, s)
  PROVE  Way' /\ Fresh'
<1> USE DEF IInv, TypeReceiver
<1> DEFINE line == [kind |-> "start", channel |-> c, sat |-> s, run |-> runs + 1]
<1>1. /\ console = << >> /\ udp = << >> /\ pending = NoLine /\ words[c] = NoWords
      /\ console' = <<line>> /\ udp' = << >> /\ pending' = NoLine
      /\ lock' = [lock EXCEPT ![c] = s] /\ run' = [run EXCEPT ![c] = runs + 1]
      /\ UNCHANGED <<words, history, confirmed>> /\ lock[c] = NoSat
  BY DEF Start, Say, Settled, tableVars
<1>2. Head(console') = line /\ Len(console') = 1 /\ console' # << >>
  BY <1>1
<1>3. LineWay'
  BY <1>1, <1>2 DEF LineWay, IsRun
<1>4. Way'
  BY <1>1, <1>3 DEF Way, IsRun
<1>5. \A d \in Chans, p \in Sats : Holds(d, p) => d # c /\ Holds(d, p)' /\ run'[d] = run[d]
  BY <1>1, NoSatAssumption DEF Holds, Losing
<1> QED
  BY <1>1, <1>4, <1>5 DEF Fresh

\* A loss: what was held of the channel is held until its line is read.
LEMMA LoseFresh ==
  ASSUME IInv, OneChannel, inStep, Way, Fresh, NEW c \in Chans, Lose(c)
  PROVE  Way' /\ Fresh'
<1> USE DEF IInv, TypeReceiver
<1> DEFINE line == [kind |-> "loss", channel |-> c, sat |-> lock[c], run |-> run[c]]
<1>1. /\ console = << >> /\ udp = << >> /\ pending = NoLine /\ words[c] = NoWords
      /\ console' = <<line>> /\ udp' = << >> /\ pending' = NoLine
      /\ lock' = [lock EXCEPT ![c] = NoSat] /\ lock[c] # NoSat
      /\ UNCHANGED <<run, words, history, confirmed>>
  BY DEF Lose, Say, tableVars
<1>2. Head(console') = line /\ Len(console') = 1 /\ console' # << >>
  BY <1>1
<1>3. \A d \in Chans : lock'[d] # lock[c]
  BY <1>1 DEF OneChannel
<1>4. LineWay'
  BY <1>1, <1>2, <1>3 DEF LineWay
<1>5. Way'
  BY <1>1, <1>4 DEF Way, IsRun
<1>6. \A d \in Chans, p \in Sats : Holds(d, p) => Holds(d, p)'
  BY <1>1, <1>2 DEF Holds, Losing
<1> QED
  BY <1>1, <1>5, <1>6 DEF Fresh

\* A packet of the run a channel is in, or one that measures nothing, may be sent.
LEMMA SendWay ==
  ASSUME IInv, Way, UNCHANGED <<lock, run, words, console, pending>>,
         NEW c \in Chans, NEW s \in Sats, NEW r \in Runs, r = 0 \/ IsRun(c, s, r),
         udp' = Append(udp, [channel |-> c, sat |-> s, run |-> r])
  PROVE  Way'
<1>1. ASSUME NEW i \in 1..Len(udp'), udp'[i].run # 0
      PROVE  IsRun(udp'[i].channel, udp'[i].sat, udp'[i].run)
  <2>1. udp \in Seq(Packet) /\ [channel |-> c, sat |-> s, run |-> r] \in Packet
    BY DEF IInv, TypeStreams, Packet
  <2>2. Len(udp') = Len(udp) + 1
    BY <2>1
  <2>3. CASE i = Len(udp) + 1
    BY <1>1, <2>1, <2>3
  <2>4. CASE i \in 1..Len(udp)
    BY <1>1, <2>1, <2>4 DEF Way
  <2> QED
    BY <2>1, <2>2, <2>3, <2>4
<1> QED
  BY <1>1 DEF Way, LineWay, IsRun

\* The rest of what GNSS-SDR does leaves the runs and the tables alone.
LEMMA SendsFresh ==
  ASSUME IInv, inStep, Way, Fresh, NEW c \in Chans,
         (\E sends \in BOOLEAN : Track(c, sends)) \/ SendLast(c) \/ Decode(c)
  PROVE  Way' /\ Fresh'
<1> USE DEF IInv, TypeReceiver
<1>1. UNCHANGED <<lock, run, history, confirmed, pending>>
  BY DEF Track, SendLast, Decode, tableVars
<1>2. CASE \E sends \in BOOLEAN : Track(c, sends)
  <2> PICK sends \in BOOLEAN : Track(c, sends)
    BY <1>2
  <2> DEFINE held == [sat |-> lock[c], run |-> run[c]]
  <2>1. words' = [words EXCEPT ![c] = held] /\ console' = console
        /\ lock[c] \in Sats /\ run[c] \in Runs /\ IsRun(c, lock[c], run[c])
    BY DEF Track, IsRun
  <2>2. \A d \in Chans : words'[d] # NoWords => IsRun(d, words'[d].sat, words'[d].run)
    BY <2>1 DEF Way, IsRun
  <2>3. \A i \in 1..Len(udp') : udp'[i].run # 0 => IsRun(udp'[i].channel, udp'[i].sat, udp'[i].run)
    <3>1. CASE sends
      <4>1. udp \in Seq(Packet) /\ [channel |-> c, sat |-> lock[c], run |-> run[c]] \in Packet
        BY <2>1 DEF TypeStreams, Packet
      <4>2. udp' = Append(udp, [channel |-> c, sat |-> lock[c], run |-> run[c]])
        BY <3>1 DEF Track
      <4>3. ASSUME NEW i \in 1..Len(udp'), udp'[i].run # 0
            PROVE  IsRun(udp'[i].channel, udp'[i].sat, udp'[i].run)
        <5>1. CASE i = Len(udp) + 1
          BY <2>1, <4>1, <4>2, <5>1
        <5>2. CASE i \in 1..Len(udp)
          BY <4>1, <4>2, <4>3, <5>2 DEF Way
        <5> QED
          BY <4>1, <4>2, <5>1, <5>2
      <4> QED
        BY <4>3
    <3>2. CASE ~sends
      BY <3>2 DEF Track, Way
    <3> QED
      BY <3>1, <3>2
  <2> QED
    BY <1>1, <2>1, <2>2, <2>3 DEF Way, LineWay, IsRun, Fresh, Holds, Losing
<1>3. CASE SendLast(c)
  <2>1. leaving[c] \in Sats /\ 0 \in Runs /\ UNCHANGED <<words, console>>
    BY <1>3, BoundsAssumption DEF SendLast, Runs
  <2>2. Way'
    <3>1. CASE udp' = udp
      BY <1>1, <2>1, <3>1 DEF Way, LineWay, IsRun
    <3>2. CASE udp' = Append(udp, [channel |-> c, sat |-> leaving[c], run |-> 0])
      BY <1>1, <2>1, <3>2, SendWay
    <3> QED
      BY <1>3, <3>1, <3>2 DEF SendLast
  <2> QED
    BY <1>1, <2>1, <2>2 DEF Fresh, Holds, Losing
<1>4. CASE Decode(c)
  <2> DEFINE line == [kind |-> "nav", channel |-> c, sat |-> words[c].sat, run |-> words[c].run]
  <2>1. words' = [words EXCEPT ![c] = NoWords] /\ udp' = udp /\ words[c] # NoWords
    BY <1>4 DEF Decode
  <2>2. IsRun(c, words[c].sat, words[c].run)
    BY <2>1 DEF Way
  <2>3. CASE console' = console
    BY <1>1, <2>1, <2>3 DEF Way, LineWay, IsRun, Fresh, Holds, Losing
  <2>4. CASE Say("nav", c, words[c].sat, words[c].run)
    <3>1. console = << >> /\ pending = NoLine /\ console' = <<line>>
      BY <2>4 DEF Say
    <3>2. Head(console') = line /\ Len(console') = 1 /\ line.kind # "loss"
      BY <3>1
    <3>3. LineWay'
      BY <1>1, <2>2, <3>1, <3>2 DEF LineWay, IsRun
    <3> QED
      BY <1>1, <2>1, <3>1, <3>2, <3>3 DEF Way, IsRun, Fresh, Holds, Losing
  <2> QED
    BY <1>4, <2>3, <2>4 DEF Decode
<1> QED
  BY <1>2, <1>3, <1>4

\* A critical section keeps the tables fresh if it adds nothing but the run of a
\* tracked satellite, and forgets the one whose loss it reads.
LEMMA TablesFresh ==
  ASSUME Fresh, UNCHANGED <<lock, run>>,
         \A c \in Chans, s \in Sats : \A r \in history'[c][s] : r \in history[c][s] \/ IsRun(c, s, r),
         \A s \in Sats : \/ confirmed'[s] \in {0, confirmed[s]}
                         \/ \E c \in Chans : IsRun(c, s, confirmed'[s]),
         \A c \in Chans, s \in Sats :
           Losing(c, s) => Losing(c, s)' \/ (history'[c][s] = {} /\ confirmed'[s] = 0)
  PROVE  Fresh'
<1>1. ASSUME NEW c \in Chans, NEW s \in Sats, history'[c][s] # {}
      PROVE  Holds(c, s)' /\ history'[c][s] \subseteq {run'[c]}
  BY <1>1 DEF Fresh, Holds, IsRun
<1>2. ASSUME NEW s \in Sats, confirmed'[s] # 0
      PROVE  \E c \in Chans : Holds(c, s)' /\ confirmed'[s] = run'[c]
  <2>1. CASE \E c \in Chans : IsRun(c, s, confirmed'[s])
    BY <2>1 DEF Holds, IsRun
  <2>2. CASE confirmed'[s] = confirmed[s]
    <3> PICK c \in Chans : Holds(c, s) /\ confirmed[s] = run[c]
      BY <1>2, <2>2 DEF Fresh
    <3> QED
      BY <1>2, <2>2 DEF Holds
  <2> QED
    BY <1>2, <2>1, <2>2
<1> QED
  BY <1>1, <1>2 DEF Fresh

\* A new state of a satellite adds no measurement and confirms at most its own run.
LEMMA SetStateFresh ==
  ASSUME TypeTables, NEW c \in Chans, NEW s \in Sats, NEW new, NEW decoded,
         SetState(c, s, new, decoded)
  PROVE  /\ \A d \in Chans, p \in Sats : history'[d][p] \subseteq history[d][p]
         /\ \A p \in Sats \ {s} : confirmed'[p] \in {0, confirmed[p]}
         /\ confirmed'[s] \in {0, decoded, confirmed[s]}
         /\ new = "lost" /\ decoded = 0 => history'[c][s] = {} /\ confirmed'[s] = 0
<1>1. \A d \in Chans, p \in Sats : history'[d][p] \subseteq history[d][p]
  BY DEF SetState, ClearHistory, TypeTables
<1>2. /\ \A p \in Sats \ {s} : confirmed'[p] \in {0, confirmed[p]}
      /\ confirmed'[s] \in {0, decoded, confirmed[s]}
  BY DEF SetState
<1>3. ASSUME new = "lost", decoded = 0
      PROVE  history'[c][s] = {} /\ confirmed'[s] = 0
  BY <1>3 DEF SetState, ClearHistory, TypeTables, Demoted, Displaced
<1> QED
  BY <1>1, <1>2, <1>3

\* A line of tracking changes no run; one of a loss empties what was held.
LEMMA ReadLineFresh ==
  ASSUME IInv, inStep, Way, Fresh, ReadLine
  PROVE  Way' /\ Fresh'
<1> USE DEF IInv
<1> DEFINE line == Head(console)
           new == IF line.kind = "loss" THEN "lost" ELSE "tracking"
<1>1. /\ line \in Line /\ line.kind # "nav" /\ console # << >> /\ pending = NoLine
      /\ SetState(line.channel, line.sat, new, 0)
      /\ console' = Tail(console) /\ UNCHANGED <<lock, run, words, udp, pending>>
  BY StreamFacts DEF ReadLine, receiverVars
<1>2. line.channel \in Chans /\ line.sat \in Sats
  BY <1>1 DEF Line
<1>3. console' = << >>
  BY <1>1 DEF Way, LineWay, TypeStreams
<1>4. Way'
  BY <1>1, <1>3 DEF Way, LineWay, IsRun
<1>5. Fresh'
  <2>1. /\ \A d \in Chans, p \in Sats : history'[d][p] \subseteq history[d][p]
        /\ \A p \in Sats \ {line.sat} : confirmed'[p] \in {0, confirmed[p]}
        /\ confirmed'[line.sat] \in {0, confirmed[line.sat]}
        /\ new = "lost" => history'[line.channel][line.sat] = {} /\ confirmed'[line.sat] = 0
    <3> HIDE DEF line, new
    <3> QED
      BY <1>1, <1>2, SetStateFresh
  <2>2. \A p \in Sats : confirmed'[p] \in {0, confirmed[p]}
    BY <2>1
  <2>3. \A d \in Chans, p \in Sats : Losing(d, p) => history'[d][p] = {} /\ confirmed'[p] = 0
    BY <2>1 DEF Losing
  <2> HIDE DEF line, new
  <2> QED
    BY <1>1, <2>1, <2>2, <2>3, TablesFresh
<1> QED
  BY <1>4, <1>5

\* A message confirms the run its channel is in.
LEMMA ReadMessageFresh ==
  ASSUME IInv, inStep, Way, Fresh, ReadMessage
  PROVE  Way' /\ Fresh'
<1> USE DEF IInv
<1> DEFINE line == Head(console)
<1>1. /\ line \in Line /\ line.kind = "nav" /\ console # << >> /\ pending = NoLine
      /\ SetState(line.channel, line.sat, "tracking", line.run)
      /\ console' = Tail(console) /\ pending' = line /\ UNCHANGED <<lock, run, words, udp>>
  BY StreamFacts DEF ReadMessage, receiverVars
<1>2. line.channel \in Chans /\ line.sat \in Sats
  BY <1>1 DEF Line
<1>3. console' = << >> /\ IsRun(line.channel, line.sat, line.run)
  BY <1>1 DEF Way, LineWay, TypeStreams
<1>4. Way'
  BY <1>1, <1>3 DEF Way, LineWay, IsRun
<1>5. Fresh'
  <2>1. /\ \A d \in Chans, p \in Sats : history'[d][p] \subseteq history[d][p]
        /\ \A p \in Sats \ {line.sat} : confirmed'[p] \in {0, confirmed[p]}
        /\ confirmed'[line.sat] \in {0, line.run, confirmed[line.sat]}
    <3> HIDE DEF line
    <3> QED
      BY <1>1, <1>2, SetStateFresh
  <2>2. \A p \in Sats : \/ confirmed'[p] \in {0, confirmed[p]}
                        \/ \E d \in Chans : IsRun(d, p, confirmed'[p])
    BY <1>2, <1>3, <2>1
  <2>3. \A d \in Chans, p \in Sats : ~Losing(d, p)
    BY <1>1 DEF Losing
  <2> HIDE DEF line
  <2> QED
    BY <1>1, <2>1, <2>2, <2>3, TablesFresh
<1> QED
  BY <1>4, <1>5

\* Its C/N0 is of that run too.
LEMMA TakeSampleFresh ==
  ASSUME IInv, inStep, Way, Fresh, TakeSample
  PROVE  Way' /\ Fresh'
<1> USE DEF IInv
<1> DEFINE c == pending.channel
           s == pending.sat
<1>1. /\ pending \in Line /\ pending # NoLine /\ pending' = NoLine
      /\ UNCHANGED <<lock, run, words, udp, console, confirmed>>
  BY DEF TakeSample, receiverVars, TypeStreams
<1>2. c \in Chans /\ s \in Sats /\ pending.run \in Runs
  BY <1>1 DEF Line
<1>3. IsRun(c, s, pending.run)
  BY <1>1 DEF Way, LineWay
<1>4. Way'
  BY <1>1 DEF Way, LineWay, IsRun
<1>5. \A d \in Chans, p \in Sats : \A r \in history'[d][p] : r \in history[d][p] \/ IsRun(d, p, r)
  <2>1. CASE ~(stateOf[s] = "tracking" /\ chanOf[s] = c)
    BY <2>1 DEF TakeSample
  <2>2. CASE stateOf[s] = "tracking" /\ chanOf[s] = c
    <3> DEFINE other == heard[c] \notin {NoSat, s}
               cleared == IF other THEN {chanSat[c], s} ELSE {}
               kept == ClearHistory(c, cleared)
    <3>1. history' = [kept EXCEPT ![c][s] = @ \union {pending.run}]
      BY <2>2 DEF TakeSample
    <3>2. /\ kept \in [Chans -> [Sats -> SUBSET Runs]]
          /\ \A d \in Chans, p \in Sats : kept[d][p] \subseteq history[d][p]
      BY <1>2 DEF ClearHistory, TypeTables
    <3> HIDE DEF kept, c, s
    <3>3. ASSUME NEW d \in Chans, NEW p \in Sats
          PROVE  history'[d][p] = IF d = c /\ p = s THEN kept[d][p] \union {pending.run} ELSE kept[d][p]
      BY <1>2, <3>1, <3>2
    <3>4. ASSUME NEW d \in Chans, NEW p \in Sats, NEW r \in history'[d][p], r \notin history[d][p]
          PROVE  IsRun(d, p, r)
      <4>1. history'[d][p] = IF d = c /\ p = s THEN kept[d][p] \union {pending.run} ELSE kept[d][p]
        BY <3>3
      <4>2. r \notin kept[d][p]
        BY <3>2, <3>4
      <4>3. d = c /\ p = s /\ r = pending.run
        BY <3>4, <4>1, <4>2
      <4> QED
        BY <1>3, <4>3
    <3> QED
      BY <3>4
  <2> QED
    BY <2>1, <2>2
<1>6. \A d \in Chans, p \in Sats : Losing(d, p) => Losing(d, p)'
  BY <1>1 DEF Losing
<1> QED
  BY <1>1, <1>4, <1>5, <1>6, TablesFresh

\* So is the measurement of a packet.
LEMMA ReadPacketFresh ==
  ASSUME IInv, inStep, Way, Fresh, ReadPacket
  PROVE  Way' /\ Fresh'
<1> USE DEF IInv
<1> DEFINE c == Head(udp).channel
           s == Head(udp).sat
           r == Head(udp).run
           kept == ClearHistory(c, Displaced(c, s))
<1>1. /\ c \in Chans /\ s \in Sats /\ r \in Runs /\ udp # << >> /\ udp \in Seq(Packet)
      /\ udp' = Tail(udp) /\ UNCHANGED <<lock, run, words, console, pending>>
  BY StreamFacts DEF ReadPacket, receiverVars, TypeStreams, Packet
<1>2. r # 0 => IsRun(c, s, r)
  BY <1>1 DEF Way
<1>3. /\ confirmed' = [p \in Sats |-> IF p \in Demoted(c, s) THEN 0 ELSE confirmed[p]]
      /\ history' = [kept EXCEPT ![c][s] = IF r # 0 THEN @ \union {r} ELSE @]
  BY DEF ReadPacket
<1>4. Way'
  <2>1. \A i \in 1..Len(udp') : i + 1 \in 1..Len(udp) /\ udp'[i] = udp[i + 1]
    BY <1>1
  <2>2. \A i \in 1..Len(udp') : udp'[i].run # 0 => IsRun(udp'[i].channel, udp'[i].sat, udp'[i].run)
    BY <2>1 DEF Way
  <2> QED
    BY <1>1, <2>2 DEF Way, LineWay, IsRun
<1>5. /\ kept \in [Chans -> [Sats -> SUBSET Runs]]
      /\ \A d \in Chans, p \in Sats : kept[d][p] \subseteq history[d][p]
  BY <1>1 DEF ClearHistory, TypeTables
<1>6. \A p \in Sats : confirmed'[p] \in {0, confirmed[p]}
  BY <1>3
<1>7. \A d \in Chans, p \in Sats : Losing(d, p) => Losing(d, p)'
  BY <1>1 DEF Losing
<1>8. \A d \in Chans, p \in Sats : \A q \in history'[d][p] : q \in history[d][p] \/ IsRun(d, p, q)
  <2> HIDE DEF kept, c, s, r
  <2>1. ASSUME NEW d \in Chans, NEW p \in Sats
        PROVE  history'[d][p] = IF d = c /\ p = s /\ r # 0 THEN kept[d][p] \union {r} ELSE kept[d][p]
    <3>1. CASE d = c
      <4>1. history'[c] = [kept[c] EXCEPT ![s] = IF r # 0 THEN @ \union {r} ELSE @]
        BY <1>1, <1>3, <1>5
      <4>2. kept[c] \in [Sats -> SUBSET Runs]
        BY <1>1, <1>5
      <4> QED
        BY <1>1, <3>1, <4>1, <4>2
    <3>2. CASE d # c
      BY <1>1, <1>3, <1>5, <3>2
    <3> QED
      BY <3>1, <3>2
  <2>2. ASSUME NEW d \in Chans, NEW p \in Sats, NEW q \in history'[d][p], q \notin history[d][p]
        PROVE  IsRun(d, p, q)
    <3>1. history'[d][p] = IF d = c /\ p = s /\ r # 0 THEN kept[d][p] \union {r} ELSE kept[d][p]
      BY <2>1
    <3>2. q \notin kept[d][p]
      BY <1>5, <2>2
    <3>3. d = c /\ p = s /\ q = r /\ r # 0
      BY <2>2, <3>1, <3>2
    <3> QED
      BY <1>2, <3>3
  <2> QED
    BY <2>2
<1> QED
  BY <1>1, <1>4, <1>6, <1>7, <1>8, TablesFresh

\* At the start nothing is tracked, sent or measured.
LEMMA InitKeepsUp == Init => KeepsUp
BY NoSatAssumption DEF Init, KeepsUp, OneChannel, Way, LineWay, Fresh

\* Every step preserves it.
LEMMA NextKeepsUp == IInv /\ KeepsUp /\ [Next]_vars => KeepsUp'
<1> SUFFICES ASSUME IInv, KeepsUp, [Next]_vars, inStep
             PROVE  Way' /\ Fresh'
  BY OneChannelStep DEF KeepsUp
<1>0. OneChannel /\ Way /\ Fresh
  BY DEF KeepsUp
<1>1. CASE Receiver
  <2> PICK c \in Chans : \/ \E s \in Sats : Start(c, s)
                         \/ \E sends \in BOOLEAN : Track(c, sends)
                         \/ Lose(c) \/ SendLast(c) \/ Decode(c)
    BY <1>1 DEF Receiver
  <2> QED
    BY <1>0, StartFresh, LoseFresh, SendsFresh
<1>2. CASE UNCHANGED vars
  BY <1>0, <1>2 DEF vars, receiverVars, tableVars, Way, LineWay, IsRun, Fresh, Holds, Losing
<1> QED
  BY <1>0, <1>1, <1>2, ReadLineFresh, ReadMessageFresh, TakeSampleFresh, ReadPacketFresh DEF Next

\* While the readers keep up, the history of a tracked satellite and its
\* telemetry_confirmed are those of the run it is in.
THEOREM FreshRuns == Spec => []RunIsFresh
<1>1. Init => IInv /\ KeepsUp
  BY InitIInv, InitKeepsUp
<1>2. IInv /\ KeepsUp /\ [Next]_vars => (IInv /\ KeepsUp)'
  BY NextIInv, NextKeepsUp
<1>3. IInv /\ KeepsUp => RunIsFresh
  <2> SUFFICES ASSUME IInv, KeepsUp, inStep, AllRead, NEW c \in Chans, lock[c] # NoSat
               PROVE  history[c][lock[c]] \subseteq {run[c]} /\ confirmed[lock[c]] \in {0, run[c]}
    BY DEF RunIsFresh
  <2>1. lock[c] \in Sats
    BY DEF IInv, TypeReceiver
  <2>2. \A d \in Chans : ~Losing(d, lock[c])
    BY DEF AllRead, Losing
  <2> QED
    BY <2>1, <2>2 DEF KeepsUp, Fresh, Holds, OneChannel
<1> QED
  BY <1>1, <1>2, <1>3, PTL DEF Spec

-----------------------------------------------------------------------------
(* The channel: the strengthening.  While nobody gives a command or stops  *)
(* the receiver, the four threads are in one of seven situations (Calm),   *)
(* which name the message under way and what the grid speaks for; what     *)
(* commands can break is not claimed of other states, but a channel that   *)
(* acquires is awake in all of them.                                       *)

\* The values of the variables, a part of them at a time.
SatelliteTypes ==
    /\ prn \in SearchList /\ code \in SearchList /\ gridCode \in SearchList
    /\ evidence \subseteq SearchList

FlagTypes ==
    /\ blocking \in BOOLEAN /\ repeat \in BOOLEAN
    /\ active \in BOOLEAN /\ stepTwo \in BOOLEAN /\ handle \in BOOLEAN
    /\ standby \in BOOLEAN /\ stop \in BOOLEAN /\ ending \in BOOLEAN

StageTypes ==
    /\ fsm \in {"standby", "acquiring", "tracking", "failed"}
    /\ acqState \in 0..2
    /\ sched \in {"idle", "wait", "spawn"} /\ core \in {"off", "enter", "grid", "notify"}
    /\ rx \in {"idle", "activate"}
    /\ ctl \in {"loop", "code", "start", "activate", "stop", "deactivate",
                "detach", "join", "done"}

CountTypes ==
    view \in {0, 2, 3} /\ acqCount \in 0..1 /\ cmds \in 0..MaxCommands /\ dwell \in 0..MaxDwells

Event == {"negative", "lost"}
Report == {"failed", "acquired", "lost", "standby", "hotstart"}
TrackItem == [on : BOOLEAN, prn : SearchList, from : SUBSET SearchList]

MessageTypes == events \in Seq(Event) /\ queue \in Seq(Report) /\ trk \in TrackItem

ChannelTypes == SatelliteTypes /\ FlagTypes /\ StageTypes /\ CountTypes /\ MessageTypes

\* One search at a time, and no more dwells than configured.
SearchOrder ==
    /\ core # "off" => sched = "idle"
    /\ core \in {"off", "enter"} => dwell < MaxDwells
    /\ core = "grid" => dwell >= 1

\* While the control thread stops the search, the FSM stays where it put it.
StopHoldsFsm == ctl \in {"deactivate", "detach", "join"} => fsm = "standby"

\* A channel that acquires is active, or is told or about to be made so.
Negative == \E i \in DOMAIN events : events[i] = "negative"
Awake == fsm = "acquiring" => active \/ Negative \/ ctl = "activate" \/ rx = "activate"

\* The block has no search under way and starts the next one afresh; the port
\* of events and its receiver are empty.
AtRest == active = FALSE /\ core = "off" /\ sched = "idle" /\ dwell = 0 /\ stepTwo = FALSE
Quiet == events = <<>> /\ rx = "idle"

\* What the search under way has found speaks for the satellite it was given.
OwnEvidence ==
    /\ code = prn
    /\ core \in {"grid", "notify"} => gridCode = prn
    /\ (core \in {"off", "enter"} /\ (dwell >= 1 \/ stepTwo)) => evidence = {prn}
    /\ (core = "grid" /\ (dwell >= 2 \/ stepTwo)) => evidence = {prn}
    /\ core = "notify" => evidence = {prn}

\* The channel acquires: it is about to be activated, it searches, it has
\* found nothing, or it is about to be activated once more.
Acquiring ==
    fsm = "acquiring" /\ queue = <<>> /\ view = 2 /\ acqCount = 1 /\ trk.on = FALSE /\ code = prn

Activating   == Acquiring /\ ctl = "activate" /\ AtRest /\ Quiet
Searching    == Acquiring /\ ctl = "loop" /\ active = TRUE /\ Quiet /\ OwnEvidence
MissTold     == Acquiring /\ ctl = "loop" /\ AtRest /\ events = <<"negative">> /\ rx = "idle"
Reactivating == Acquiring /\ ctl = "loop" /\ AtRest /\ events = <<>> /\ rx = "activate"

\* The control thread has given the channel a satellite and is starting it.
Turning ==
    /\ ctl \in {"code", "start"} /\ (ctl = "start" => code = prn)
    /\ queue = <<>> /\ view = 2 /\ acqCount = 1

\* A search that found nothing, until the control thread has turned to another
\* satellite; tracking, with the control thread told of it or about to be; and
\* a loss, until the control thread starts the search again.
FailedSearch ==
    /\ fsm = "failed" /\ AtRest /\ Quiet /\ trk.on = FALSE
    /\ \/ ctl = "loop" /\ queue = <<"failed">> /\ view = 2 /\ acqCount = 1
       \/ Turning

Tracking ==
    /\ fsm = "tracking" /\ ctl = "loop" /\ AtRest /\ rx = "idle"
    /\ \/ queue = <<"acquired">> /\ view = 2 /\ acqCount = 1
       \/ queue = <<>> /\ view = 3 /\ acqCount = 0
    /\ \/ trk.on = TRUE /\ events = <<>> /\ trk.from = {trk.prn}
       \/ trk.on = FALSE /\ events = <<"lost">>

LostTrack ==
    /\ fsm = "standby" /\ AtRest /\ Quiet /\ trk.on = FALSE
    /\ \/ ctl = "loop" /\ queue = <<"acquired", "lost">> /\ view = 2 /\ acqCount = 1
       \/ ctl = "loop" /\ queue = <<"lost">> /\ view = 3 /\ acqCount = 0
       \/ Turning

Calm ==
    /\ standby = FALSE /\ ending = FALSE
    /\ \/ Activating \/ Searching \/ MissTold \/ Reactivating
       \/ FailedSearch \/ Tracking \/ LostTrack

ChannelIInv == ChannelTypes /\ SearchOrder /\ StopHoldsFsm /\ Awake /\ (Undisturbed => Calm)

-----------------------------------------------------------------------------
(* The initial state, and types.                                           *)

\* The types, one by one, are what the runs check as ChannelTypeOK.
LEMMA ChannelTypesSuffice == ChannelTypes => ChannelTypeOK
  BY DEF ChannelTypes, SatelliteTypes, FlagTypes, StageTypes, CountTypes, MessageTypes,
         Event, Report, TrackItem, ChannelTypeOK

\* The initial state has all the parts, with the search of the first satellite.
LEMMA ChannelInitial == ChannelInit => ChannelIInv
<1> SUFFICES ASSUME ChannelInit
             PROVE  ChannelIInv
  OBVIOUS
<1> USE ChannelAssumption DEF ChannelInit
<1>1. ChannelTypes
  <2>1. SatelliteTypes /\ StageTypes /\ CountTypes
    BY DEF SatelliteTypes, StageTypes, CountTypes
  <2>2. FlagTypes
    BY Zenon DEF FlagTypes
  <2>3. trk \in TrackItem
    BY DEF TrackItem, NotTracking
  <2>4. events \in Seq(Event) /\ queue \in Seq(Report)
    OBVIOUS
  <2> QED
    BY <2>1, <2>2, <2>3, <2>4 DEF ChannelTypes, MessageTypes
<1>2. SearchOrder /\ StopHoldsFsm /\ Awake
  BY DEF SearchOrder, StopHoldsFsm, Awake
<1>3. Calm
  BY DEF Calm, Acquiring, Searching, Quiet, OwnEvidence, NotTracking
<1> QED
  BY <1>1, <1>2, <1>3 DEF ChannelIInv

\* Every step of a thread, the configuration being what it was.
Step ==
    \/ Restart \/ Fill \/ Launch \/ WaitWorker \/ Spawn
    \/ Enter \/ MissAgain \/ Miss \/ Refine \/ Hit \/ Notify
    \/ ReceiveRepeat \/ Reactivate \/ Receive
    \/ Dispatch \/ Idle \/ SetCode \/ StartAcquisition \/ Activate
    \/ Leave \/ StopChannel \/ Deactivate \/ Detach \/ Join
    \/ LoseLock \/ Command \/ Signal

\* A step of the specification is one of these, or the end of the control thread.
LEMMA NextIsStep ==
  ASSUME [ChannelNext]_channelVars
  PROVE  (Step /\ UNCHANGED configVars) \/ UNCHANGED channelVars
  BY Zenon DEF ChannelNext, Sched, Core, Rx, Control, Outside, Terminated, Step

\* Satellites stay in the search list, flags Boolean, stages among those named.
LEMMA SatellitesTyped ==
  ASSUME SatelliteTypes, Step
  PROVE  SatelliteTypes'
<1>1. \/ UNCHANGED <<prn, code, gridCode, evidence>>
      \/ prn' \in SearchList /\ UNCHANGED <<code, gridCode, evidence>>
      \/ UNCHANGED <<prn, code, evidence>> /\ gridCode' = code
      \/ UNCHANGED <<prn, gridCode, evidence>> /\ code' = prn
      \/ UNCHANGED <<prn, code, gridCode>> /\ \E with \in {gridCode, code} : evidence' = Correlated(with)
  <2>1. CASE Restart \/ Fill \/ Launch \/ WaitWorker \/ Spawn
    BY <2>1 DEF Restart, Fill, Launch, WaitWorker, Spawn, fsmVars, acqVars
  <2>2. CASE Enter
    BY <2>2 DEF Enter, fsmVars
  <2>3. CASE MissAgain \/ Miss \/ Refine \/ Hit
    BY <2>3 DEF MissAgain, Miss, Refine, Hit
  <2>4. CASE Notify \/ ReceiveRepeat \/ Reactivate \/ Receive
    BY <2>4 DEF Notify, ReceiveRepeat, Reactivate, Receive, fsmVars, acqVars
  <2>5. CASE LoseLock \/ Command \/ Signal
    BY <2>5 DEF LoseLock, Command, Signal, fsmVars, acqVars
  <2>6. CASE Dispatch
    BY <2>6 DEF Dispatch, Standby, Hotstart, Failed, Acquired, Lost, Discard, Assign, acqVars
  <2>7. CASE Idle \/ SetCode
    BY <2>7 DEF Idle, Assign, SetCode, fsmVars, acqVars
  <2>8. CASE StartAcquisition \/ Activate \/ Leave \/ StopChannel
    BY <2>8 DEF StartAcquisition, Activate, Leave, StopChannel, fsmVars, acqVars
  <2>9. CASE Deactivate \/ Detach \/ Join
    BY <2>9 DEF Deactivate, Detach, Join, fsmVars, acqVars
  <2> QED
    BY <2>1, <2>2, <2>3, <2>4, <2>5, <2>6, <2>7, <2>8, <2>9 DEF Step
<1>2. \A with \in {gridCode, code} : Correlated(with) \subseteq SearchList
  BY DEF Correlated, SatelliteTypes
<1> QED
  BY <1>1, <1>2 DEF SatelliteTypes

LEMMA FlagsTyped ==
  ASSUME FlagTypes, Step, UNCHANGED configVars
  PROVE  FlagTypes'
<1> USE DEF FlagTypes, configVars, fsmVars, acqVars, viewVars, ctlVars
<1>1. CASE Restart \/ Fill
  BY <1>1, Zenon DEF Restart, Fill
<1>2. CASE Launch \/ WaitWorker
  BY <1>2, Zenon DEF Launch, WaitWorker
<1>3. CASE Spawn \/ Enter
  BY <1>3, Zenon DEF Spawn, Enter
<1>4. CASE MissAgain \/ Miss
  BY <1>4, Zenon DEF MissAgain, Miss, Concluded
<1>5. CASE Refine \/ Hit
  BY <1>5, Zenon DEF Refine, Hit
<1>6. CASE Notify \/ ReceiveRepeat
  BY <1>6, Zenon DEF Notify, ReceiveRepeat, Concluded
<1>7. CASE Reactivate \/ Receive
  BY <1>7, Zenon DEF Reactivate, Receive, Reset
<1>8. CASE LoseLock \/ Command
  BY <1>8, Zenon DEF LoseLock, Command
<1>9. CASE Signal
  BY <1>9, Zenon DEF Signal
<1>10. CASE Dispatch
  BY <1>10, Zenon DEF Dispatch, Standby, Hotstart, Failed, Acquired, Lost, Discard
<1>11. CASE Idle \/ SetCode
  BY <1>11, Zenon DEF Idle, SetCode
<1>12. CASE StartAcquisition \/ Activate
  BY <1>12, Zenon DEF StartAcquisition, Activate, Reset
<1>13. CASE Leave \/ StopChannel
  BY <1>13, Zenon DEF Leave, StopChannel
<1>14. CASE Deactivate \/ Detach
  BY <1>14, Zenon DEF Deactivate, Detach
<1>15. CASE Join
  BY <1>15, Zenon DEF Join
<1> QED
  BY <1>1, <1>2, <1>3, <1>4, <1>5, <1>6, <1>7, <1>8, <1>9, <1>10, <1>11, <1>12, <1>13, <1>14, <1>15, Zenon DEF Step

LEMMA StagesTyped ==
  ASSUME StageTypes, Step
  PROVE  StageTypes'
<1> USE DEF StageTypes, fsmVars, acqVars, threadVars, msgVars, viewVars, ctlVars
<1>1. CASE Restart \/ Fill \/ Launch \/ WaitWorker \/ Spawn \/ Enter
  BY <1>1 DEF Restart, Fill, Launch, WaitWorker, Spawn, Enter
<1>2. CASE MissAgain \/ Miss \/ Refine \/ Hit
  BY <1>2 DEF MissAgain, Miss, Refine, Hit, Concluded
<1>3. CASE Notify \/ ReceiveRepeat \/ Reactivate
  BY <1>3 DEF Notify, Event_valid_acquisition, Concluded, ReceiveRepeat, Reactivate
<1>4. CASE Receive \/ LoseLock \/ Command \/ Signal
  BY <1>4 DEF Receive, Event_failed_acquisition_no_repeat, Event_failed_tracking_standby,
              LoseLock, Command, Signal
<1>5. CASE Dispatch
  BY <1>5 DEF Dispatch, Standby, Hotstart, Failed, Acquired, Lost, Discard, Assign
<1>6. CASE Idle \/ SetCode \/ StartAcquisition \/ Activate
  BY <1>6 DEF Idle, Assign, SetCode, StartAcquisition, Activate
<1>7. CASE Leave \/ StopChannel
  BY <1>7 DEF Leave, StopChannel, Stopped
<1>8. CASE Deactivate \/ Detach \/ Join
  BY <1>8 DEF Deactivate, Detach, Join, Stopped
<1> QED
  BY <1>1, <1>2, <1>3, <1>4, <1>5, <1>6, <1>7, <1>8 DEF Step

\* Messages, reports and what is tracked stay of their kinds.
LEMMA MessagesTyped ==
  ASSUME MessageTypes, SatelliteTypes, Step
  PROVE  MessageTypes'
<1> USE DEF MessageTypes, msgVars, viewVars, ctlVars
<1>1. CASE Notify
  <2>1. queue' \in Seq(Report)
    <3>1. queue' = queue \/ queue' = Append(queue, "acquired")
      BY <1>1 DEF Notify, Event_valid_acquisition
    <3> QED
      BY <3>1 DEF Report
  <2>2. trk' = trk \/ trk' = [on |-> TRUE, prn |-> prn, from |-> evidence]
    BY <1>1 DEF Notify, Event_valid_acquisition
  <2>3. trk' \in TrackItem
    <3>1. prn \in SearchList /\ evidence \in SUBSET SearchList
      BY DEF SatelliteTypes
    <3>2. [on |-> TRUE, prn |-> prn, from |-> evidence] \in TrackItem
      BY <3>1, Zenon DEF TrackItem
    <3> QED
      BY <2>2, <3>2
  <2> QED
    BY <1>1, <2>1, <2>3 DEF Notify
<1>2. CASE LoseLock \/ StopChannel
  <2>1. events' \in Seq(Event) /\ queue' = queue
    <3>1. (events' = events \/ events' = Append(events, "lost")) /\ queue' = queue
      BY <1>2 DEF LoseLock, StopChannel
    <3> QED
      BY <3>1 DEF Event
  <2>2. trk' = trk \/ trk' = [trk EXCEPT !.on = FALSE]
    BY <1>2 DEF LoseLock, StopChannel
  <2>3. FALSE \in BOOLEAN
    OBVIOUS
  <2>4. trk' \in TrackItem
    BY <2>2, <2>3 DEF TrackItem
  <2> QED
    BY <2>1, <2>4
<1>3. CASE Miss \/ ReceiveRepeat \/ Receive
  <2>1. events' \in Seq(Event) /\ trk' = trk
    <3>1. (events' = Append(events, "negative") \/ (events # <<>> /\ events' = Tail(events))) /\ trk' = trk
      BY <1>3 DEF Miss, ReceiveRepeat, Receive
    <3>2. "negative" \in Event /\ events \in Seq(Event)
      BY DEF Event
    <3>3. CASE events' = Append(events, "negative")
      BY <3>1, <3>2, <3>3
    <3>4. CASE events # <<>> /\ events' = Tail(events)
      BY <3>1, <3>2, <3>4
    <3> QED
      BY <3>1, <3>3, <3>4
  <2>2. queue' \in Seq(Report)
    <3>1. \/ queue' = queue
          \/ queue' = Append(queue, "failed")
          \/ queue' = Append(queue, "lost")
      <4>1. CASE Miss \/ ReceiveRepeat
        BY <4>1 DEF Miss, ReceiveRepeat, ctlVars
      <4>2. CASE Receive
        BY <4>2 DEF Receive, Event_failed_acquisition_no_repeat, Event_failed_tracking_standby
      <4> QED
        BY <1>3, <4>1, <4>2
    <3>2. "failed" \in Report /\ "lost" \in Report
      BY DEF Report
    <3> QED
      BY <3>1, <3>2
  <2> QED
    BY <2>1, <2>2
<1>4. CASE Command \/ Dispatch
  BY <1>4 DEF Command, Dispatch, Report
<1>5. CASE Restart \/ Fill \/ Launch \/ WaitWorker \/ Spawn \/ Enter \/ MissAgain \/ Refine \/ Hit \/ Signal
  BY <1>5 DEF Restart, Fill, Launch, WaitWorker, Spawn, Enter, MissAgain, Refine, Hit, Signal
<1>6. CASE Reactivate \/ Idle \/ SetCode \/ StartAcquisition \/ Activate \/ Leave \/ Deactivate \/ Detach \/ Join
  BY <1>6 DEF Reactivate, Idle, SetCode, StartAcquisition, Activate, Leave, Deactivate, Detach, Join
<1> QED
  BY <1>1, <1>2, <1>3, <1>4, <1>5, <1>6 DEF Step

\* The counters, and the order of a search that bounds its dwells.
LEMMA SearchIsOrderly ==
  ASSUME CountTypes, SearchOrder, Step
  PROVE  CountTypes' /\ SearchOrder'
<1> USE ChannelAssumption DEF CountTypes, SearchOrder, acqVars, threadVars, viewVars, ctlVars
<1>1. CASE Restart \/ Fill \/ Launch \/ WaitWorker \/ Spawn
  BY <1>1 DEF Restart, Fill, Launch, WaitWorker, Spawn, Working
<1>2. CASE Enter \/ MissAgain \/ Miss
  BY <1>2 DEF Enter, CountDwell, MissAgain, Miss, Concluded
<1>3. CASE Refine \/ Hit \/ Notify
  BY <1>3 DEF Refine, Hit, Notify, Concluded
<1>4. CASE ReceiveRepeat \/ Reactivate \/ Receive \/ LoseLock \/ Command \/ Signal
  BY <1>4 DEF ReceiveRepeat, Reactivate, Receive, LoseLock, Command, Signal
<1>5. CASE Dispatch
  BY <1>5 DEF Dispatch, Standby, Hotstart, Failed, Acquired, Lost, Discard, Assign, OneLess
<1>6. CASE Idle \/ SetCode \/ StartAcquisition \/ Activate
  BY <1>6 DEF Idle, Assign, SetCode, StartAcquisition, Activate
<1>7. CASE Leave \/ StopChannel \/ Deactivate \/ Detach \/ Join
  BY <1>7 DEF Leave, StopChannel, Deactivate, Detach, Join
<1> QED
  BY <1>1, <1>2, <1>3, <1>4, <1>5, <1>6, <1>7 DEF Step

-----------------------------------------------------------------------------
(* The FSM that is stopped, and the search that is alive.                  *)

\* Only the control thread leaves a stop, and no FSM event comes in between.
LEMMA StopKeepsFsm ==
  ASSUME StopHoldsFsm, Step
  PROVE  StopHoldsFsm'
<1> USE DEF StopHoldsFsm, FsmHeld, fsmVars, ctlVars
<1>1. CASE Restart \/ Fill \/ Launch \/ WaitWorker \/ Spawn \/ Enter
  BY <1>1 DEF Restart, Fill, Launch, WaitWorker, Spawn, Enter
<1>2. CASE MissAgain \/ Miss \/ Refine \/ Hit
  BY <1>2 DEF MissAgain, Miss, Refine, Hit
<1>3. CASE Notify \/ ReceiveRepeat \/ Reactivate \/ Receive
  BY <1>3 DEF Notify, ReceiveRepeat, Reactivate, Receive
<1>4. CASE LoseLock \/ Command \/ Signal
  BY <1>4 DEF LoseLock, Command, Signal
<1>5. CASE Dispatch
  BY <1>5 DEF Dispatch, Standby, Hotstart, Failed, Acquired, Lost, Discard, Assign
<1>6. CASE Idle \/ SetCode \/ StartAcquisition \/ Activate
  BY <1>6 DEF Idle, Assign, SetCode, StartAcquisition, Activate
<1>7. CASE Leave \/ StopChannel
  BY <1>7 DEF Leave, StopChannel, Stopped
<1>8. CASE Deactivate \/ Detach \/ Join
  BY <1>8 DEF Deactivate, Detach, Join, Stopped
<1> QED
  BY <1>1, <1>2, <1>3, <1>4, <1>5, <1>6, <1>7, <1>8 DEF Step

\* A message put on the port leaves the negative acquisitions there are.
LEMMA NegativeAppended ==
  ASSUME events \in Seq(Event), NEW e \in Event, events' = Append(events, e), Negative \/ e = "negative"
  PROVE  Negative'
<1>1. CASE Negative
  <2>1. PICK i \in DOMAIN events : events[i] = "negative"
    BY <1>1 DEF Negative
  <2>2. i \in DOMAIN events' /\ events'[i] = "negative"
    BY <2>1
  <2> QED
    BY <2>2 DEF Negative
<1>2. CASE e = "negative"
  <2>1. Len(events) + 1 \in DOMAIN events' /\ events'[Len(events) + 1] = "negative"
    BY <1>2
  <2> QED
    BY <2>1 DEF Negative
<1> QED
  BY <1>1, <1>2

\* Another message taken from it, too.
LEMMA NegativeKept ==
  ASSUME events \in Seq(Event), events # <<>>, Head(events) # "negative", events' = Tail(events), Negative
  PROVE  Negative'
<1>1. PICK i \in DOMAIN events : events[i] = "negative"
  BY DEF Negative
<1>2. i \in 2..Len(events)
  BY <1>1
<1>3. i - 1 \in DOMAIN events' /\ events'[i - 1] = "negative"
  BY <1>1, <1>2
<1> QED
  BY <1>3 DEF Negative

\* No step puts a channel to sleep that acquires.
LEMMA StaysAwake ==
  ASSUME Awake, StopHoldsFsm, MessageTypes, Step
  PROVE  Awake'
<1> USE DEF Awake
<1>1. CASE Restart \/ Fill \/ Launch \/ WaitWorker \/ Spawn \/ Enter \/ MissAgain \/ Refine \/ Hit
  BY <1>1 DEF Restart, Fill, Launch, WaitWorker, Spawn, Enter, MissAgain, Refine, Hit, Negative,
              fsmVars, acqVars, msgVars, ctlVars
<1>2. CASE Miss
  <2>1. events \in Seq(Event) /\ "negative" \in Event /\ events' = Append(events, "negative")
    BY <1>2 DEF Miss, MessageTypes, Event
  <2> QED
    BY <2>1, NegativeAppended
<1>3. CASE Notify
  BY <1>3 DEF Notify, Event_valid_acquisition, Negative
<1>4. CASE LoseLock
  <2>1. events \in Seq(Event) /\ "lost" \in Event /\ events' = Append(events, "lost")
    BY <1>4 DEF LoseLock, MessageTypes, Event
  <2>2. Negative => Negative'
    BY <2>1, NegativeAppended
  <2> QED
    BY <1>4, <2>2 DEF LoseLock, fsmVars, acqVars, ctlVars
<1>5. CASE ReceiveRepeat
  BY <1>5 DEF ReceiveRepeat, fsmVars
<1>6. CASE Reactivate \/ Activate
  BY <1>6 DEF Reactivate, Activate, Reset
<1>7. CASE Receive
  <2>1. CASE Head(events) = "negative"
    BY <1>7, <2>1 DEF Receive, Event_failed_acquisition_no_repeat
  <2>2. CASE Head(events) = "lost"
    <3>1. Negative => Negative'
      BY <1>7, <2>2, NegativeKept DEF Receive, MessageTypes
    <3>2. fsm' = "acquiring" => fsm = "acquiring"
      BY <1>7, <2>2 DEF Receive, Event_failed_tracking_standby
    <3> QED
      BY <1>7, <3>1, <3>2 DEF Receive, acqVars
  <2> QED
    BY <1>7, <2>1, <2>2 DEF Receive
<1>8. CASE Command \/ Signal
  BY <1>8 DEF Command, Signal, Negative, fsmVars, acqVars, msgVars
<1>9. CASE Dispatch
  BY <1>9 DEF Dispatch, Negative, acqVars, msgVars
<1>10. CASE Idle \/ SetCode \/ StartAcquisition \/ Leave
  BY <1>10 DEF Idle, SetCode, StartAcquisition, Leave, Negative, fsmVars, acqVars, msgVars
<1>11. CASE StopChannel
  BY <1>11 DEF StopChannel, Negative, acqVars, msgVars
<1>12. CASE Deactivate
  BY <1>12 DEF Deactivate, StopHoldsFsm, fsmVars
<1>13. CASE Detach \/ Join
  BY <1>13 DEF Detach, Join, Negative, fsmVars, acqVars, msgVars
<1> QED
  BY <1>1, <1>2, <1>3, <1>4, <1>5, <1>6, <1>7, <1>8, <1>9, <1>10, <1>11, <1>12, <1>13 DEF Step

-----------------------------------------------------------------------------
(* The channel nobody has given a command or stopped.                      *)

\* What the steps of an undisturbed run find.
Calmly == standby = FALSE /\ ending = FALSE /\ stop = FALSE

\* A channel about to be activated is.
LEMMA ActivatingIsCalm ==
  ASSUME Activating, Calmly, Step, ~Command, ~Signal
  PROVE  Calm'
<1> USE DEF Activating, Acquiring, AtRest, Quiet, Calmly
<1>1. Activate
  BY DEF Step, Restart, Fill, Launch, WaitWorker, Spawn, Working, Enter, MissAgain, Miss, Refine, Hit, Notify,
         ReceiveRepeat, Reactivate, Receive, Dispatch, Idle, SetCode, StartAcquisition, Leave,
         StopChannel, Deactivate, Detach, Join, LoseLock
<1>2. Searching'
  BY <1>1 DEF Activate, Reset, Searching, OwnEvidence, fsmVars, threadVars, msgVars, viewVars
<1> QED
  BY <1>1, <1>2 DEF Calm, Activate, viewVars

\* A negative acquisition is repeated, or reported to the control thread.
LEMMA MissTurns ==
  ASSUME MissTold \/ Reactivating, Calmly, Step, ~Command, ~Signal
  PROVE  Calm'
<1> USE DEF Acquiring, AtRest, Calmly
<1>1. ReceiveRepeat \/ Reactivate \/ Receive
  BY DEF MissTold, Reactivating, Step, Restart, Fill, Launch, WaitWorker, Spawn, Working, Enter, MissAgain,
         Miss, Refine, Hit, Notify, Dispatch, Idle, SetCode, StartAcquisition, Activate, Leave,
         StopChannel, Deactivate, Detach, Join, LoseLock
<1>2. CASE ReceiveRepeat
  <2>1. Tail(<<"negative">>) = <<>>
    OBVIOUS
  <2>2. Reactivating'
    BY <1>2, <2>1 DEF ReceiveRepeat, MissTold, Reactivating, fsmVars, acqVars, threadVars, viewVars, ctlVars
  <2> QED
    BY <1>2, <2>2 DEF Calm, ReceiveRepeat, viewVars, ctlVars
<1>3. CASE Reactivate
  <2>1. Searching'
    BY <1>3 DEF Reactivate, Reset, MissTold, Reactivating, Searching, Quiet, OwnEvidence, fsmVars, threadVars,
                viewVars, ctlVars
  <2> QED
    BY <1>3, <2>1 DEF Calm, Reactivate, viewVars, ctlVars
<1>4. CASE Receive
  <2>1. Tail(<<"negative">>) = <<>> /\ Head(<<"negative">>) = "negative" /\ Append(<<>>, "failed") = <<"failed">>
    OBVIOUS
  <2>2. FailedSearch'
    BY <1>4, <2>1 DEF Receive, Event_failed_acquisition_no_repeat, Reactivating, MissTold, FailedSearch, Quiet,
                      acqVars, threadVars, viewVars
  <2> QED
    BY <1>4, <2>2 DEF Calm, Receive, viewVars
<1> QED
  BY <1>1, <1>2, <1>3, <1>4

\* A search under way goes on, finds nothing or tells the FSM of a satellite.
LEMMA SearchStep ==
  ASSUME Searching, Calmly, Step, ~Command, ~Signal
  PROVE  \/ Restart \/ Fill \/ Launch \/ WaitWorker \/ Spawn \/ Enter
         \/ MissAgain \/ Miss \/ Refine \/ Hit \/ Notify
  BY DEF Searching, Acquiring, Quiet, Calmly, Step, ReceiveRepeat, Reactivate, Receive, Dispatch, Idle, SetCode,
         StartAcquisition, Activate, Leave, StopChannel, Deactivate, Detach, Join, LoseLock

\* Whatever the search reads of the local code, it is that of its satellite.
LEMMA CorrelatesOwn ==
  ASSUME OwnEvidence, SearchOrder, core = "grid", CountTypes, NEW with \in {gridCode, code}
  PROVE  Correlated(with) = {prn}
<1> USE ChannelAssumption DEF OwnEvidence, SearchOrder, CountTypes
<1>1. with = prn
  OBVIOUS
<1>2. dwell \in Nat /\ dwell >= 1
  OBVIOUS
<1>3. (dwell = 1 /\ ~stepTwo) \/ evidence = {prn}
  BY <1>2
<1> QED
  BY <1>1, <1>3 DEF Correlated

\* Every step of a search leaves the channel calm.
LEMMA SearchIsCalm ==
  ASSUME Searching, SearchOrder, CountTypes, StageTypes, Calmly, Step, ~Command, ~Signal
  PROVE  Calm'
<1> USE DEF Searching, Acquiring, Quiet, Calmly
<1>1. SUFFICES UNCHANGED <<view, acqCount, ctl, standby, ending>> => Calm'
  BY SearchStep DEF Restart, Fill, Launch, WaitWorker, Spawn, Enter, MissAgain, Miss, Refine, Hit, Notify,
                    ctlVars, viewVars
<1>2. HAVE UNCHANGED <<view, acqCount, ctl, standby, ending>>
<1>3. CASE Restart \/ Fill
  <2>1. UNCHANGED <<fsm, prn, evidence, active, dwell, stepTwo, code, gridCode, core, msgVars, queue>>
    BY <1>3 DEF Restart, Fill, fsmVars, threadVars, msgVars, ctlVars
  <2>2. Searching'
    BY <1>2, <2>1 DEF OwnEvidence, msgVars
  <2> QED
    BY <1>2, <2>2 DEF Calm
<1>4. CASE Launch \/ WaitWorker \/ Spawn
  <2>1. core' = core \/ (core' = "enter" /\ core \in {"off", "enter"})
    BY <1>4 DEF Launch, WaitWorker, Spawn, Working, StageTypes, SearchOrder
  <2>2. UNCHANGED <<fsm, prn, evidence, active, dwell, stepTwo, code, gridCode, msgVars, queue>>
    BY <1>4 DEF Launch, WaitWorker, Spawn, fsmVars, acqVars, msgVars, ctlVars
  <2>3. Searching'
    BY <1>2, <2>1, <2>2 DEF OwnEvidence, msgVars
  <2> QED
    BY <1>2, <2>3 DEF Calm
<1>5. CASE Enter
  <2>1. Searching'
    BY <1>2, <1>5 DEF Enter, CountDwell, OwnEvidence, CountTypes, fsmVars, msgVars, ctlVars
  <2> QED
    BY <1>2, <2>1 DEF Calm
<1>6. CASE MissAgain \/ Refine \/ Hit
  <2>1. evidence' = {prn}
    BY <1>6, CorrelatesOwn DEF MissAgain, Refine, Hit
  <2>2. core' \in {"off", "notify"} /\ (core' = "notify" => core = "grid")
    BY <1>6 DEF MissAgain, Refine, Hit
  <2>3. UNCHANGED <<fsm, prn, active, code, gridCode, msgVars, queue>>
    BY <1>6 DEF MissAgain, Refine, Hit, msgVars, ctlVars
  <2>4. Searching'
    BY <1>2, <2>1, <2>2, <2>3 DEF OwnEvidence, msgVars
  <2> QED
    BY <1>2, <2>4 DEF Calm
<1>7. CASE Miss
  <2>1. Append(<<>>, "negative") = <<"negative">>
    OBVIOUS
  <2>2. MissTold'
    BY <1>2, <1>7, <2>1 DEF Miss, Concluded, MissTold, AtRest, SearchOrder, ctlVars
  <2> QED
    BY <1>2, <2>2 DEF Calm
<1>8. CASE Notify
  <2>1. Append(<<>>, "acquired") = <<"acquired">>
    OBVIOUS
  <2>2. evidence = {prn}
    BY <1>8 DEF Notify, OwnEvidence
  <2>3. trk'.on = TRUE /\ trk'.from = {trk'.prn} /\ queue' = <<"acquired">> /\ fsm' = "tracking"
    BY <1>8, <2>1, <2>2 DEF Notify, Event_valid_acquisition
  <2>4. Tracking'
    BY <1>2, <1>8, <2>3 DEF Notify, Concluded, Tracking, AtRest, SearchOrder
  <2> QED
    BY <1>2, <2>4 DEF Calm
<1> QED
  BY <1>3, <1>4, <1>5, <1>6, <1>7, <1>8, SearchStep

\* After a failed search the control thread assigns a satellite and starts it.
LEMMA FailureIsCalm ==
  ASSUME FailedSearch, Calmly, SatelliteTypes, Step, ~Command, ~Signal
  PROVE  Calm'
<1> USE DEF FailedSearch, Turning, AtRest, Quiet, Calmly
<1>1. Dispatch \/ SetCode \/ StartAcquisition
  BY DEF Step, Restart, Fill, Launch, WaitWorker, Spawn, Working, Enter, MissAgain, Miss, Refine, Hit, Notify,
         ReceiveRepeat, Reactivate, Receive, Idle, Activate, Leave, StopChannel, Deactivate, Detach, Join, LoseLock
<1>2. CASE Dispatch
  <2>1. Head(<<"failed">>) = "failed" /\ Tail(<<"failed">>) = <<>>
    OBVIOUS
  <2>2. Failed /\ queue' = <<>> /\ UNCHANGED <<fsm, acqVars, threadVars, msgVars, ending>>
    BY <1>2, <2>1 DEF Dispatch
  <2>3. FailedSearch' /\ standby' = FALSE
    BY <2>2 DEF Failed, Assign, OneLess, acqVars, threadVars, msgVars
  <2> QED
    BY <2>2, <2>3 DEF Calm
<1>3. CASE SetCode
  <2>1. FailedSearch'
    BY <1>3 DEF SetCode, fsmVars, threadVars, msgVars, viewVars
  <2> QED
    BY <1>3, <2>1 DEF Calm, SetCode, viewVars
<1>4. CASE StartAcquisition
  <2>1. Activating'
    BY <1>4 DEF StartAcquisition, Activating, Acquiring, acqVars, threadVars, msgVars, viewVars
  <2> QED
    BY <1>4, <2>1 DEF Calm, StartAcquisition, viewVars
<1> QED
  BY <1>1, <1>2, <1>3, <1>4

\* A queue of one report and one more.
LEMMA AppendedPair ==
  ASSUME NEW a, NEW b
  PROVE  Append(<<a>>, b) = <<a, b>>
<1>1. ASSUME NEW S, NEW s \in Seq(S), NEW t \in Seq(S), Len(s) = Len(t), \A i \in 1..Len(s) : s[i] = t[i]
      PROVE  s = t
  BY <1>1
<1> DEFINE S == {a, b}
<1> DEFINE s == Append(<<a>>, b)
<1> DEFINE t == <<a, b>>
<1>2. s \in Seq(S) /\ Len(s) = 2 /\ s[1] = a /\ s[2] = b
  OBVIOUS
<1>3. t \in Seq(S) /\ Len(t) = 2 /\ t[1] = a /\ t[2] = b
  OBVIOUS
<1>4. \A i \in 1..2 : i = 1 \/ i = 2
  OBVIOUS
<1> HIDE DEF S, s, t
<1>5. s = t
  BY <1>1, <1>2, <1>3, <1>4
<1> QED
  BY <1>5 DEF s, t

\* Tracking is reported, loses its satellite and reports that.
LEMMA TrackingIsCalm ==
  ASSUME Tracking, Calmly, Step, ~Command, ~Signal
  PROVE  Calm'
<1> USE DEF Tracking, AtRest, Calmly
<1>1. Dispatch \/ Receive \/ LoseLock
  BY DEF Step, Restart, Fill, Launch, WaitWorker, Spawn, Working, Enter, MissAgain, Miss, Refine, Hit, Notify,
         ReceiveRepeat, Reactivate, Idle, SetCode, StartAcquisition, Activate, Leave, StopChannel, Deactivate,
         Detach, Join
<1>2. CASE Dispatch
  <2>1. Head(<<"acquired">>) = "acquired" /\ Tail(<<"acquired">>) = <<>>
    OBVIOUS
  <2>2. Acquired /\ queue' = <<>> /\ acqCount = 1 /\ UNCHANGED <<fsm, acqVars, threadVars, msgVars, ending>>
    BY <1>2, <2>1 DEF Dispatch
  <2>3. Tracking' /\ standby' = FALSE
    BY <2>2 DEF Acquired, OneLess, acqVars, threadVars, msgVars
  <2> QED
    BY <2>2, <2>3 DEF Calm
<1>3. CASE Receive
  <2>1. /\ Head(<<"lost">>) = "lost" /\ Tail(<<"lost">>) = <<>> /\ Append(<<>>, "lost") = <<"lost">>
    OBVIOUS
  <2>2. trk.on = FALSE /\ events = <<"lost">>
    BY <1>3 DEF Receive
  <2>3. fsm' = "standby" /\ queue' = Append(queue, "lost") /\ events' = <<>>
    BY <1>3, <2>1, <2>2 DEF Receive, Event_failed_tracking_standby
  <2>4. LostTrack'
    BY <1>3, AppendedPair, <2>1, <2>2, <2>3 DEF Receive, LostTrack, Quiet, acqVars, threadVars, viewVars
  <2> QED
    BY <1>3, <2>4 DEF Calm, Receive, viewVars
<1>4. CASE LoseLock
  <2>1. Append(<<>>, "lost") = <<"lost">>
    OBVIOUS
  <2>2. trk'.on = FALSE /\ events' = <<"lost">>
    BY <1>4, <2>1 DEF LoseLock
  <2>3. Tracking'
    BY <1>4, <2>2 DEF LoseLock, fsmVars, acqVars, threadVars, ctlVars, viewVars
  <2> QED
    BY <1>4, <2>3 DEF Calm, LoseLock, ctlVars, viewVars
<1> QED
  BY <1>1, <1>2, <1>3, <1>4

\* A loss is answered by another search.
LEMMA LossIsCalm ==
  ASSUME LostTrack, Calmly, Step, ~Command, ~Signal
  PROVE  Calm'
<1> USE DEF LostTrack, Turning, AtRest, Quiet, Calmly
<1>1. Dispatch \/ SetCode \/ StartAcquisition
  BY DEF Step, Restart, Fill, Launch, WaitWorker, Spawn, Working, Enter, MissAgain, Miss, Refine, Hit, Notify,
         ReceiveRepeat, Reactivate, Receive, Idle, Activate, Leave, StopChannel, Deactivate, Detach, Join, LoseLock
<1>2. CASE Dispatch
  <2>1. /\ Head(<<"lost">>) = "lost" /\ Tail(<<"lost">>) = <<>>
        /\ Head(<<"acquired", "lost">>) = "acquired" /\ Tail(<<"acquired", "lost">>) = <<"lost">>
    OBVIOUS
  <2>2. ctl = "loop" /\ UNCHANGED <<fsm, acqVars, threadVars, msgVars, ending>>
    BY <1>2 DEF Dispatch
  <2>3. CASE queue = <<"acquired", "lost">>
    <3>1. Acquired /\ queue' = <<"lost">>
      BY <1>2, <2>1, <2>3 DEF Dispatch
    <3>2. LostTrack' /\ standby' = FALSE
      BY <2>2, <2>3, <3>1 DEF Acquired, OneLess, acqVars, threadVars, msgVars
    <3> QED
      BY <2>2, <3>2 DEF Calm
  <2>4. CASE queue = <<"lost">>
    <3>1. Lost /\ queue' = <<>> /\ acqCount = 0
      BY <1>2, <2>1, <2>4 DEF Dispatch
    <3>2. LostTrack' /\ standby' = FALSE
      BY <2>2, <2>4, <3>1 DEF Lost, acqVars, threadVars, msgVars
    <3> QED
      BY <2>2, <3>2 DEF Calm
  <2> QED
    BY <1>2, <2>3, <2>4 DEF Dispatch
<1>3. CASE SetCode
  <2>1. LostTrack'
    BY <1>3 DEF SetCode, fsmVars, threadVars, msgVars, viewVars
  <2> QED
    BY <1>3, <2>1 DEF Calm, SetCode, viewVars
<1>4. CASE StartAcquisition
  <2>1. Activating'
    BY <1>4 DEF StartAcquisition, Activating, Acquiring, acqVars, threadVars, msgVars, viewVars
  <2> QED
    BY <1>4, <2>1 DEF Calm, StartAcquisition, viewVars
<1> QED
  BY <1>1, <1>2, <1>3, <1>4

-----------------------------------------------------------------------------
(* The invariant and what follows from it.                                 *)

\* An undisturbed channel is calm after each step.
LEMMA StaysCalm ==
  ASSUME ChannelIInv, Step, UNCHANGED configVars, Undisturbed'
  PROVE  Calm'
<1>1. cmds' = 0 /\ cmds \in Nat
  BY DEF ChannelIInv, ChannelTypes, CountTypes, Undisturbed, ChannelAssumption
<1>2. ~Command /\ ~Signal
  BY <1>1 DEF Command, Signal, Undisturbed
<1>3. cmds = 0 /\ stop = FALSE
  <2>1. UNCHANGED <<stop, cmds>>
    BY <1>2 DEF Step, Restart, Fill, Launch, WaitWorker, Spawn, Enter, MissAgain, Miss, Refine, Hit, Notify,
                ReceiveRepeat, Reactivate, Receive, Dispatch, Idle, SetCode, StartAcquisition, Activate, Leave,
                StopChannel, Deactivate, Detach, Join, LoseLock, ctlVars
  <2>2. stop \in BOOLEAN
    BY DEF ChannelIInv, ChannelTypes, FlagTypes
  <2> QED
    BY <1>1, <2>1, <2>2 DEF Undisturbed
<1>4. Calm
  BY <1>3 DEF ChannelIInv, Undisturbed
<1>5. Calmly
  BY <1>3, <1>4 DEF Calm, Calmly
<1>6. SearchOrder /\ CountTypes /\ StageTypes /\ SatelliteTypes
  BY DEF ChannelIInv, ChannelTypes
<1> QED
  BY <1>2, <1>4, <1>5, <1>6, ActivatingIsCalm, SearchIsCalm, MissTurns, FailureIsCalm, TrackingIsCalm, LossIsCalm
     DEF Calm

\* The invariant is inductive.
LEMMA ChannelStep == ChannelIInv /\ [ChannelNext]_channelVars => ChannelIInv'
<1> SUFFICES ASSUME ChannelIInv, [ChannelNext]_channelVars
             PROVE  ChannelIInv'
  OBVIOUS
<1>1. CASE Step /\ UNCHANGED configVars
  <2>1. /\ SatelliteTypes /\ FlagTypes /\ StageTypes /\ CountTypes /\ MessageTypes
        /\ SearchOrder /\ StopHoldsFsm /\ Awake
    BY DEF ChannelIInv, ChannelTypes
  <2>2. ChannelTypes' /\ SearchOrder'
    BY <1>1, <2>1, SatellitesTyped, FlagsTyped, StagesTyped, MessagesTyped, SearchIsOrderly DEF ChannelTypes
  <2>3. StopHoldsFsm' /\ Awake'
    BY <1>1, <2>1, StopKeepsFsm, StaysAwake
  <2>4. Undisturbed' => Calm'
    BY <1>1, StaysCalm
  <2> QED
    BY <2>2, <2>3, <2>4 DEF ChannelIInv
<1>2. CASE UNCHANGED channelVars
  <2>1. /\ UNCHANGED <<blocking, repeat, fsm, prn, evidence, active, acqState, dwell, stepTwo, code, handle>>
        /\ UNCHANGED <<gridCode, sched, core, trk, events, rx, ctl, queue, view, acqCount, standby, ending>>
        /\ UNCHANGED <<stop, cmds>>
    BY <1>2 DEF channelVars, configVars, fsmVars, acqVars, threadVars, msgVars, viewVars, ctlVars
  <2>2. ChannelTypes' /\ SearchOrder'
    BY <2>1 DEF ChannelIInv, ChannelTypes, SatelliteTypes, FlagTypes, StageTypes, CountTypes, MessageTypes,
                SearchOrder
  <2>3. StopHoldsFsm' /\ Awake'
    BY <2>1 DEF ChannelIInv, StopHoldsFsm, Awake, Negative
  <2>4. Undisturbed' = Undisturbed /\ Calm' = Calm
    BY <2>1 DEF Undisturbed, Calm, Activating, Searching, MissTold, Reactivating, FailedSearch, Tracking,
                LostTrack, Acquiring, Turning, AtRest, Quiet, OwnEvidence
  <2> QED
    BY <2>2, <2>3, <2>4 DEF ChannelIInv
<1> QED
  BY <1>1, <1>2, NextIsStep

\* The strengthened invariant holds in every state the channel can reach.
THEOREM ChannelInductive == ChannelSpec => []ChannelIInv
<1>1. ChannelInit => ChannelIInv
  BY ChannelInitial
<1>2. ChannelIInv /\ [ChannelNext]_channelVars => ChannelIInv'
  BY ChannelStep
<1> QED
  BY <1>1, <1>2, PTL DEF ChannelSpec

\* The two locks never wait for each other, a channel that acquires has
\* something under way, and the control thread knows the state of the FSM
\* (channel_fsm.cc, pcps_acquisition.cc, gnss_flowgraph.cc, control_thread.cc).
THEOREM ChannelStaysAlive == ChannelSpec => []ChannelIsAlive
<1>1. ChannelIInv => ChannelIsAlive
  <2> SUFFICES ASSUME ChannelIInv
               PROVE  ChannelIsAlive
    OBVIOUS
  <2>1. ChannelTypeOK
    BY ChannelTypesSuffice DEF ChannelIInv
  <2>2. AcquiringIsAlive
    BY DEF ChannelIInv, Awake, Negative, AcquiringIsAlive
  <2>3. NoLockCycle
    BY DEF ChannelIInv, Calm, Activating, Searching, MissTold, Reactivating, FailedSearch, Tracking, LostTrack,
           Turning, AtRest, Quiet, NoLockCycle, FsmHeld, SetHeld
  <2>4. ControlKnows
    BY DEF ChannelIInv, Calm, Activating, Searching, MissTold, Reactivating, FailedSearch, Tracking, LostTrack,
           Acquiring, Turning, ControlKnows
  <2> QED
    BY <2>1, <2>2, <2>3, <2>4 DEF ChannelIsAlive
<1> QED
  BY <1>1, ChannelInductive, PTL

\* A satellite is tracked from what was found searching for that satellite
\* alone (pcps_acquisition.cc:584, dll_pll_veml_tracking.cc:791).
THEOREM TrackedStaysAcquired == ChannelSpec => []TrackedIsAcquired
<1>1. ChannelIInv => TrackedIsAcquired
  BY DEF ChannelIInv, Calm, Activating, Searching, MissTold, Reactivating, FailedSearch, Tracking, LostTrack,
         Acquiring, TrackedIsAcquired
<1> QED
  BY <1>1, ChannelInductive, PTL

-----------------------------------------------------------------------------
(* TelemetryDecoder: remainders, of which its clocks are made.             *)

LEMMA ModRange ==
  ASSUME NEW n \in Nat \ {0}, NEW a \in Int
  PROVE  a % n \in 0 .. n - 1
  OBVIOUS

LEMMA DivMod ==
  ASSUME NEW n \in Nat \ {0}, NEW a \in Int
  PROVE  \E q \in Int : a = n * q + (a % n)
<1>1. a \div n \in Int /\ a = n * (a \div n) + (a % n)
  OBVIOUS
<1> QED
  BY <1>1

LEMMA Quotient ==
  ASSUME NEW n \in Nat \ {0}, NEW q \in Int, NEW p \in Int, NEW r \in 0 .. n - 1, NEW s \in 0 .. n - 1,
         n * q + r = n * p + s
  PROVE  q = p /\ r = s
<1>1. CASE q > p
  <2>1. PICK d \in Nat : q = p + 1 + d
    <3>1. q - p - 1 \in Nat /\ q = p + 1 + (q - p - 1)
      BY <1>1
    <3> QED
      BY <3>1
  <2>2. n * q = n * p + n + n * d
    BY <2>1
  <2>3. n * d \in Nat /\ n * p \in Int
    OBVIOUS
  <2> QED
    BY <2>2, <2>3
<1>2. CASE q < p
  <2>1. PICK d \in Nat : p = q + 1 + d
    <3>1. p - q - 1 \in Nat /\ p = q + 1 + (p - q - 1)
      BY <1>2
    <3> QED
      BY <3>1
  <2>2. n * p = n * q + n + n * d
    BY <2>1
  <2>3. n * d \in Nat /\ n * q \in Int
    OBVIOUS
  <2> QED
    BY <2>2, <2>3
<1>3. CASE q = p
  BY <1>3
<1> QED
  BY <1>1, <1>2, <1>3

LEMMA ModIs ==
  ASSUME NEW n \in Nat \ {0}, NEW q \in Int, NEW r \in 0 .. n - 1
  PROVE  (n * q + r) % n = r
<1> DEFINE a == n * q + r
<1> DEFINE s == a % n
<1>1. a \in Int
  OBVIOUS
<1>2. PICK p \in Int : a = n * p + s
  BY <1>1, DivMod
<1>3. s \in 0 .. n - 1
  BY <1>1, ModRange
<1> HIDE DEF s
<1>4. n * q + r = n * p + s
  BY <1>2
<1>5. r = s
  BY <1>3, <1>4, Quotient
<1> QED
  BY <1>5 DEF s

LEMMA ModSmall ==
  ASSUME NEW n \in Nat \ {0}, NEW a \in 0 .. n - 1
  PROVE  a % n = a
  OBVIOUS

LEMMA ModNext ==
  ASSUME NEW n \in Nat \ {0}, NEW a \in Int
  PROVE  (a + 1) % n = IF a % n = n - 1 THEN 0 ELSE (a % n) + 1
<1>1. PICK q \in Int : a = n * q + (a % n)
  BY DivMod
<1>2. a % n \in 0 .. n - 1
  BY ModRange
<1>3. CASE a % n = n - 1
  <2>1. a + 1 = n * (q + 1) + 0
    BY <1>1, <1>3
  <2>2. q + 1 \in Int /\ 0 \in 0 .. n - 1
    OBVIOUS
  <2>3. (n * (q + 1) + 0) % n = 0
    BY <2>2, ModIs
  <2> QED
    BY <1>3, <2>1, <2>3
<1>4. CASE a % n # n - 1
  <2>1. (a % n) + 1 \in 0 .. n - 1
    BY <1>2, <1>4
  <2>2. (n * q + ((a % n) + 1)) % n = (a % n) + 1
    BY <2>1, ModIs
  <2>3. a + 1 = n * q + ((a % n) + 1)
    BY <1>1, <1>2
  <2> QED
    BY <1>4, <2>2, <2>3
<1> QED
  BY <1>3, <1>4

LEMMA ModAgain ==
  ASSUME NEW n \in Nat \ {0}, NEW a \in Int
  PROVE  ((a % n) + 1) % n = (a + 1) % n
<1>1. a % n \in 0 .. n - 1
  BY ModRange
<1>2. (a % n) % n = a % n
  BY <1>1, ModSmall
<1>3. a % n \in Int
  BY <1>1
<1> QED
  BY <1>2, <1>3, ModNext

LEMMA Multiple ==
  ASSUME NEW n \in Nat \ {0}, NEW a \in Int, a % n = 0
  PROVE  \E q \in Int : a = n * q
<1>1. PICK q \in Int : a = n * q + (a % n)
  BY DivMod
<1> QED
  BY <1>1

\* Multiples of f less than w: nearer than f on the circle, they are equal.
LEMMA MultiplesApart ==
  ASSUME NEW f \in Nat \ {0}, NEW w \in Nat \ {0}, w % f = 0,
         NEW x \in 0 .. w - 1, x % f = 0, NEW y \in 0 .. w - 1, y % f = 0,
         (x - y) % w < f
  PROVE  x = y
<1>1. PICK k \in Int : w = f * k
  <2>1. w \in Int
    OBVIOUS
  <2> QED
    BY <2>1, Multiple
<1>2. PICK i \in Int : x = f * i
  <2>1. x \in Int
    OBVIOUS
  <2> QED
    BY <2>1, Multiple
<1>3. PICK j \in Int : y = f * j
  <2>1. y \in Int
    OBVIOUS
  <2> QED
    BY <2>1, Multiple
<1> DEFINE e == (x - y) % w
<1>4. PICK q \in Int : x - y = w * q + e
  <2>1. x - y \in Int
    OBVIOUS
  <2> QED
    BY <2>1, DivMod
<1>5. e \in 0 .. f - 1
  <2>1. x - y \in Int
    OBVIOUS
  <2>2. (x - y) % w \in 0 .. w - 1
    BY <2>1, ModRange
  <2> QED
    BY <2>2
<1> HIDE DEF e
<1>6. e = 0
  <2>1. w * q = f * (k * q) /\ k * q \in Int
    BY <1>1
  <2>2. x - y = f * (i - j) /\ i - j \in Int
    BY <1>2, <1>3
  <2>3. f * (i - j) + 0 = f * (k * q) + e /\ 0 \in 0 .. f - 1
    <3>1. x - y = f * (k * q) + e
      BY <1>4, <2>1
    <3>2. f * (i - j) = f * (k * q) + e
      BY <2>2, <3>1
    <3>3. f * (i - j) \in Int
      BY <2>2
    <3> QED
      BY <3>2, <3>3
  <2> DEFINE a == i - j
  <2> DEFINE b == k * q
  <2>4. a \in Int /\ b \in Int /\ f * a + 0 = f * b + e
    BY <2>1, <2>2, <2>3
  <2> HIDE DEF a, b
  <2> QED
    BY <1>5, <2>3, <2>4, Quotient
<1>7. w * q + y = w * 0 + x
  <2>1. w * q \in Int
    OBVIOUS
  <2> QED
    BY <1>4, <1>6, <2>1
<1> QED
  BY <1>7, Quotient

LEMMA ModTurn ==
  ASSUME NEW n \in Nat \ {0}, NEW a \in Int
  PROVE  (a + n) % n = a % n
<1> DEFINE r == a % n
<1>1. PICK q \in Int : a = n * q + r
  BY DivMod
<1>2. r \in 0 .. n - 1
  BY ModRange
<1> HIDE DEF r
<1>3. a + n = n * (q + 1) + r
  BY <1>1, <1>2
<1>4. (n * (q + 1) + r) % n = r
  <2>1. q + 1 \in Int
    OBVIOUS
  <2> QED
    BY <1>2, <2>1, ModIs
<1> QED
  BY <1>3, <1>4 DEF r

\* A clock that counts from a time of week on shows that time and what has
\* passed since; so does the other, a symbol later.
LEMMA ClockTicks ==
  ASSUME NEW w \in Nat \ {0}, NEW a \in Nat, NEW b \in 0 .. w - 1, NEW x \in Int,
         (a + b) % w = x % w
  PROVE  (a + ((b + 1) % w)) % w = (x + 1) % w
<1>1. (a + b + 1) % w = (x + 1) % w
  <2>1. a + b \in Int
    OBVIOUS
  <2> QED
    BY <2>1, ModNext
<1>2. CASE b + 1 < w
  <2>1. (b + 1) % w = b + 1
    BY <1>2, ModSmall
  <2> QED
    BY <1>1, <2>1
<1>3. CASE b + 1 = w
  <2>1. (b + 1) % w = 0
    <3>1. w = w * 1 + 0 /\ 1 \in Int /\ 0 \in 0 .. w - 1
      OBVIOUS
    <3>2. (w * 1 + 0) % w = 0
      BY <3>1, ModIs
    <3> QED
      BY <1>3, <3>1, <3>2
  <2>2. (a + w) % w = a % w
    <3>1. a \in Int
      OBVIOUS
    <3> QED
      BY <3>1, ModTurn
  <2>3. a + b + 1 = a + w
    BY <1>3
  <2>4. a + 0 = a
    OBVIOUS
  <2> QED
    BY <1>1, <2>1, <2>2, <2>3, <2>4
<1> QED
  BY <1>2, <1>3

LEMMA ModTurns ==
  ASSUME NEW n \in Nat \ {0}, NEW b \in Int, NEW d \in Int
  PROVE  (b + n * d) % n = b % n
<1> DEFINE r == b % n
<1>1. PICK q \in Int : b = n * q + r
  BY DivMod
<1>2. r \in 0 .. n - 1
  BY ModRange
<1> HIDE DEF r
<1>3. b + n * d = n * (q + d) + r /\ q + d \in Int
  <2>1. n * (q + d) = n * q + n * d
    OBVIOUS
  <2>2. n * q \in Int /\ n * d \in Int
    OBVIOUS
  <2> QED
    BY <1>1, <1>2, <2>1, <2>2
<1>4. (n * (q + d) + r) % n = r
  BY <1>2, <1>3, ModIs
<1> QED
  BY <1>3, <1>4 DEF r

\* Whole turns make no difference.
LEMMA ModLess ==
  ASSUME NEW n \in Nat \ {0}, NEW a \in Int, NEW c \in Int
  PROVE  (a - c) % n = ((a % n) - c) % n /\ (c - a) % n = (c - (a % n)) % n
<1> DEFINE r == a % n
<1>1. PICK p \in Int : a = n * p + r
  BY DivMod
<1>2. r \in Int
  BY ModRange
<1> HIDE DEF r
<1>3. (a - c) % n = (r - c) % n
  <2> DEFINE y == r - c
  <2>1. y \in Int /\ a - c = y + n * p
    <3>1. n * p \in Int
      OBVIOUS
    <3> QED
      BY <1>1, <1>2, <3>1
  <2> HIDE DEF y
  <2>2. (y + n * p) % n = y % n
    BY <2>1, ModTurns
  <2> QED
    BY <2>1, <2>2 DEF y
<1>4. (c - a) % n = (c - r) % n
  <2> DEFINE y == c - a
  <2>1. y \in Int /\ c - r = y + n * p
    <3>1. n * p \in Int
      OBVIOUS
    <3> QED
      BY <1>1, <1>2, <3>1
  <2> HIDE DEF y
  <2>2. (y + n * p) % n = y % n
    BY <2>1, ModTurns
  <2> QED
    BY <2>1, <2>2 DEF y
<1> QED
  BY <1>3, <1>4 DEF r

LEMMA ModDown ==
  ASSUME NEW f \in Nat \ {0}, NEW w \in Nat \ {0}, w % f = 0, NEW a \in Int, a % f = 0
  PROVE  (a % w) % f = 0
<1> DEFINE r == a % w
<1>1. PICK q \in Int : a = w * q + r
  BY DivMod
<1>2. PICK k \in Int : w = f * k
  <2>1. w \in Int
    OBVIOUS
  <2> QED
    BY <2>1, Multiple
<1>3. PICK i \in Int : a = f * i
  BY Multiple
<1>4. r \in Int
  BY ModRange
<1> HIDE DEF r
<1>5. r = f * (i - (k * q)) + 0 /\ i - (k * q) \in Int /\ 0 \in 0 .. f - 1
  <2>1. w * q = f * (k * q) /\ k * q \in Int
    BY <1>2
  <2>2. f * (i - (k * q)) = f * i - f * (k * q)
    BY <2>1
  <2>3. f * i \in Int /\ f * (k * q) \in Int
    BY <2>1
  <2> QED
    BY <1>1, <1>3, <1>4, <2>1, <2>2, <2>3
<1>6. (f * (i - (k * q)) + 0) % f = 0
  BY <1>5, ModIs
<1>7. r % f = 0
  BY <1>5, <1>6
<1> QED
  BY <1>7 DEF r

-----------------------------------------------------------------------------
(* The decoder: the strengthening.                                         *)

\* No frame says zero, which the decoder takes for no time of week.
NoZeroTow == Horizon < Week /\ 0 \notin WrongTows

NumberTypes ==
    /\ stat \in {0, 1} /\ buffered \in 0 .. Frame /\ sinceSync \in 0 .. Frame
    /\ silence \in 0 .. Silent + 1 /\ errors \in 0 .. 2
    /\ tow \in Nat /\ last \in Nat /\ sinceTow \in 0 .. Week - 1
    /\ now \in Nat /\ received \in 0 .. Frame /\ good \in Nat
    /\ wrongFor \in Nat /\ wrongs \in Nat

BitTypes ==
    sent \in BOOLEAN /\ inverted \in BOOLEAN /\ towSet \in BOOLEAN /\ have \in BOOLEAN /\ flipped \in BOOLEAN
    /\ carried \in BOOLEAN

\* There is a time of week in state 1, and only there; the buffer is full
\* then, and what was good was received, and what was received is buffered.
Shape ==
    /\ towSet <=> stat = 1
    /\ stat = 1 => buffered = Frame /\ sinceSync < Frame
    /\ have => buffered > 0
    /\ received <= buffered
    /\ good < Frame => good <= received
    /\ good >= Frame => received = Frame

-----------------------------------------------------------------------------
(* What one symbol does.                                                   *)

Kept(intact) == wrongs' = wrongs /\ good' = IF intact THEN Least(good + 1, 6 * Frame) ELSE 0
Misheard == good' = 0 /\ wrongs < MaxWrongs /\ wrongs' = wrongs + 1

\* A frame is heard to say h.
HeardAs(h, intact) ==
    \/ Whole /\ h = NextFrame /\ Kept(intact)
    \/ ~Whole /\ h \in WrongTows /\ Misheard

\* What a frame leaves that is accepted, before or in its turn.
Accepts(h) ==
    /\ Consistent(h)
    /\ stat' = 1 /\ errors' = 0 /\ sinceSync' = 0 /\ silence' = 0
    /\ tow' = h /\ towSet' = TRUE /\ have' = TRUE /\ last' = h /\ sinceTow' = 0
    /\ stat = 0 => buffered' = Frame
    /\ stat = 1 => Due /\ inverted' = inverted
    /\ Whole => inverted' = flipped
    /\ inverted' \in BOOLEAN

\* What one leaves that is found and contradicts the last.
Refuses ==
    /\ stat = 0 /\ stat' = 0 /\ errors' = errors /\ sinceSync' = 0 /\ Count
    /\ tow' = tow /\ towSet' = FALSE /\ inverted' \in BOOLEAN

Outcome(intact) ==
    \/ NoFrame /\ Kept(intact)
    \/ Between /\ Kept(intact)
    \/ ~(Whole /\ Passes) /\ NotCompared /\ FrameFails /\ Kept(intact)
    \/ \E h : HeardAs(h, intact) /\ Accepts(h)
    \/ \E h : HeardAs(h, intact) /\ ~Consistent(h) /\ Compare(h) /\ Refuses
    \/ \E h : HeardAs(h, intact) /\ ~Consistent(h) /\ Compare(h) /\ FrameFails /\ (Whole => Passes)

Symbol(intact) ==
    /\ now < Horizon /\ now' = now + 1
    /\ Received(intact) /\ Carry /\ Separation
    /\ flipped' = flipped
    /\ wrongFor' = IF towSet' /\ ~Right' THEN Least(wrongFor + 1, 6 * Frame) ELSE 0
    /\ Outcome(intact)

\* The time a frame says is that of its end, or a wrong one.
LEMMA HeardTime ==
  ASSUME NoZeroTow, NumberTypes, NEW intact, NEW h, now < Horizon, HeardAs(h, intact)
  PROVE  h \in Nat \ {0} /\ h % Frame = 0 /\ (Whole => h = now + 1 /\ (now + 1) % Frame = 0 /\ h < Week)
<1> USE DecoderAssumption
<1>0. Frame \in Nat \ {0} /\ Week \in Nat \ {0} /\ Horizon \in Nat /\ now \in Nat
  BY DEF NumberTypes
<1>1. CASE Whole /\ h = NextFrame
  <2>1. now + 1 \in 0 .. Week - 1
    BY <1>0 DEF NoZeroTow
  <2>2. (now + 1) % Week = now + 1
    BY <1>0, <2>1, ModSmall
  <2>3. now % Frame = Frame - 1
    BY <1>1 DEF Whole
  <2>4. (now + 1) % Frame = 0
    <3>1. now \in Int
      BY <1>0
    <3> QED
      BY <1>0, <2>3, <3>1, ModNext
  <2> QED
    BY <1>0, <1>1, <2>1, <2>2, <2>4 DEF NextFrame
<1>2. CASE ~Whole /\ h \in WrongTows
  <2>1. h \in Nat /\ h % Frame = 0 /\ h # 0
    BY <1>2 DEF NoZeroTow
  <2> QED
    BY <1>0, <1>2, <2>1
<1> QED
  BY <1>1, <1>2 DEF HeardAs

\* A call of general_work is one of these outcomes.
LEMMA WorkIsSymbol ==
  ASSUME NoZeroTow, NumberTypes, BitTypes, Work
  PROVE  \E intact \in BOOLEAN : Symbol(intact)
<1>1. PICK intact \in BOOLEAN :
        /\ Received(intact)
        /\ \/ (HearRight \/ HearNothing) /\ Kept(intact)
           \/ HearWrong /\ Misheard
  BY Zenon DEF Work, Kept, Misheard, HearWrong
<1>2. now < Horizon
  BY DEF Work
<1>8. SUFFICES Outcome(intact)
  BY <1>1, Zenon DEF Work, Symbol
<1>3. ASSUME NEW h, HeardAs(h, intact), Found(h), Whole => inverted' = flipped, inverted' \in BOOLEAN
      PROVE  Outcome(intact)
  <2>1. h # 0
    BY <1>2, <1>3, HeardTime
  <2>2. CASE Consistent(h)
    <3>1. Accepts(h)
      BY <1>3, <2>1, <2>2 DEF Found, Compare, Accept, Adopt, Accepts
    <3> QED
      BY <1>3, <3>1 DEF Outcome
  <2>3. CASE ~Consistent(h)
    <3>1. Compare(h) /\ Refuses
      BY <1>3, <2>3 DEF Found, Refuses
    <3> QED
      BY <1>3, <2>3, <3>1 DEF Outcome
  <2> QED
    BY <2>2, <2>3
<1>4. ASSUME NEW h, HeardAs(h, intact), Confirmed(h), Whole => Passes
      PROVE  Outcome(intact)
  <2>1. h # 0
    BY <1>2, <1>4, HeardTime
  <2>2. stat # 0 /\ inverted' \in BOOLEAN
    <3>1. inverted' \in BOOLEAN
      BY <1>4, Zenon DEF Confirmed, BitTypes
    <3> QED
      BY <1>4, <3>1 DEF Confirmed, Due
  <2>3. Accepts(h)
    BY <1>4, <2>1, <2>2, Zenon DEF Confirmed, Compare, Accept, Adopt, Accepts, Passes
  <2> QED
    BY <1>4, <2>3, Zenon DEF Outcome
<1>5. CASE HearNothing /\ Kept(intact)
  BY <1>5, Zenon DEF HearNothing, Outcome
<1>6. CASE HearRight /\ Kept(intact)
  <2>1. HeardAs(NextFrame, intact)
    BY <1>6 DEF HearRight, HeardAs
  <2>2. CASE Found(NextFrame) /\ inverted' = flipped
    <3>1. inverted' \in BOOLEAN
      BY <2>2, Zenon DEF BitTypes
    <3> QED
      BY <1>3, <2>1, <2>2, <3>1, Zenon
  <2>3. CASE Passes /\ Confirmed(NextFrame)
    BY <1>4, <2>1, <2>3, Zenon
  <2>4. CASE Passes /\ ~Consistent(NextFrame) /\ Compare(NextFrame) /\ FrameFails
    BY <2>1, <2>4, Zenon DEF Outcome
  <2> QED
    BY <1>6, <2>2, <2>3, <2>4, Zenon DEF HearRight
<1>7. CASE HearWrong /\ Misheard
  <2>1. ~Whole
    BY <1>7 DEF HearWrong
  <2>2. PICK h \in WrongTows : \/ Found(h) /\ inverted' \in BOOLEAN
                               \/ Confirmed(h)
                               \/ ~Consistent(h) /\ Compare(h) /\ FrameFails
    BY <1>7 DEF HearWrong
  <2>3. HeardAs(h, intact)
    BY <1>7, <2>1 DEF HeardAs
  <2>4. CASE Found(h) /\ inverted' \in BOOLEAN
    BY <1>3, <2>1, <2>3, <2>4, Zenon
  <2>5. CASE Confirmed(h)
    BY <1>4, <2>1, <2>3, <2>5, Zenon
  <2>6. CASE ~Consistent(h) /\ Compare(h) /\ FrameFails
    BY <2>1, <2>3, <2>6, Zenon DEF Outcome
  <2> QED
    BY <2>2, <2>4, <2>5, <2>6, Zenon
<1> QED
  BY <1>1, <1>5, <1>6, <1>7, Zenon

-----------------------------------------------------------------------------
(* Types, and the shape of the decoder's state.                            *)

LEMMA Parameters ==
  /\ Frame \in Nat \ {0} /\ Preamble \in Nat \ {0} /\ Week \in Nat \ {0} /\ Silent \in Nat \ {0}
  /\ Preamble < Frame /\ Frame <= Silent /\ Week % Frame = 0
  BY DecoderAssumption

\* A symbol into the buffer.
LEMMA BufferCounts ==
  ASSUME NumberTypes, Shape, NEW intact \in BOOLEAN, Received(intact)
  PROVE  /\ buffered' \in 0 .. Frame /\ buffered' > 0 /\ received' \in 0 .. Frame /\ received' <= buffered'
         /\ buffered = Frame => buffered' = Frame /\ Symbols = 1
         /\ buffered > 0 => Symbols = 1
         /\ Symbols \in 1 .. Frame
         /\ intact => (good + 1 < Frame => good + 1 <= received') /\ (good + 1 >= Frame => received' = Frame)
<1> USE Parameters DEF NumberTypes, Shape, Received, Symbols, Inserted, Least
<1>1. CASE buffered = 0
  <2>1. Inserted = Preamble /\ Symbols = Preamble + 1 /\ buffered' = Preamble + 1
    BY <1>1
  <2>2. received' \in {0, 1, Preamble + 1} /\ (intact => received' >= 1)
    BY <1>1
  <2>3. good = 0
    BY <1>1
  <2> QED
    BY <1>1, <2>1, <2>2, <2>3
<1>2. CASE buffered # 0
  <2>1. Symbols = 1
    BY <1>2
  <2>2. buffered' = Least(buffered + 1, Frame)
    BY <2>1
  <2>3. received' = IF intact THEN Least(received + 1, Frame) ELSE 0
    BY <1>2
  <2> QED
    BY <1>2, <2>1, <2>2, <2>3
<1> QED
  BY <1>1, <1>2

\* A frame that fails: one more, or one too many.
LEMMA FailureIs ==
  ASSUME NumberTypes, Shape, FrameFails
  PROVE  /\ stat = 1 /\ sinceSync = Frame - 1 /\ sinceSync' = 0 /\ Count /\ inverted' = inverted
         /\ \/ errors < 2 /\ stat' = 1 /\ errors' = errors + 1 /\ tow' = tow + 1 /\ (towSet' <=> towSet)
            \/ errors = 2 /\ stat' = 0 /\ errors' = 0 /\ tow' = 0 /\ ~towSet'
<1>1. stat = 1 /\ sinceSync + Symbols >= Frame /\ buffered = Frame
  BY DEF FrameFails, Due, Shape
<1>2. Symbols = 1
  BY <1>1, Parameters DEF Symbols, Inserted
<1>3. sinceSync = Frame - 1
  BY <1>1, <1>2, Parameters DEF NumberTypes, Shape
<1>4. TooMany <=> errors = 2
  BY DEF TooMany, NumberTypes
<1>5. towSet
  BY <1>1 DEF Shape
<1>6. CASE TooMany
  <2>1. stat' = 0 /\ errors' = 0 /\ tow' = 0 /\ ~towSet'
    BY <1>6, Zenon DEF FrameFails
  <2> QED
    BY <1>1, <1>3, <1>4, <1>6, <2>1 DEF FrameFails
<1>7. CASE ~TooMany
  <2>1. errors' = errors + 1 /\ stat' = stat /\ towSet' = towSet /\ tow' = IF towSet THEN tow + 1 ELSE tow
    BY <1>7, Zenon DEF FrameFails, Advance
  <2>2. errors < 2 /\ tow' = tow + 1
    BY <1>4, <1>5, <1>7, <2>1 DEF NumberTypes
  <2> QED
    BY <1>1, <1>3, <1>5, <2>1, <2>2 DEF FrameFails
<1> QED
  BY <1>6, <1>7

LEMMA BetweenIs ==
  ASSUME NumberTypes, Shape, Between
  PROVE  /\ stat = 1 /\ stat' = 1 /\ sinceSync + 1 < Frame /\ sinceSync' = sinceSync + 1
         /\ NotCompared /\ Count /\ errors' = errors /\ inverted' = inverted
         /\ tow' = tow + 1 /\ (towSet' <=> towSet) /\ Symbols = 1
<1>1. stat = 1 /\ buffered = Frame /\ towSet
  BY DEF Between, Shape
<1>2. Symbols = 1
  BY <1>1, Parameters DEF Symbols, Inserted
<1> QED
  BY <1>1, <1>2 DEF Between, Advance

LEMMA NumbersTyped ==
  ASSUME NoZeroTow, NumberTypes, Shape, NEW intact \in BOOLEAN, Symbol(intact)
  PROVE  NumberTypes'
<1> USE Parameters
<1>1. /\ now' \in Nat /\ buffered' \in 0 .. Frame /\ received' \in 0 .. Frame /\ wrongFor' \in Nat
      /\ Symbols \in 1 .. Frame
  <2>1. now' \in Nat /\ wrongFor' \in Nat
    BY DEF Symbol, NumberTypes, Least
  <2> QED
    BY <2>1, BufferCounts DEF Symbol
<1>2. (sinceTow + Symbols) % Week \in 0 .. Week - 1
  <2>1. sinceTow + Symbols \in Int
    BY <1>1 DEF NumberTypes
  <2> QED
    BY <2>1, ModRange
<1>3. NotCompared => last' \in Nat /\ sinceTow' \in 0 .. Week - 1
  BY <1>2 DEF NotCompared, NumberTypes
<1>4. Kept(intact) \/ Misheard => good' \in Nat /\ wrongs' \in Nat
  BY DEF Kept, Misheard, NumberTypes, Least
<1>5. Count => silence' \in 0 .. Silent + 1
  BY <1>1 DEF Count, NumberTypes, Least
<1>6. ASSUME NEW h, HeardAs(h, intact), ~Consistent(h), Compare(h)
      PROVE  last' \in Nat /\ sinceTow' \in 0 .. Week - 1 /\ good' \in Nat /\ wrongs' \in Nat
  <2>1. last' \in Nat /\ sinceTow' \in 0 .. Week - 1
    BY <1>2, <1>6 DEF Compare, NumberTypes
  <2> QED
    BY <1>4, <1>6, <2>1 DEF HeardAs
<1>7. ASSUME FrameFails
      PROVE  /\ stat' \in {0, 1} /\ sinceSync' \in 0 .. Frame /\ silence' \in 0 .. Silent + 1
             /\ errors' \in 0 .. 2 /\ tow' \in Nat
  BY <1>5, <1>7, FailureIs DEF NumberTypes
<1>8. CASE NoFrame /\ Kept(intact)
  BY <1>1, <1>3, <1>4, <1>5, <1>8 DEF NoFrame, NumberTypes, Least
<1>9. CASE Between /\ Kept(intact)
  BY <1>1, <1>3, <1>4, <1>5, <1>9, BetweenIs DEF NumberTypes
<1>10. CASE NotCompared /\ FrameFails /\ Kept(intact)
  BY <1>1, <1>3, <1>4, <1>7, <1>10 DEF NumberTypes
<1>11. CASE \E h : HeardAs(h, intact) /\ Accepts(h)
  <2>1. PICK h : HeardAs(h, intact) /\ Accepts(h)
    BY <1>11
  <2>2. h \in Nat
    BY <2>1, HeardTime DEF Symbol
  <2>3. good' \in Nat /\ wrongs' \in Nat
    BY <1>4, <2>1 DEF HeardAs
  <2> QED
    BY <1>1, <2>1, <2>2, <2>3 DEF Accepts, NumberTypes
<1>12. CASE \E h : HeardAs(h, intact) /\ ~Consistent(h) /\ Compare(h) /\ Refuses
  BY <1>1, <1>5, <1>6, <1>12 DEF Refuses, NumberTypes
<1>13. CASE \E h : HeardAs(h, intact) /\ ~Consistent(h) /\ Compare(h) /\ FrameFails
  BY <1>1, <1>6, <1>7, <1>13 DEF NumberTypes
<1> QED
  BY <1>8, <1>9, <1>10, <1>11, <1>12, <1>13 DEF Symbol, Outcome

LEMMA BitsTyped ==
  ASSUME BitTypes, Shape, NumberTypes, NEW intact, Symbol(intact)
  PROVE  BitTypes'
<1>1. sent' \in BOOLEAN /\ flipped' \in BOOLEAN /\ carried' \in BOOLEAN
  BY Zenon DEF Symbol, Separation, Carry, BitTypes
<1>2. ASSUME NEW h, Compare(h)
      PROVE  have' \in BOOLEAN
  BY <1>2, Zenon DEF Compare
<1>3. FrameFails => towSet' \in BOOLEAN /\ inverted' \in BOOLEAN
  BY Zenon DEF FrameFails, Advance, BitTypes
<1>4. CASE NoFrame
  BY <1>1, <1>4, Zenon DEF NoFrame, NotCompared, BitTypes
<1>5. CASE Between
  BY <1>1, <1>5, Zenon DEF Between, NotCompared, Advance, BitTypes
<1>6. CASE NotCompared /\ FrameFails
  BY <1>1, <1>3, <1>6, Zenon DEF NotCompared, BitTypes
<1>7. CASE \E h : Accepts(h)
  BY <1>1, <1>7, Zenon DEF Accepts, BitTypes
<1>8. CASE \E h : Compare(h) /\ Refuses
  BY <1>1, <1>2, <1>8, Zenon DEF Refuses, BitTypes
<1>9. CASE \E h : Compare(h) /\ FrameFails
  BY <1>1, <1>2, <1>3, <1>9, Zenon DEF BitTypes
<1> QED
  BY <1>4, <1>5, <1>6, <1>7, <1>8, <1>9, Zenon DEF Symbol, Outcome

\* What every symbol does to the counts of good and received ones.
LEMMA GoodIsReceived ==
  ASSUME NumberTypes, Shape, NEW intact \in BOOLEAN, Received(intact), Kept(intact) \/ Misheard
  PROVE  /\ received' <= buffered'
         /\ good' < Frame => good' <= received'
         /\ good' >= Frame => received' = Frame
<1> USE Parameters
<1>1. good' = 0 \/ (intact /\ good' \in {good + 1, 6 * Frame} /\ good' <= good + 1)
  BY DEF Kept, Misheard, Least, NumberTypes
<1>2. received' \in 0 .. Frame /\ received' <= buffered'
  BY BufferCounts
<1>3. CASE good' = 0
  BY <1>2, <1>3
<1>4. CASE intact /\ good' \in {good + 1, 6 * Frame} /\ good' <= good + 1
  <2>1. (good + 1 < Frame => good + 1 <= received') /\ (good + 1 >= Frame => received' = Frame)
    BY <1>4, BufferCounts
  <2> QED
    BY <1>2, <1>4, <2>1 DEF NumberTypes
<1> QED
  BY <1>1, <1>3, <1>4

LEMMA ShapeStays ==
  ASSUME NoZeroTow, NumberTypes, Shape, NEW intact \in BOOLEAN, Symbol(intact)
  PROVE  Shape'
<1> USE Parameters
<1>1. /\ buffered' > 0
      /\ stat = 1 => buffered' = Frame
  BY BufferCounts DEF Symbol, Shape
<1>2. Kept(intact) \/ Misheard
  BY DEF Symbol, Outcome, HeardAs
<1>3. /\ received' <= buffered'
      /\ good' < Frame => good' <= received'
      /\ good' >= Frame => received' = Frame
  BY <1>2, GoodIsReceived DEF Symbol
<1>4. ASSUME FrameFails
      PROVE  (towSet' <=> stat' = 1) /\ sinceSync' < Frame /\ stat = 1
  BY <1>4, FailureIs DEF Shape
<1>5. CASE NoFrame
  BY <1>1, <1>3, <1>5 DEF NoFrame, Shape
<1>6. CASE Between
  BY <1>1, <1>3, <1>6, BetweenIs DEF Shape
<1>7. CASE FrameFails
  BY <1>1, <1>3, <1>4, <1>7 DEF Shape
<1>8. CASE \E h : HeardAs(h, intact) /\ Accepts(h)
  <2>1. PICK h : HeardAs(h, intact) /\ Accepts(h)
    BY <1>8
  <2>2. buffered' = Frame
    BY <1>1, <2>1 DEF Accepts, NumberTypes
  <2>3. stat' = 1 /\ sinceSync' = 0 /\ towSet'
    BY <2>1, Zenon DEF Accepts
  <2> QED
    BY <1>1, <1>3, <2>2, <2>3 DEF Shape
<1>9. CASE Refuses
  BY <1>1, <1>3, <1>9 DEF Refuses, Shape
<1> QED
  BY <1>5, <1>6, <1>7, <1>8, <1>9 DEF Symbol, Outcome

-----------------------------------------------------------------------------
(* The two clocks of the decoder: the time of the symbols that leave, and  *)
(* what it counts from the last accepted frame.                            *)

TowIsRight == tow % Week = now % Week
LastIsRight == (last + sinceTow) % Week = now % Week

\* The time of the symbols is the time of frames, and agrees with the last
\* frame that was accepted, right or wrong.
TowIsLast ==
    /\ towSet => tow % Frame = sinceSync
    /\ towSet /\ have => (last + sinceTow) % Week = tow % Week

LEMMA FrameClock ==
  ASSUME NumberTypes, now' = now + 1
  PROVE  /\ now % Frame \in 0 .. Frame - 1
         /\ now' % Frame = IF now % Frame = Frame - 1 THEN 0 ELSE (now % Frame) + 1
<1>1. now \in Int
  BY DEF NumberTypes
<1> QED
  BY <1>1, Parameters, ModRange, ModNext

LEMMA WeekClock ==
  ASSUME NEW a \in Nat, NEW b \in Nat, a % Week = b % Week
  PROVE  (a + 1) % Week = (b + 1) % Week
<1>1. a \in Int /\ b \in Int
  OBVIOUS
<1>2. (a + 1) % Week = IF a % Week = Week - 1 THEN 0 ELSE (a % Week) + 1
  BY <1>1, Parameters, ModNext
<1>3. (b + 1) % Week = IF b % Week = Week - 1 THEN 0 ELSE (b % Week) + 1
  BY <1>1, Parameters, ModNext
<1> QED
  BY <1>2, <1>3

\* What was counted from the last frame, a symbol later.
LEMMA LastCounts ==
  ASSUME NumberTypes, Shape, have, NEW x \in Nat, (last + sinceTow) % Week = x % Week
  PROVE  /\ Symbols = 1
         /\ (last + sinceTow + Symbols) % Week = (x + 1) % Week
         /\ NotCompared => (have' <=> have) /\ (last' + sinceTow') % Week = (x + 1) % Week
<1>1. Symbols = 1
  <2>1. buffered # 0
    BY DEF Shape, NumberTypes
  <2> QED
    BY <2>1 DEF Symbols, Inserted
<1>2. last \in Nat /\ sinceTow \in 0 .. Week - 1 /\ Week \in Nat \ {0} /\ x \in Int
  BY Parameters DEF NumberTypes
<1>3. (last + sinceTow + Symbols) % Week = (x + 1) % Week
  <2>1. last + sinceTow \in Nat
    BY <1>2
  <2>2. (last + sinceTow + 1) % Week = (x + 1) % Week
    BY <2>1, WeekClock
  <2> QED
    BY <1>1, <2>2
<1>4. (last + ((sinceTow + 1) % Week)) % Week = (x + 1) % Week
  BY <1>2, ClockTicks
<1>5. NotCompared => last' = last /\ sinceTow' = (sinceTow + 1) % Week /\ (have' <=> have)
  BY <1>1 DEF NotCompared
<1>6. ASSUME NotCompared
      PROVE  (have' <=> have) /\ (last' + sinceTow') % Week = (x + 1) % Week
  BY <1>4, <1>5, <1>6
<1> QED
  BY <1>1, <1>3, <1>6

\* Frames are so far apart that one that is consistent says the expected time.
LEMMA ConsistentIsExpected ==
  ASSUME NumberTypes, have, NEW e \in 0 .. Week - 1, e % Frame = 0,
         (last + sinceTow + Symbols) % Week = e,
         NEW h \in Nat, h % Frame = 0
  PROVE  Consistent(h) <=> h % Week = e
<1> DEFINE k == h % Week
<1> DEFINE d == (k - e) % Week
<1> DEFINE g == (e - k) % Week
<1>1. k \in 0 .. Week - 1 /\ k % Frame = 0 /\ k % Week = k /\ h \in Int
  <2>1. h \in Int
    OBVIOUS
  <2>2. k \in 0 .. Week - 1 /\ k % Frame = 0
    BY <2>1, Parameters, ModRange, ModDown
  <2> HIDE DEF k
  <2>3. k % Week = k
    BY <2>2, Parameters, ModSmall
  <2> QED
    BY <2>1, <2>2, <2>3
<1>2. (h - e) % Week = d /\ (e - h) % Week = g
  <2>1. h \in Int /\ e \in Int
    BY Parameters
  <2> QED
    BY <2>1, Parameters, ModLess
<1> HIDE DEF k
<1>3. d \in 0 .. Week - 1 /\ g \in 0 .. Week - 1
  <2>1. k - e \in Int /\ e - k \in Int
    BY <1>1, Parameters
  <2> QED
    BY <2>1, Parameters, ModRange
<1>4. Consistent(h) <=> 3 * Least(d, g) <= Frame
  BY <1>2 DEF Consistent
<1>5. d < Frame => k = e
  BY <1>1, Parameters, MultiplesApart
<1>6. g < Frame => k = e
  <2>1. g < Frame => e = k
    BY <1>1, Parameters, MultiplesApart
  <2> QED
    BY <2>1
<1>7. k = e => d = 0 /\ g = 0
  <2>1. 0 % Week = 0
    <3>1. 0 \in 0 .. Week - 1
      BY Parameters
    <3> QED
      BY <3>1, Parameters, ModSmall
  <2>2. k = e => k - e = 0 /\ e - k = 0
    BY <1>1
  <2> QED
    BY <2>1, <2>2
<1> HIDE DEF d, g
<1>8. 3 * Least(d, g) <= Frame => d < Frame \/ g < Frame
  BY <1>3, Parameters DEF Least
<1>9. d = 0 /\ g = 0 => 3 * Least(d, g) <= Frame
  BY Parameters DEF Least
<1>10. Consistent(h) <=> k = e
  BY <1>4, <1>5, <1>6, <1>7, <1>8, <1>9
<1> QED
  BY <1>10 DEF k

\* In its turn, a frame is consistent if it says the time the symbols have.
LEMMA DueIsTow ==
  ASSUME NumberTypes, Shape, TowIsLast, have, towSet, sinceSync = Frame - 1,
         NEW h \in Nat, h % Frame = 0
  PROVE  Consistent(h) <=> h % Week = (tow + 1) % Week
<1>1. tow \in Nat /\ (last + sinceTow) % Week = tow % Week /\ tow % Frame = Frame - 1
  BY DEF TowIsLast, NumberTypes
<1>2. (last + sinceTow + Symbols) % Week = (tow + 1) % Week
  BY <1>1, LastCounts
<1>3. (tow + 1) % Frame = 0
  <2>1. tow \in Int
    BY <1>1
  <2> QED
    BY <1>1, <2>1, Parameters, ModNext
<1>4. (tow + 1) % Week \in 0 .. Week - 1 /\ ((tow + 1) % Week) % Frame = 0
  <2>1. tow + 1 \in Int
    BY <1>1
  <2> QED
    BY <1>3, <2>1, Parameters, ModRange, ModDown
<1> QED
  BY <1>2, <1>4, ConsistentIsExpected

\* The time of a symbol that no frame gives is that of the one before, and one.
LEMMA TowCounts ==
  ASSUME NumberTypes, Shape, TowIsLast, towSet, tow' = tow + 1, towSet',
         sinceSync' = IF sinceSync = Frame - 1 THEN 0 ELSE sinceSync + 1,
         NotCompared \/ ~have'
  PROVE  TowIsLast'
<1>1. tow' % Frame = sinceSync'
  <2>1. tow \in Int /\ tow % Frame = sinceSync
    BY DEF NumberTypes, TowIsLast
  <2>2. (tow + 1) % Frame = sinceSync'
    BY <2>1, Parameters, ModNext
  <2> QED
    BY <2>2
<1>2. ASSUME have'
      PROVE  (last' + sinceTow') % Week = tow' % Week
  <2>1. NotCompared /\ have
    BY <1>2 DEF NotCompared
  <2>2. (last + sinceTow) % Week = tow % Week /\ tow \in Nat
    BY <2>1 DEF TowIsLast, NumberTypes
  <2>3. (last' + sinceTow') % Week = (tow + 1) % Week
    BY <2>1, <2>2, LastCounts
  <2> QED
    BY <2>3
<1> QED
  BY <1>1, <1>2 DEF TowIsLast

LEMMA TowIsLastStays ==
  ASSUME NoZeroTow, NumberTypes, Shape, TowIsLast, NEW intact \in BOOLEAN, Symbol(intact)
  PROVE  TowIsLast'
<1>1. CASE NoFrame
  BY <1>1 DEF NoFrame, TowIsLast
<1>2. CASE Between
  <2>1. towSet
    BY <1>2, BetweenIs DEF Shape
  <2>2. tow' = tow + 1 /\ towSet' /\ NotCompared /\ sinceSync' = sinceSync + 1 /\ sinceSync # Frame - 1
    BY <1>2, <2>1, BetweenIs, Parameters DEF NumberTypes
  <2> QED
    BY <2>1, <2>2, TowCounts
<1>3. CASE FrameFails /\ (NotCompared \/ ~have')
  <2>1. CASE ~towSet'
    BY <2>1 DEF TowIsLast
  <2>2. CASE towSet'
    <3>1. towSet /\ tow' = tow + 1 /\ sinceSync = Frame - 1 /\ sinceSync' = 0
      BY <1>3, <2>2, FailureIs DEF Shape
    <3> QED
      BY <1>3, <2>2, <3>1, TowCounts
  <2> QED
    BY <2>1, <2>2
<1>4. CASE \E h : HeardAs(h, intact) /\ Accepts(h)
  <2>1. PICK h : HeardAs(h, intact) /\ Accepts(h)
    BY <1>4
  <2>2. h \in Nat /\ h % Frame = 0
    BY <2>1, HeardTime DEF Symbol
  <2>3. tow' = h /\ sinceSync' = 0 /\ last' = h /\ sinceTow' = 0
    BY <2>1 DEF Accepts
  <2>4. h + 0 = h
    BY <2>2
  <2> QED
    BY <2>2, <2>3, <2>4 DEF TowIsLast
<1>5. CASE Refuses
  BY <1>5 DEF Refuses, TowIsLast
<1>6. \A h : Compare(h) /\ ~Consistent(h) => ~have'
  BY Zenon DEF Compare
<1> QED
  BY <1>1, <1>2, <1>3, <1>4, <1>5, <1>6 DEF Symbol, Outcome

\* A right time that was compared stays right for a symbol.
LEMMA RightTowStays ==
  ASSUME NoZeroTow, NumberTypes, Shape, TowIsLast, NEW intact \in BOOLEAN, Symbol(intact),
         towSet, have, TowIsRight, towSet'
  PROVE  TowIsRight'
<1>1. (tow + 1) % Week = (now + 1) % Week /\ now' = now + 1
  BY WeekClock DEF TowIsRight, NumberTypes, Symbol
<1>2. tow' = tow + 1 => TowIsRight'
  BY <1>1 DEF TowIsRight
<1>3. stat = 1
  BY DEF Shape
<1>4. CASE Between
  BY <1>2, <1>4, BetweenIs
<1>5. CASE FrameFails
  BY <1>2, <1>5, FailureIs
<1>6. CASE \E h : HeardAs(h, intact) /\ Accepts(h)
  <2>1. PICK h : HeardAs(h, intact) /\ Accepts(h)
    BY <1>6
  <2>2. h \in Nat /\ h % Frame = 0
    BY <2>1, HeardTime DEF Symbol
  <2>3. sinceSync = Frame - 1
    <3>1. Due
      BY <1>3, <2>1, Zenon DEF Accepts
    <3>2. buffered = Frame /\ sinceSync < Frame
      BY <1>3 DEF Shape
    <3>3. Symbols = 1
      BY <3>2, BufferCounts DEF Symbol
    <3> QED
      BY <3>1, <3>2, <3>3, Parameters DEF Due, NumberTypes
  <2>4. h % Week = (tow + 1) % Week
    BY <2>1, <2>2, <2>3, DueIsTow DEF Accepts
  <2>5. tow' = h
    BY <2>1 DEF Accepts
  <2> QED
    BY <1>1, <2>4, <2>5 DEF TowIsRight
<1> QED
  BY <1>3, <1>4, <1>5, <1>6 DEF Symbol, Outcome, NoFrame, Refuses

-----------------------------------------------------------------------------
(* What the good symbols have brought the decoder.                         *)

InStep == sinceSync = now % Frame /\ inverted = flipped
Locked ==
    /\ stat = 1 /\ errors = 0 /\ InStep /\ ~carried /\ silence = sinceSync
    /\ towSet /\ have /\ TowIsRight /\ LastIsRight

\* The frames that may still fail before the decoder is locked: two at a
\* false preamble, or one after a wrong end and one that contradicts a wrong
\* last time, and one to find the first preamble in.
Progress ==
    \/ Locked
    \/ stat = 1 /\ ~InStep /\ good <= errors * Frame + sinceSync
    \/ stat = 1 /\ InStep /\ carried /\ good <= Frame + sinceSync
    \/ stat = 1 /\ InStep /\ ~carried /\ have /\ good <= 2 * Frame + sinceSync
    \/ stat = 1 /\ InStep /\ ~carried /\ ~have /\ good <= 3 * Frame + sinceSync
    \/ stat = 0 /\ have /\ good <= 3 * Frame + (now % Frame)
    \/ stat = 0 /\ ~have /\ good <= 4 * Frame + (now % Frame)

\* Few good symbols say nothing.
LEMMA FewAreProgress ==
  ASSUME stat' \in {0, 1}, sinceSync' \in 0 .. Frame, errors' \in 0 .. 2, now' \in Nat, good' \in Nat,
         good' = 0 \/ (good' < Frame /\ (stat' = 1 => errors' >= 1))
  PROVE  Progress'
<1> DEFINE few == good'
<1> DEFINE wrongFrames == errors' * Frame
<1> DEFINE place == now' % Frame
<1> DEFINE since == sinceSync'
<1>1. few \in Nat /\ since \in Nat
  <2>1. sinceSync' \in Nat
    BY Parameters
  <2> QED
    BY <2>1
<1>2. wrongFrames \in Nat /\ (errors' >= 1 => wrongFrames >= Frame)
  <2>1. errors' = 0 \/ errors' = 1 \/ errors' = 2
    OBVIOUS
  <2>2. 0 * Frame = 0 /\ 1 * Frame = Frame /\ 2 * Frame \in Nat /\ 2 * Frame >= Frame /\ Frame \in Nat
    BY Parameters
  <2>3. CASE errors' = 0
    BY <2>2, <2>3
  <2>4. CASE errors' = 1
    BY <2>2, <2>4
  <2>5. CASE errors' = 2
    BY <2>2, <2>5
  <2> QED
    BY <2>1, <2>3, <2>4, <2>5
<1>3. place \in 0 .. Frame - 1
  <2>1. now' \in Int
    OBVIOUS
  <2> QED
    BY <2>1, Parameters, ModRange
<1>4. few = 0 \/ (few < Frame /\ (stat' = 0 \/ wrongFrames >= Frame))
  BY <1>2
<1> HIDE DEF few, wrongFrames, place, since
<1>5. stat' = 0 \/ few <= wrongFrames + since
  BY <1>1, <1>2, <1>4, Parameters
<1>6. few <= Frame + since /\ few <= 2 * Frame + since /\ few <= 3 * Frame + since
  BY <1>1, <1>4, Parameters
<1>7. few <= 3 * Frame + place /\ few <= 4 * Frame + place
  BY <1>1, <1>3, <1>4, Parameters
<1>8. stat' = 0 \/ stat' = 1
  OBVIOUS
<1> QED
  BY <1>5, <1>6, <1>7, <1>8, Zenon DEF Progress, few, wrongFrames, place, since

\* A frame that is whole and accepted locks the decoder.
LEMMA WholeLocks ==
  ASSUME NoZeroTow, NumberTypes, NEW intact \in BOOLEAN, Symbol(intact),
         NEW h, HeardAs(h, intact), Accepts(h), Whole
  PROVE  Locked'
<1>1. h \in Nat /\ h = now + 1 /\ (now + 1) % Frame = 0 /\ now' = now + 1
  BY HeardTime DEF Symbol
<1>2. stat' = 1 /\ errors' = 0 /\ sinceSync' = 0 /\ silence' = 0 /\ towSet' /\ have'
  BY Zenon DEF Accepts
<1>3. tow' = h /\ last' = h /\ sinceTow' = 0 /\ h + 0 = h
  BY <1>1 DEF Accepts
<1>4. inverted' = flipped' /\ ~carried'
  <2>1. inverted' = flipped /\ flipped' = flipped
    BY DEF Accepts, Symbol
  <2>2. ~(stat = 1 /\ ~Due)
    BY Zenon DEF Accepts
  <2>3. stat' # 0
    BY <1>2
  <2> QED
    BY <2>1, <2>2, <2>3, Zenon DEF Symbol, Carry
<1>5. InStep'
  BY <1>1, <1>2, <1>4 DEF InStep
<1>6. TowIsRight' /\ LastIsRight'
  BY <1>1, <1>3 DEF TowIsRight, LastIsRight
<1> QED
  BY <1>2, <1>4, <1>5, <1>6, Zenon DEF Locked

\* How the good symbols of a step are counted.
LEMMA GoodGrows ==
  ASSUME NumberTypes, Shape, NEW intact \in BOOLEAN, Symbol(intact)
  PROVE  /\ good' \in Nat /\ good' <= good + 1
         /\ Misheard => good' = 0
         /\ now % Frame = Frame - 1 /\ ~Whole => good' < Frame
<1>1. Kept(intact) \/ Misheard
  BY DEF Symbol, Outcome, HeardAs
<1>2. good' \in Nat /\ good' <= good + 1 /\ (Misheard => good' = 0)
  BY <1>1, Parameters DEF Kept, Misheard, Least, NumberTypes
<1>3. good' >= Frame => received' = Frame
  BY <1>1, GoodIsReceived DEF Symbol
<1>4. received' = Frame /\ now % Frame = Frame - 1 => Whole
  BY DEF Whole
<1> QED
  BY <1>2, <1>3, <1>4, Parameters

\* In step or out of it, it stays so while no frame is accepted.
LEMMA StepStays ==
  ASSUME NumberTypes, now' = now + 1, (inverted' <=> inverted), (flipped' <=> flipped),
         sinceSync < Frame, sinceSync' = IF sinceSync = Frame - 1 THEN 0 ELSE sinceSync + 1
  PROVE  InStep' <=> InStep
<1> DEFINE place == now % Frame
<1> DEFINE next == now' % Frame
<1>1. place \in 0 .. Frame - 1 /\ next = IF place = Frame - 1 THEN 0 ELSE place + 1
  BY FrameClock
<1> HIDE DEF place, next
<1>2. sinceSync' = next <=> sinceSync = place
  BY <1>1, Parameters DEF NumberTypes
<1>3. (sinceSync = now % Frame <=> sinceSync = place) /\ (sinceSync' = now' % Frame <=> sinceSync' = next)
  BY DEF place, next
<1> QED
  BY <1>2, <1>3, Zenon DEF InStep

\* No frame begins where one is due: the last good symbols are few.
LEMMA NoFrameProgress ==
  ASSUME NumberTypes, NumberTypes', Shape, Progress, NEW intact \in BOOLEAN, Symbol(intact), NoFrame
  PROVE  Progress'
<1> DEFINE place == now % Frame
<1> DEFINE next == now' % Frame
<1> DEFINE count == good
<1> DEFINE counted == good'
<1>1. place \in 0 .. Frame - 1 /\ next = IF place = Frame - 1 THEN 0 ELSE place + 1
  BY FrameClock DEF Symbol
<1>2. count \in Nat /\ counted \in Nat /\ counted <= count + 1
  BY GoodGrows DEF NumberTypes
<1>3. stat = 0 /\ stat' = 0 /\ (have' <=> have)
  BY DEF NoFrame, NotCompared
<1>4. (have /\ count <= 3 * Frame + place) \/ (~have /\ count <= 4 * Frame + place)
  BY <1>3 DEF Progress, Locked
<1>5. CASE place = Frame - 1
  <2>1. ~Whole
    <3>1. buffered' \in 0 .. Frame /\ received' <= buffered'
      BY BufferCounts DEF Symbol
    <3>2. received' = Frame => buffered' = Frame
      BY <3>1, Parameters
    <3> QED
      BY <3>2 DEF NoFrame, Whole
  <2>2. good' < Frame
    BY <1>5, <2>1, GoodGrows
  <2> QED
    BY <1>3, <2>2, FewAreProgress DEF NumberTypes
<1>6. CASE place # Frame - 1
  <2> HIDE DEF place, next, count, counted
  <2>1. next = place + 1
    BY <1>1, <1>6
  <2>2. (have /\ counted <= 3 * Frame + next) \/ (~have /\ counted <= 4 * Frame + next)
    BY <1>1, <1>2, <1>4, <2>1, Parameters
  <2>3. (have' /\ counted <= 3 * Frame + next) \/ (~have' /\ counted <= 4 * Frame + next)
    BY <1>3, <2>2, Zenon
  <2> QED
    BY <1>3, <2>3, Zenon DEF Progress, counted, next
<1> QED
  BY <1>5, <1>6

\* Between two frames nothing is decided.
LEMMA BetweenProgress ==
  ASSUME NumberTypes, Shape, Progress, NEW intact \in BOOLEAN, Symbol(intact), Between
  PROVE  Progress'
<1> DEFINE since == sinceSync
<1> DEFINE later == sinceSync'
<1> DEFINE count == good
<1> DEFINE counted == good'
<1> DEFINE wrongFrames == errors * Frame
<1>1. /\ stat = 1 /\ stat' = 1 /\ errors' = errors
      /\ since \in 0 .. Frame - 2 /\ later = since + 1
      /\ NotCompared /\ (have' <=> have) /\ (towSet' <=> towSet) /\ (carried' <=> carried)
  <2>1. stat = 1 /\ stat' = 1 /\ errors' = errors /\ NotCompared /\ (towSet' <=> towSet)
    BY BetweenIs
  <2>2. sinceSync \in 0 .. Frame - 2 /\ sinceSync' = sinceSync + 1
    BY BetweenIs, Parameters DEF NumberTypes
  <2>3. have' <=> have
    BY <2>1 DEF NotCompared
  <2>4. ~Due /\ stat' # 0
    BY <2>1, Parameters DEF NumberTypes, Between, Due, Symbols, Inserted
  <2>5. carried' <=> carried
    BY <2>1, <2>4, Zenon DEF Symbol, Carry
  <2> QED
    BY <2>1, <2>2, <2>3, <2>5, Zenon
<1>2. now' = now + 1 /\ flipped' = flipped /\ inverted' = inverted
  BY BetweenIs DEF Symbol
<1>3. InStep' <=> InStep
  <2>1. sinceSync < Frame /\ sinceSync' = IF sinceSync = Frame - 1 THEN 0 ELSE sinceSync + 1
    BY <1>1, Parameters
  <2> QED
    BY <1>2, <2>1, StepStays
<1>4. count \in Nat /\ counted \in Nat /\ counted <= count + 1 /\ wrongFrames \in Nat /\ errors' * Frame = wrongFrames
  <2>1. errors * Frame \in Nat
    BY Parameters DEF NumberTypes
  <2> QED
    BY <1>1, <2>1, GoodGrows DEF NumberTypes
<1>5. CASE Locked
  <2>1. have /\ (last + sinceTow) % Week = now % Week /\ now \in Nat /\ tow \in Nat /\ tow % Week = now % Week
    BY <1>5 DEF Locked, LastIsRight, TowIsRight, NumberTypes
  <2>2. (last' + sinceTow') % Week = now' % Week
    BY <1>1, <1>2, <2>1, LastCounts
  <2>3. tow' % Week = now' % Week
    <3>1. (tow + 1) % Week = (now + 1) % Week
      BY <2>1, WeekClock
    <3> QED
      BY <1>2, <3>1, BetweenIs
  <2>4. silence' = sinceSync'
    <3>1. silence' = Least(silence + Symbols, Silent + 1) /\ Symbols = 1 /\ silence = sinceSync
      BY <1>5, BetweenIs DEF Count, Locked
    <3> QED
      BY <1>1, <3>1, Parameters DEF Least
  <2>5. InStep' /\ ~carried' /\ towSet' /\ have' /\ errors' = 0
    BY <1>1, <1>3, <1>5 DEF Locked
  <2> QED
    BY <1>1, <2>2, <2>3, <2>4, <2>5, Zenon DEF Progress, Locked, TowIsRight, LastIsRight
<1>6. CASE ~Locked
  <2>1. \/ ~InStep /\ count <= wrongFrames + since
        \/ InStep /\ carried /\ count <= Frame + since
        \/ InStep /\ ~carried /\ have /\ count <= 2 * Frame + since
        \/ InStep /\ ~carried /\ ~have /\ count <= 3 * Frame + since
    BY <1>1, <1>6 DEF Progress
  <2> HIDE DEF since, later, count, counted, wrongFrames
  <2>2. \/ ~InStep /\ counted <= wrongFrames + later
        \/ InStep /\ carried /\ counted <= Frame + later
        \/ InStep /\ ~carried /\ have /\ counted <= 2 * Frame + later
        \/ InStep /\ ~carried /\ ~have /\ counted <= 3 * Frame + later
    BY <1>1, <1>4, <2>1, Parameters
  <2>3. \/ ~InStep' /\ counted <= errors' * Frame + later
        \/ InStep' /\ carried' /\ counted <= Frame + later
        \/ InStep' /\ ~carried' /\ have' /\ counted <= 2 * Frame + later
        \/ InStep' /\ ~carried' /\ ~have' /\ counted <= 3 * Frame + later
    BY <1>1, <1>3, <1>4, <2>2, Zenon
  <2> QED
    BY <1>1, <2>3, Zenon DEF Progress, counted, later
<1> QED
  BY <1>5, <1>6

\* A good frame that is found, or due and in step, is refused at most once.
LEMMA RefusedProgress ==
  ASSUME NoZeroTow, NumberTypes, NumberTypes', Shape, Progress, NEW intact \in BOOLEAN, Symbol(intact),
         NEW h, HeardAs(h, intact), Whole, ~Consistent(h), Compare(h),
         Refuses \/ (FrameFails /\ Passes)
  PROVE  Progress'
<1> DEFINE place == now % Frame
<1> DEFINE next == now' % Frame
<1> DEFINE count == good
<1> DEFINE counted == good'
<1>1. place = Frame - 1 /\ next = 0 /\ now' = now + 1
  <2>1. now' = now + 1 /\ now % Frame = Frame - 1
    BY DEF Symbol, Whole
  <2> QED
    BY <2>1, FrameClock
<1>2. count \in Nat /\ counted \in Nat /\ counted <= count + 1
  BY GoodGrows DEF NumberTypes
<1>3. have /\ ~have'
  BY Zenon DEF Consistent, Compare
<1>4. ~Locked
  <2>1. SUFFICES ASSUME Locked
                 PROVE  FALSE
    OBVIOUS
  <2>2. (last + sinceTow) % Week = now % Week /\ now \in Nat
    BY <2>1 DEF Locked, LastIsRight, NumberTypes
  <2>3. (last + sinceTow + Symbols) % Week = (now + 1) % Week
    BY <1>3, <2>2, LastCounts
  <2>4. h \in Nat /\ h < Week /\ h = now + 1 /\ h % Frame = 0
    BY HeardTime DEF Symbol
  <2>5. h \in 0 .. Week - 1 /\ h % Week = h
    <3>1. h \in 0 .. Week - 1
      BY <2>4, Parameters
    <3> QED
      BY <3>1, Parameters, ModSmall
  <2>6. Consistent(h) <=> h % Week = h
    BY <1>3, <2>3, <2>4, <2>5, ConsistentIsExpected
  <2> QED
    BY <2>5, <2>6
<1>5. CASE Refuses
  <2>1. stat = 0 /\ stat' = 0
    BY <1>5 DEF Refuses
  <2>2. count <= 3 * Frame + place
    BY <1>3, <1>4, <2>1 DEF Progress
  <2> HIDE DEF place, next, count, counted
  <2>3. counted <= 4 * Frame + next
    BY <1>1, <1>2, <2>2, Parameters
  <2> QED
    BY <1>3, <2>1, <2>3, Zenon DEF Progress, counted, next
<1>6. CASE FrameFails /\ Passes
  <2>1. stat = 1 /\ sinceSync = Frame - 1 /\ sinceSync' = 0 /\ inverted' = inverted /\ (stat' = 0 \/ stat' = 1)
    BY <1>6, FailureIs
  <2>2. InStep /\ InStep'
    BY <1>1, <1>6, <2>1 DEF InStep, Passes, Symbol
  <2>3. count <= 2 * Frame + (Frame - 1) /\ (stat' = 1 => ~carried')
    <3>1. ~carried
      BY <1>6 DEF Passes
    <3>2. count <= 2 * Frame + (Frame - 1)
      BY <1>3, <1>4, <2>1, <2>2, <3>1 DEF Progress
    <3>3. stat' = 1 => ~carried'
      <4>1. inverted' = flipped /\ Due
        BY <1>6, <2>1, Zenon DEF Passes, FrameFails
      <4>2. stat' = 1 => stat' # 0
        OBVIOUS
      <4> QED
        BY <4>1, <4>2, Zenon DEF Symbol, Carry
    <3> QED
      BY <3>2, <3>3
  <2> HIDE DEF place, next, count, counted
  <2>4. counted <= 3 * Frame + 0 /\ counted <= 4 * Frame + next
    BY <1>1, <1>2, <2>3, Parameters
  <2>5. counted <= 3 * Frame + sinceSync'
    BY <2>1, <2>4
  <2> QED
    BY <1>3, <2>1, <2>2, <2>3, <2>4, <2>5, Zenon DEF Progress, counted, next
<1> QED
  BY <1>5, <1>6

\* A frame that fails its parity, or that is missing.
LEMMA MissedProgress ==
  ASSUME NumberTypes, NumberTypes', Shape, Progress, NEW intact \in BOOLEAN, Symbol(intact),
         NotCompared, FrameFails, ~(Whole /\ Passes)
  PROVE  Progress'
<1> DEFINE count == good
<1> DEFINE counted == good'
<1> DEFINE wrongFrames == errors * Frame
<1> DEFINE next == now' % Frame
<1>1. /\ stat = 1 /\ sinceSync = Frame - 1 /\ sinceSync' = 0 /\ inverted' = inverted
      /\ (stat' = 1 /\ errors < 2 /\ errors' = errors + 1) \/ (stat' = 0 /\ errors = 2)
  BY FailureIs
<1>2. now' = now + 1 /\ flipped' = flipped
  BY DEF Symbol
<1>3. CASE InStep /\ ~Whole
  <2>1. now % Frame = Frame - 1 /\ ~Whole
    BY <1>1, <1>3 DEF InStep
  <2>2. good' < Frame
    BY <2>1, GoodGrows
  <2>3. stat' = 1 => errors' >= 1
    BY <1>1 DEF NumberTypes
  <2> QED
    BY <2>2, <2>3, FewAreProgress DEF NumberTypes
<1>4. CASE ~InStep
  <2>1. ~InStep'
    <3>1. sinceSync < Frame /\ sinceSync' = IF sinceSync = Frame - 1 THEN 0 ELSE sinceSync + 1
      BY <1>1, Parameters
    <3> QED
      BY <1>1, <1>2, <1>4, <3>1, StepStays
  <2>2. count <= wrongFrames + (Frame - 1)
    BY <1>1, <1>4 DEF Progress, Locked
  <2>3. count \in Nat /\ counted \in Nat /\ counted <= count + 1
    BY GoodGrows DEF NumberTypes
  <2>4. wrongFrames \in Nat /\ (errors = 2 => wrongFrames = 2 * Frame) /\ (errors + 1) * Frame = wrongFrames + Frame
    <3>1. errors = 0 \/ errors = 1 \/ errors = 2
      BY DEF NumberTypes
    <3> QED
      BY <3>1, Parameters
  <2>5. next \in Nat
    BY <1>2, FrameClock, Parameters
  <2> HIDE DEF count, counted, wrongFrames, next
  <2>6. counted <= (errors + 1) * Frame
    BY <2>2, <2>3, <2>4, Parameters
  <2>7. errors = 2 => counted <= 3 * Frame + next /\ counted <= 4 * Frame + next
    BY <2>2, <2>3, <2>4, <2>5, Parameters
  <2>8. CASE stat' = 1 /\ errors < 2 /\ errors' = errors + 1
    <3>1. counted <= errors' * Frame + 0
      <4>1. (errors + 1) * Frame \in Int /\ errors' * Frame = (errors + 1) * Frame
        BY <2>8, Parameters DEF NumberTypes
      <4> QED
        BY <2>3, <2>6, <4>1
    <3> QED
      BY <1>1, <2>1, <2>8, <3>1, Zenon DEF Progress, counted
  <2>9. CASE stat' = 0 /\ errors = 2
    BY <2>7, <2>9, Zenon DEF Progress, counted, next
  <2> QED
    BY <1>1, <2>8, <2>9
<1>5. CASE InStep /\ Whole
  <2>1. carried /\ ~Locked /\ inverted' = flipped
    BY <1>1, <1>5 DEF InStep, Passes, Locked
  <2>2. InStep'
    <3>1. sinceSync < Frame /\ sinceSync' = IF sinceSync = Frame - 1 THEN 0 ELSE sinceSync + 1
      BY <1>1, Parameters
    <3> QED
      BY <1>1, <1>2, <1>5, <3>1, StepStays
  <2>3. stat' = 1 => ~carried'
    <3>1. Due
      BY Zenon DEF FrameFails
    <3>2. stat' = 1 => stat' # 0
      OBVIOUS
    <3> QED
      BY <1>5, <2>1, <3>1, <3>2, Zenon DEF Symbol, Carry
  <2>4. count <= Frame + (Frame - 1)
    BY <1>1, <1>5, <2>1 DEF Progress
  <2>5. count \in Nat /\ counted \in Nat /\ counted <= count + 1
    BY GoodGrows DEF NumberTypes
  <2>6. next \in Nat
    BY <1>2, FrameClock, Parameters
  <2> HIDE DEF count, counted, next
  <2>7. /\ counted <= 2 * Frame + 0 /\ counted <= 3 * Frame + 0
        /\ counted <= 3 * Frame + next /\ counted <= 4 * Frame + next
    BY <2>4, <2>5, <2>6, Parameters
  <2>8. counted <= 2 * Frame + sinceSync' /\ counted <= 3 * Frame + sinceSync'
    BY <1>1, <2>7
  <2> QED
    BY <1>1, <2>2, <2>3, <2>7, <2>8, Zenon DEF Progress, counted, next
<1> QED
  BY <1>3, <1>4, <1>5

LEMMA ProgressStays ==
  ASSUME NoZeroTow, NumberTypes, NumberTypes', Shape, Progress, NEW intact \in BOOLEAN, Symbol(intact)
  PROVE  Progress'
<1>1. Misheard => Progress'
  <2>1. Misheard => good' = 0
    BY DEF Misheard
  <2> QED
    BY <2>1, FewAreProgress DEF NumberTypes
<1>2. CASE NoFrame
  BY <1>2, NoFrameProgress
<1>3. CASE Between
  BY <1>3, BetweenProgress
<1>4. CASE ~(Whole /\ Passes) /\ NotCompared /\ FrameFails
  BY <1>4, MissedProgress
<1>5. CASE \E h : HeardAs(h, intact) /\ Accepts(h)
  BY <1>1, <1>5, WholeLocks, Zenon DEF HeardAs, Progress
<1>6. CASE \E h : HeardAs(h, intact) /\ ~Consistent(h) /\ Compare(h) /\ Refuses
  BY <1>1, <1>6, RefusedProgress, Zenon DEF HeardAs
<1>7. CASE \E h : HeardAs(h, intact) /\ ~Consistent(h) /\ Compare(h) /\ FrameFails /\ (Whole => Passes)
  BY <1>1, <1>7, RefusedProgress, Zenon DEF HeardAs
<1> QED
  BY <1>2, <1>3, <1>4, <1>5, <1>6, <1>7, Zenon DEF Symbol, Outcome

\* After five frames of good symbols only the last of the cases is left.
LEMMA GoodIsLocked ==
  ASSUME NumberTypes, Shape, Progress, good >= 5 * Frame
  PROVE  Locked
<1> DEFINE wrongFrames == errors * Frame
<1> DEFINE place == now % Frame
<1> DEFINE count == good
<1>1. wrongFrames \in Nat /\ wrongFrames <= 2 * Frame
  <2>1. errors = 0 \/ errors = 1 \/ errors = 2
    BY DEF NumberTypes
  <2> QED
    BY <2>1, Parameters
<1>2. place \in 0 .. Frame - 1
  <2>1. now \in Int
    BY DEF NumberTypes
  <2> QED
    BY <2>1, Parameters, ModRange
<1>3. count \in Nat /\ count >= 5 * Frame /\ (stat = 1 => sinceSync \in 0 .. Frame - 1)
  BY Parameters DEF NumberTypes, Shape
<1> HIDE DEF wrongFrames, place, count
<1>4. /\ ~(stat = 1 /\ count <= wrongFrames + sinceSync)
      /\ ~(stat = 1 /\ count <= Frame + sinceSync)
      /\ ~(stat = 1 /\ count <= 2 * Frame + sinceSync)
      /\ ~(stat = 1 /\ count <= 3 * Frame + sinceSync)
      /\ ~(count <= 3 * Frame + place)
      /\ ~(count <= 4 * Frame + place)
  BY <1>1, <1>2, <1>3, Parameters
<1> QED
  BY <1>4, Zenon DEF Progress, count, wrongFrames, place

-----------------------------------------------------------------------------
(* What one wrong frame, or one slip, can do.                              *)

\* While no frame passed wrongly, nothing is wrong.
Unharmed ==
    wrongs = 0 =>
        /\ stat = 1 => InStep
        /\ towSet => TowIsRight
        /\ have => LastIsRight
        /\ wrongFor = 0

\* What is wrong goes out no longer than the frames that failed since it was
\* accepted.
Brief ==
    /\ ~towSet => wrongFor = 0
    /\ towSet => wrongFor <= errors * Frame + sinceSync + 1

LEMMA UnharmedStays ==
  ASSUME NoZeroTow, NumberTypes, Shape, Shape', BitTypes', TowIsLast, Unharmed,
         NEW intact \in BOOLEAN, Symbol(intact)
  PROVE  Unharmed'
<1>1. SUFFICES ASSUME wrongs' = 0
               PROVE  /\ stat' = 1 => InStep'
                      /\ towSet' => TowIsRight'
                      /\ have' => LastIsRight'
                      /\ wrongFor' = 0
  BY DEF Unharmed
<1>2. wrongs = 0 /\ ~Misheard
  BY <1>1 DEF Symbol, Outcome, HeardAs, Kept, Misheard, NumberTypes
<1>3. /\ stat = 1 => InStep
      /\ towSet => TowIsRight
      /\ have => LastIsRight
      /\ wrongFor = 0
  BY <1>2 DEF Unharmed
<1>4. now' = now + 1 /\ flipped' = flipped /\ (towSet <=> stat = 1) /\ (towSet' <=> stat' = 1)
  BY DEF Symbol, Shape
<1>5. SUFFICES /\ stat' = 1 => InStep' /\ TowIsRight'
               /\ have' => LastIsRight'
  <2>1. TowIsRight' /\ InStep' => Right'
    BY DEF TowIsRight, InStep, Right
  <2> QED
    BY <1>4, <2>1, Zenon DEF Symbol
<1>6. NotCompared /\ have' => LastIsRight'
  <2>1. SUFFICES ASSUME NotCompared, have'
                 PROVE  LastIsRight'
    OBVIOUS
  <2>2. have
    BY <2>1, Zenon DEF NotCompared
  <2>3. (last + sinceTow) % Week = now % Week /\ now \in Nat
    BY <1>3, <2>2 DEF LastIsRight, NumberTypes
  <2>4. (last' + sinceTow') % Week = (now + 1) % Week
    BY <2>1, <2>2, <2>3, LastCounts
  <2> QED
    BY <1>4, <2>4 DEF LastIsRight
<1>7. ASSUME stat = 1, tow' = tow + 1, inverted' = inverted,
             sinceSync' = IF sinceSync = Frame - 1 THEN 0 ELSE sinceSync + 1
      PROVE  InStep' /\ TowIsRight'
  <2>1. InStep /\ tow % Week = now % Week /\ tow \in Nat /\ now \in Nat /\ sinceSync < Frame
    BY <1>3, <1>4, <1>7 DEF TowIsRight, NumberTypes, Shape
  <2>2. (tow + 1) % Week = (now + 1) % Week
    BY <2>1, WeekClock
  <2>3. TowIsRight'
    BY <1>4, <1>7, <2>2 DEF TowIsRight
  <2>4. InStep'
    BY <1>4, <1>7, <2>1, StepStays
  <2> QED
    BY <2>3, <2>4
<1>8. CASE NoFrame
  BY <1>6, <1>8 DEF NoFrame
<1>9. CASE Between
  <2>1. sinceSync # Frame - 1
    BY <1>9, BetweenIs, Parameters DEF NumberTypes
  <2> QED
    BY <1>6, <1>7, <1>9, <2>1, BetweenIs
<1>10. CASE FrameFails /\ (NotCompared \/ ~have')
  <2>1. stat' = 1 => InStep' /\ TowIsRight'
    BY <1>7, <1>10, FailureIs
  <2> QED
    BY <1>6, <1>10, <2>1, Zenon
<1>11. CASE \E h : HeardAs(h, intact) /\ Accepts(h)
  BY <1>2, <1>11, WholeLocks, Zenon DEF HeardAs, Locked
<1>12. CASE Refuses /\ ~have'
  BY <1>12 DEF Refuses
<1>13. \A h : Compare(h) /\ ~Consistent(h) => ~have'
  BY Zenon DEF Compare
<1> QED
  BY <1>8, <1>9, <1>10, <1>11, <1>12, <1>13, Zenon DEF Symbol, Outcome

LEMMA BriefStays ==
  ASSUME NoZeroTow, MaxWrongs <= 1, NumberTypes, Shape, Unharmed, Brief,
         NEW intact \in BOOLEAN, Symbol(intact)
  PROVE  Brief'
<1> DEFINE wrong == wrongFor
<1> DEFINE longer == wrongFor'
<1> DEFINE wrongFrames == errors * Frame
<1>1. ~towSet' => wrongFor' = 0
  BY Zenon DEF Symbol
<1>2. wrong \in Nat /\ longer \in Nat /\ longer <= wrong + 1 /\ (Right' => longer = 0)
  BY Parameters DEF Symbol, Least, NumberTypes
<1>3. wrongFrames \in Nat /\ (errors + 1) * Frame = wrongFrames + Frame /\ sinceSync \in Nat
  BY Parameters DEF NumberTypes
<1>4. CASE NoFrame \/ Refuses
  BY <1>1, <1>4 DEF NoFrame, Refuses, Brief
<1>5. CASE Between
  <2>1. stat = 1 /\ errors' = errors /\ sinceSync' = sinceSync + 1
    BY <1>5, BetweenIs
  <2>2. wrong <= wrongFrames + sinceSync + 1
    BY <2>1 DEF Brief, Shape
  <2> HIDE DEF wrong, longer, wrongFrames
  <2>3. longer <= wrongFrames + (sinceSync + 1) + 1
    BY <1>2, <1>3, <2>2
  <2>4. wrongFor' <= errors' * Frame + sinceSync' + 1
    BY <2>1, <2>3, Zenon DEF longer, wrongFrames
  <2> QED
    BY <1>1, <2>4, Zenon DEF Brief
<1>6. CASE FrameFails
  <2>1. stat = 1 /\ sinceSync = Frame - 1 /\ sinceSync' = 0 /\ (errors' = errors + 1 \/ ~towSet')
    BY <1>6, FailureIs
  <2>2. wrong <= wrongFrames + sinceSync + 1
    BY <2>1 DEF Brief, Shape
  <2> HIDE DEF wrong, longer, wrongFrames
  <2>3. longer <= (errors + 1) * Frame + 0 + 1
    BY <1>2, <1>3, <2>1, <2>2, Parameters
  <2>4. errors' = errors + 1 => wrongFor' <= errors' * Frame + sinceSync' + 1
    BY <2>1, <2>3, Zenon DEF longer
  <2> QED
    BY <1>1, <2>1, <2>4, Zenon DEF Brief
<1>7. CASE \E h : HeardAs(h, intact) /\ Accepts(h)
  <2>1. PICK h : HeardAs(h, intact) /\ Accepts(h)
    BY <1>7
  <2>2. errors' = 0 /\ sinceSync' = 0 /\ towSet' /\ 0 * Frame + 0 + 1 = 1
    BY <2>1, Parameters DEF Accepts
  <2>3. CASE Whole
    <3>1. Right'
      BY <2>1, <2>3, WholeLocks DEF Locked, InStep, TowIsRight, Right
    <3>2. longer <= 1
      BY <1>2, <3>1
    <3> QED
      BY <1>1, <2>2, <3>2, Zenon DEF Brief
  <2>4. CASE Misheard
    <3>1. wrongs = 0
      BY <2>4, DecoderAssumption DEF Misheard, NumberTypes
    <3>2. wrong = 0
      BY <3>1 DEF Unharmed
    <3>3. longer <= 1
      BY <1>2, <3>2
    <3> QED
      BY <1>1, <2>2, <3>3, Zenon DEF Brief
  <2> QED
    BY <2>1, <2>3, <2>4, Zenon DEF HeardAs
<1> QED
  BY <1>4, <1>5, <1>6, <1>7 DEF Symbol, Outcome

-----------------------------------------------------------------------------
(* The invariant.                                                          *)

DecoderIInv == NumberTypes /\ BitTypes /\ Shape /\ TowIsLast /\ Progress

\* With one wrong frame, or one slip, at most.
HarmIInv == DecoderIInv /\ Unharmed /\ Brief

LEMMA DecoderInitially == DecoderInit => HarmIInv
<1> SUFFICES ASSUME DecoderInit
             PROVE  HarmIInv
  OBVIOUS
<1>1. NumberTypes
  BY Parameters DEF DecoderInit, NumberTypes
<1>2. BitTypes
  BY Zenon DEF DecoderInit, BitTypes
<1>3. Shape /\ TowIsLast /\ Unharmed
  BY Parameters DEF DecoderInit, Shape, TowIsLast, Unharmed
<1>4. Progress
  <2>1. now \in Int /\ good = 0 /\ stat = 0 /\ ~have
    BY Parameters DEF DecoderInit
  <2>2. now % Frame \in 0 .. Frame - 1
    BY <2>1, Parameters, ModRange
  <2>3. good <= 4 * Frame + (now % Frame)
    BY <2>1, <2>2, Parameters
  <2> QED
    BY <2>1, <2>3, Zenon DEF Progress
<1>5. Brief
  BY DEF DecoderInit, Brief
<1> QED
  BY <1>1, <1>2, <1>3, <1>4, <1>5 DEF HarmIInv, DecoderIInv

LEMMA ResetIsSafe ==
  ASSUME DecoderIInv, ResetDecoder
  PROVE  DecoderIInv' /\ Unharmed' /\ Brief'
<1>1. NumberTypes'
  BY Parameters DEF DecoderIInv, ResetDecoder, NumberTypes
<1>2. BitTypes'
  BY Zenon DEF DecoderIInv, ResetDecoder, BitTypes
<1>3. Shape' /\ TowIsLast' /\ Unharmed' /\ Brief'
  BY Parameters DEF ResetDecoder, Shape, TowIsLast, Unharmed, Brief
<1>4. Progress'
  <2>1. good' = 0
    BY DEF ResetDecoder
  <2> QED
    BY <1>1, <2>1, FewAreProgress DEF NumberTypes
<1> QED
  BY <1>1, <1>2, <1>3, <1>4 DEF DecoderIInv

LEMMA SlipIsSafe ==
  ASSUME DecoderIInv, Slip
  PROVE  DecoderIInv' /\ Unharmed' /\ (Brief => Brief')
<1>1. NumberTypes'
  BY Parameters DEF DecoderIInv, Slip, towVars, NumberTypes
<1>2. BitTypes'
  BY Zenon DEF DecoderIInv, Slip, towVars, BitTypes
<1>3. Shape' /\ TowIsLast'
  BY Parameters DEF DecoderIInv, NumberTypes, Slip, towVars, Shape, TowIsLast
<1>4. Unharmed'
  BY DEF DecoderIInv, NumberTypes, Slip, Unharmed
<1>5. Brief => Brief'
  BY DEF Slip, towVars, Brief
<1>6. Progress'
  <2>1. good' = 0
    BY DEF Slip
  <2> QED
    BY <1>1, <2>1, FewAreProgress DEF NumberTypes
<1> QED
  BY <1>1, <1>2, <1>3, <1>4, <1>5, <1>6, Zenon DEF DecoderIInv

LEMMA SymbolIsSafe ==
  ASSUME NoZeroTow, DecoderIInv, NEW intact \in BOOLEAN, Symbol(intact)
  PROVE  DecoderIInv' /\ (Unharmed => Unharmed') /\ (HarmIInv /\ MaxWrongs <= 1 => Brief')
<1>1. NumberTypes' /\ BitTypes' /\ Shape'
  BY NumbersTyped, BitsTyped, ShapeStays DEF DecoderIInv
<1>2. TowIsLast' /\ Progress'
  BY <1>1, TowIsLastStays, ProgressStays DEF DecoderIInv
<1>3. Unharmed => Unharmed'
  BY <1>1, UnharmedStays DEF DecoderIInv
<1>4. HarmIInv /\ MaxWrongs <= 1 => Brief'
  BY BriefStays DEF DecoderIInv, HarmIInv
<1> QED
  BY <1>1, <1>2, <1>3, <1>4 DEF DecoderIInv

LEMMA StutterIsSafe ==
  ASSUME DecoderIInv, UNCHANGED decoderVars
  PROVE  DecoderIInv' /\ (Unharmed => Unharmed') /\ (Brief => Brief')
<1>1. NumberTypes' /\ BitTypes' /\ Shape' /\ TowIsLast'
  BY DEF decoderVars, towVars, DecoderIInv, NumberTypes, BitTypes, Shape, TowIsLast
<1>2. Progress'
  BY DEF decoderVars, towVars, DecoderIInv, Progress, Locked, InStep, TowIsRight, LastIsRight
<1>3. (Unharmed => Unharmed') /\ (Brief => Brief')
  BY DEF decoderVars, towVars, Unharmed, Brief, InStep, TowIsRight, LastIsRight
<1> QED
  BY <1>1, <1>2, <1>3 DEF DecoderIInv

\* The invariant of the decoder, for any number of wrong frames and resets:
\* how much may still be wrong after so many good symbols.
THEOREM DecoderInductive ==
  ASSUME NoZeroTow
  PROVE  DecoderSpec => []DecoderIInv
<1>1. DecoderInit => DecoderIInv
  BY DecoderInitially DEF HarmIInv
<1>2. DecoderIInv /\ [DecoderNext]_decoderVars => DecoderIInv'
  <2> SUFFICES ASSUME DecoderIInv, [DecoderNext]_decoderVars
               PROVE  DecoderIInv'
    OBVIOUS
  <2>1. CASE Work
    BY <2>1, WorkIsSymbol, SymbolIsSafe DEF DecoderIInv
  <2>2. CASE ResetDecoder
    BY <2>2, ResetIsSafe
  <2>3. CASE Slip
    BY <2>3, SlipIsSafe
  <2>4. CASE UNCHANGED decoderVars
    BY <2>4, StutterIsSafe
  <2> QED
    BY <2>1, <2>2, <2>3, <2>4 DEF DecoderNext
<1> QED
  BY <1>1, <1>2, PTL DEF DecoderSpec

\* After five frames of good symbols, they leave with the right time of week
\* and the right phase, whatever wrong frames, slips and resets came before.
THEOREM GoodFramesSuffice ==
  ASSUME NoZeroTow
  PROVE  DecoderSpec => []GoodFramesCount
<1>1. DecoderIInv => GoodFramesCount
  BY GoodIsLocked DEF DecoderIInv, GoodFramesCount, Locked, InStep, TowIsRight, Right
<1> QED
  BY <1>1, DecoderInductive, PTL

\* The types, a wrong time that is brief, and the right one that comes back.
THEOREM RightTimeReturns ==
  ASSUME NoZeroTow, MaxWrongs <= 1
  PROVE  DecoderSpec => []TimeComesRight
<1>1. DecoderInit => HarmIInv
  BY DecoderInitially
<1>2. HarmIInv /\ [DecoderNext]_decoderVars => HarmIInv'
  <2> SUFFICES ASSUME HarmIInv, [DecoderNext]_decoderVars
               PROVE  HarmIInv'
    OBVIOUS
  <2>0. DecoderIInv /\ Unharmed /\ Brief
    BY DEF HarmIInv
  <2>1. CASE Work
    <3>1. PICK intact \in BOOLEAN : Symbol(intact)
      BY <2>0, <2>1, WorkIsSymbol DEF DecoderIInv
    <3> QED
      BY <2>0, <3>1, SymbolIsSafe DEF HarmIInv
  <2>2. CASE ResetDecoder
    BY <2>0, <2>2, ResetIsSafe DEF HarmIInv
  <2>3. CASE Slip
    BY <2>0, <2>3, SlipIsSafe DEF HarmIInv
  <2>4. CASE UNCHANGED decoderVars
    BY <2>0, <2>4, StutterIsSafe DEF HarmIInv
  <2> QED
    BY <2>1, <2>2, <2>3, <2>4 DEF DecoderNext
<1>3. HarmIInv => TimeComesRight
  <2> SUFFICES ASSUME HarmIInv
               PROVE  TimeComesRight
    OBVIOUS
  <2>1. DecoderTypeOK
    <3>1. /\ stat \in {0, 1} /\ buffered \in 0 .. Frame
          /\ sinceSync \in 0 .. Frame /\ silence \in 0 .. Silent + 1 /\ errors \in 0 .. 2
          /\ tow \in Nat /\ last \in Nat /\ sinceTow \in 0 .. Week - 1
          /\ now \in Nat /\ received \in 0 .. Frame
      BY DEF HarmIInv, DecoderIInv, NumberTypes
    <3> QED
      BY <3>1, Zenon DEF DecoderTypeOK, HarmIInv, DecoderIInv, BitTypes
  <2>2. WrongIsBrief
    <3>1. errors * Frame <= 2 * Frame /\ errors * Frame \in Nat
      <4>1. errors = 0 \/ errors = 1 \/ errors = 2
        BY DEF HarmIInv, DecoderIInv, NumberTypes
      <4> QED
        BY <4>1, Parameters
    <3>2. towSet => sinceSync <= Frame - 1
      BY Parameters DEF HarmIInv, DecoderIInv, NumberTypes, Shape
    <3>3. wrongFor \in Nat /\ sinceSync \in Nat
      BY DEF HarmIInv, DecoderIInv, NumberTypes
    <3> QED
      BY <3>1, <3>2, <3>3, Parameters DEF HarmIInv, Brief, WrongIsBrief
  <2>3. GoodFramesCount
    BY GoodIsLocked DEF HarmIInv, DecoderIInv, GoodFramesCount, Locked, InStep, TowIsRight, Right
  <2> QED
    BY <2>1, <2>2, <2>3 DEF TimeComesRight
<1> QED
  BY <1>1, <1>2, <1>3, PTL DEF DecoderSpec

\* A right time of week that was compared with the one before stays right,
\* through frames that are lost and frames that pass their parity wrongly.
THEOREM RightTowKept ==
  ASSUME NoZeroTow
  PROVE  DecoderSpec => TowStaysRight
<1>1. DecoderIInv /\ [DecoderNext]_decoderVars =>
        [towSet /\ have /\ tow % Week = now % Week /\ towSet' => tow' % Week = now' % Week]_decoderVars
  <2> SUFFICES ASSUME DecoderIInv, DecoderNext, towSet, have, tow % Week = now % Week, towSet'
               PROVE  tow' % Week = now' % Week
    BY DEF decoderVars
  <2>1. CASE Work
    BY <2>1, WorkIsSymbol, RightTowStays DEF DecoderIInv, TowIsRight
  <2>2. CASE ResetDecoder
    BY <2>2 DEF ResetDecoder
  <2>3. CASE Slip
    BY <2>3 DEF Slip, towVars
  <2> QED
    BY <2>1, <2>2, <2>3 DEF DecoderNext
<1> QED
  BY <1>1, DecoderInductive, PTL DEF DecoderSpec, TowStaysRight

\* Tracking is told of a fault only when frames really were missing.
THEOREM FaultsAreTrue ==
  ASSUME NoZeroTow
  PROVE  DecoderSpec => FaultIsTrue
<1>1. DecoderIInv /\ [DecoderNext]_decoderVars =>
        [good >= 5 * Frame /\ ~sent => ~sent']_decoderVars
  <2> SUFFICES ASSUME DecoderIInv, DecoderNext, good >= 5 * Frame, ~sent
               PROVE  ~sent'
    BY DEF decoderVars
  <2>1. CASE Work
    <3>1. Locked /\ buffered = Frame /\ sinceSync < Frame
      BY GoodIsLocked DEF DecoderIInv, Locked, Shape
    <3>2. Symbols = 1
      BY <3>1, Parameters DEF Symbols, Inserted
    <3>3. ~(silence + Symbols > Silent)
      BY <3>1, <3>2, Parameters DEF Locked, DecoderIInv, NumberTypes
    <3> QED
      BY <2>1, <3>3, Zenon DEF Work, Separation
  <2>2. CASE ResetDecoder
    BY <2>2 DEF ResetDecoder
  <2>3. CASE Slip
    BY <2>3 DEF Slip
  <2> QED
    BY <2>1, <2>2, <2>3 DEF DecoderNext
<1> QED
  BY <1>1, DecoderInductive, PTL DEF DecoderSpec, FaultIsTrue
=============================================================================
