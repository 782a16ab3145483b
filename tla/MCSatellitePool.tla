-------------------------- MODULE MCSatellitePool --------------------------
(***************************************************************************)
(* Receivers for SatellitePool: short lists of satellites, three channels  *)
(* on one or two signals.                                                  *)
(***************************************************************************)
EXTENDS SatellitePool

OneBand  == [c \in 0 .. N - 1 |-> "1C"]
LastOn2S == [c \in 0 .. N - 1 |-> IF c = N - 1 THEN "2S" ELSE "1C"]

NoneFixed  == [c \in 0 .. N - 1 |-> None]
TheLastOne == [c \in 0 .. N - 1 |-> IF c = N - 1 THEN 2 ELSE None]

HighestFirst == <<3, 2>>

\* As few satellites to spare as a receiver of one signal accepts.
Single == [list |-> <<1, 2, 3, 4>>, band |-> OneBand, systemBands |-> {"1C"}, needAssistance |-> FALSE,
           fixed |-> NoneFixed, assisted |-> FALSE, inView |-> {3, 4}, commands |-> {}, mayLose |-> TRUE]

\* The last channel is fixed to a satellite.
WithFixed == [Single EXCEPT !.fixed = TheLastOne]

\* The last channel searches a second signal, and waits for the first, whose two
\* channels may lose the satellites they track.
TwoSignals == [Single EXCEPT !.list = <<1, 2, 3>>, !.band = LastOn2S, !.systemBands = {"1C", "2S"},
                             !.needAssistance = TRUE, !.inView = {2, 3}]

\* A start command reorders the lists while it runs, and nothing is lost.
Restarted == [TwoSignals EXCEPT !.commands = {"coldstart", "hotstart", "warmstart"}, !.mayLose = FALSE]

\* Standby and a start after it, at any time.
OnStandby == [Single EXCEPT !.inView = {1}, !.commands = {"standby", "coldstart"}]

\* Assistance at start-up, with any events of the channels waiting behind it.
StartsAssisted == [Single EXCEPT !.inView = {1}, !.assisted = TRUE]

\* Five satellites, two in view, which are not lost again.
Patient == [Single EXCEPT !.list = <<1, 2, 3, 4, 5>>, !.mayLose = FALSE]

SevenReceivers ==
    {Single, WithFixed, TwoSignals, Restarted, OnStandby, StartsAssisted, Patient}
=============================================================================
