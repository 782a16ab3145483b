---------------------------- MODULE StreamControl ----------------------------
(***************************************************************************)
(* What UsrpRxDevice promises of the UHD stream it owns: a stream is       *)
(* started when it is idle, paused when it is live, and once the device is *)
(* closed it never carries samples again.                                  *)
(***************************************************************************)
VARIABLE stream

Init == stream = "idle"

Start == stream = "idle" /\ stream' = "live"
Pause == stream = "live" /\ stream' = "idle"
Close == stream # "closed" /\ stream' = "closed"

Next == Start \/ Pause \/ Close

Spec == Init /\ [][Next]_stream
=============================================================================
