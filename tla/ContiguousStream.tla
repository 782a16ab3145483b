-------------------------- MODULE ContiguousStream --------------------------
(***************************************************************************)
(* What the ordered GNSS handoff promises the GNSS-SDR process: the FIFO   *)
(* carries the received chunks one after the other, none missing, none     *)
(* repeated, none out of order, and once the FIFO is sealed (closed, or    *)
(* torn by a failed write) it carries nothing more.                        *)
(***************************************************************************)
EXTENDS Naturals, Sequences

VARIABLES stream,   \* the chunk numbers the FIFO carried, oldest first
          sealed    \* nothing may follow any more

Init == stream = << >> /\ sealed = FALSE

\* The next received chunk, and no other, goes into an unsealed FIFO.
Deliver == /\ ~sealed
           /\ stream' = Append(stream, Len(stream) + 1)
           /\ UNCHANGED sealed

Seal == sealed' = TRUE /\ UNCHANGED stream

Next == Deliver \/ Seal

Spec == Init /\ [][Next]_<<stream, sealed>>
=============================================================================
