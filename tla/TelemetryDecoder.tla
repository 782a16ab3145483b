-------------------------- MODULE TelemetryDecoder --------------------------
(***************************************************************************)
(* The GPS L1 C/A telemetry decoder (gps_l1_ca_telemetry_decoder_gs) of a  *)
(* channel: symbols come from tracking, frames are found by their preamble *)
(* and accepted by parity and by the continuity of their time of week, and *)
(* every symbol leaves with the time of week once it is known.             *)
(*                                                                         *)
(* Time is counted in symbols; a frame starts with its preamble and says   *)
(* when the next one starts.  A frame that is all there is heard as it is; *)
(* one that is not may still pass all its parity checks ("wrongs" bounds   *)
(* that) and say anything.                                                 *)
(***************************************************************************)
EXTENDS Integers

CONSTANTS
    Frame,      \* GPS_SUBFRAME_BITS
    Preamble,   \* GPS_CA_PREAMBLE_LENGTH_BITS
    Week,       \* GPS_WEEK_SECONDS, in symbols
    Silent,     \* d_max_symbols_without_valid_frame
    WrongTows,  \* bound: what a wrong frame may say; the field holds more
                \* than a week
    Horizon,    \* bound: symbols of the signal
    MaxWrongs,  \* bound: wrong frames that pass, and slips of the phase
    MaxResets   \* bound

ASSUME DecoderAssumption ==
    /\ {Frame, Preamble, Week, Silent} \subseteq Nat \ {0}
    /\ Preamble < Frame /\ Week % Frame = 0
    /\ Frame <= Silent  \* 20 frames
    /\ \A t \in WrongTows : t \in Nat /\ t % Frame = 0  \* a count of frames
    /\ {Horizon, MaxWrongs, MaxResets} \subseteq Nat

VARIABLES
    stat,      \* d_stat
    buffered,  \* symbols in d_symbol_history
    sinceSync, \* d_sample_counter - d_preamble_index, up to Frame
    silence,   \* d_sample_counter - d_last_valid_preamble, up to Silent + 1
    sent,      \* d_sent_tlm_failed_msg
    errors,    \* d_CRC_error_counter
    inverted,  \* d_flag_PLL_180_deg_phase_locked
    carried,   \* a bit of the last word is set, of the two the next starts with
               \* (d_prev_GPS_frame_4bytes); those of a frame's end are zero
    tow,       \* d_TOW_at_current_symbol_ms
    towSet,    \* d_flag_TOW_set
    have,      \* d_have_last_decoded_tow
    last,      \* d_last_decoded_tow_s
    sinceTow,  \* d_sample_counter - d_last_decoded_tow_sample_counter
    \* the signal
    now,       \* when the coming symbol starts
    flipped,   \* the carrier loop is locked half a cycle off
    received,  \* whole symbols received in a row, up to Frame
    good,      \* the same without a wrong frame or a reset between
    wrongFor,  \* symbols that left with a wrong time or phase, in a row
    wrongs, resets

towVars == <<tow, towSet, have, last, sinceTow>>
decoderVars ==
    <<stat, buffered, sinceSync, silence, sent, errors, inverted, carried,
      towVars, now, flipped, received, good, wrongFor, wrongs, resets>>

Least(a, b) == IF a <= b THEN a ELSE b

DecoderInit ==
    /\ stat = 0 /\ buffered = 0 /\ sinceSync = 0 /\ silence = 0 /\ sent = FALSE
    /\ errors = 0 /\ inverted = FALSE /\ carried = FALSE /\ tow = 0 /\ towSet = FALSE
    /\ have = FALSE /\ last = 0 /\ sinceTow = 0
    /\ now \in 0 .. Frame - 1 /\ flipped = FALSE
    /\ received = 0 /\ good = 0 /\ wrongFor = 0 /\ wrongs = 0 /\ resets = 0

-----------------------------------------------------------------------------
(* The symbol that general_work takes from its input.                      *)

\* The preamble is inserted before the first symbol after a reset.
Inserted == IF buffered = 0 THEN Preamble ELSE 0
Symbols == Inserted + 1

\* What is inserted is right when the first symbol follows a preamble.
Received(intact) ==
    /\ buffered' = Least(buffered + Symbols, Frame)
    /\ received' = IF ~intact THEN 0
                   ELSE IF Inserted = 0 THEN Least(received + 1, Frame)
                   ELSE IF now % Frame = Preamble THEN Preamble + 1 ELSE 1

\* check_tlm_separation: a fault to tracking, once.
Separation ==
    sent' = (sent \/ silence + Symbols > Silent)

-----------------------------------------------------------------------------
(* A frame that is heard, and whether it is accepted.                      *)

Whole == received' = Frame /\ now % Frame = Frame - 1
NextFrame == (now + 1) % Week

\* is_tow_consistent: two seconds, a third of a frame, are tolerated.
\* Fault: every time is.
AnyTow(heard) == TRUE
Consistent(heard) ==
    LET expected == (last + sinceTow + Symbols) % Week
        error == Least((heard - expected) % Week, (expected - heard) % Week)
    IN  have => 3 * error <= Frame

\* A time that agrees with the last becomes the last; another discards it.
Compare(heard) ==
    IF Consistent(heard)
    THEN have' = TRUE /\ last' = heard /\ sinceTow' = 0
    ELSE /\ have' = FALSE
         /\ UNCHANGED last /\ sinceTow' = (sinceTow + Symbols) % Week

NotCompared ==
    UNCHANGED <<have, last>> /\ sinceTow' = (sinceTow + Symbols) % Week

\* The time of week of an accepted frame; zero is taken for none.
Adopt(heard, set) ==
    IF heard # 0 THEN tow' = heard /\ towSet' = TRUE
    ELSE UNCHANGED tow /\ towSet' = set

Advance == UNCHANGED towSet /\ tow' = IF towSet THEN tow + 1 ELSE tow

Count == silence' = Least(silence + Symbols, Silent + 1)

\* What every accepted frame does.
\* Fault: it does not end the silence.
AcceptsSilently == stat' = 1 /\ errors' = 0 /\ sinceSync' = 0 /\ Count
Accept == stat' = 1 /\ errors' = 0 /\ sinceSync' = 0 /\ silence' = 0

-----------------------------------------------------------------------------
(* frame_synchronization, and the rest of general_work.                    *)

\* State 0: nothing found at this symbol.
NoFrame ==
    /\ stat = 0 /\ ~(buffered' = Frame /\ Whole)
    /\ Count /\ NotCompared
    /\ sinceSync' = Least(sinceSync + Symbols, Frame)
    /\ towSet' = FALSE
    /\ UNCHANGED <<stat, errors, inverted, tow>>

\* State 0: a preamble at the head of the history, and a frame after it.
Found(heard) ==
    /\ stat = 0 /\ buffered' = Frame
    /\ Compare(heard)
    /\ IF Consistent(heard)
       THEN Accept /\ Adopt(heard, FALSE)
       ELSE /\ Count /\ sinceSync' = 0 /\ towSet' = FALSE
            /\ UNCHANGED <<stat, errors, tow>>

\* State 1: between two frames.
Between ==
    /\ stat = 1 /\ sinceSync + Symbols < Frame
    /\ sinceSync' = sinceSync + Symbols
    /\ Count /\ NotCompared /\ Advance
    /\ UNCHANGED <<stat, errors, inverted>>

Due == stat = 1 /\ sinceSync + Symbols >= Frame

\* State 1: the next frame is right.
Confirmed(heard) ==
    /\ Due /\ Consistent(heard)
    /\ Compare(heard) /\ Accept /\ Adopt(heard, towSet)
    /\ UNCHANGED inverted

\* State 1: it is not, or it contradicts the last; after three, all is lost.
\* Fault: the errors are not counted.
NeverTooMany == FALSE
TooMany == errors + 1 > 2

FrameFails ==
    /\ Due /\ sinceSync' = 0 /\ Count
    /\ IF TooMany
       THEN stat' = 0 /\ errors' = 0 /\ tow' = 0 /\ towSet' = FALSE
       ELSE errors' = errors + 1 /\ UNCHANGED stat /\ Advance
    /\ UNCHANGED inverted

\* In state 1 a whole frame needs the phase that the preamble had, and its
\* first word the end of the frame before.
Passes == inverted = flipped /\ ~carried

\* A frame heard as it was sent.
HearRight ==
    /\ Whole
    /\ \/ Found(NextFrame) /\ inverted' = flipped
       \/ Passes /\ Confirmed(NextFrame)
       \/ Passes /\ ~Consistent(NextFrame)
          /\ Compare(NextFrame) /\ FrameFails

HearNothing ==
    \/ NoFrame
    \/ Between
    \/ ~(Whole /\ Passes) /\ NotCompared /\ FrameFails

\* A wrong frame passes: at a false preamble, or where one is due.
HearWrong ==
    /\ ~Whole /\ wrongs < MaxWrongs
    /\ \E heard \in WrongTows :
        \/ Found(heard) /\ inverted' \in BOOLEAN
        \/ Confirmed(heard)
        \/ ~Consistent(heard) /\ Compare(heard) /\ FrameFails

\* The end of what was decoded; a search (state 0) starts without one.
Carry ==
    carried' \in IF stat' = 0 THEN {FALSE}
                 ELSE IF stat = 1 /\ ~Due THEN {carried}
                 ELSE IF Whole THEN {inverted' # flipped} ELSE BOOLEAN

Right == tow % Week = now % Week /\ inverted = flipped

\* One call of general_work.
Work ==
    /\ now < Horizon
    /\ \E intact \in BOOLEAN :
        /\ Received(intact)
        /\ \/ /\ HearRight \/ HearNothing
              /\ UNCHANGED wrongs
              /\ good' = IF intact THEN Least(good + 1, 6 * Frame) ELSE 0
           \/ HearWrong /\ wrongs' = wrongs + 1 /\ good' = 0
    /\ Carry /\ Separation
    /\ now' = now + 1
    /\ UNCHANGED <<flipped, resets>>
    /\ wrongFor' = IF towSet' /\ ~Right' THEN Least(wrongFor + 1, 6 * Frame) ELSE 0

\* reset, at the next search of the channel; the signal is heard again later.
ResetDecoder ==
    /\ resets < MaxResets /\ resets' = resets + 1
    /\ stat' = 0 /\ carried' = FALSE /\ buffered' = 0 /\ silence' = 0 /\ sent' = FALSE
    /\ towSet' = FALSE /\ have' = FALSE /\ last' = 0 /\ sinceTow' = 0
    /\ now' \in now + 1 .. now + Frame /\ received' = 0 /\ good' = 0
    /\ flipped' \in BOOLEAN /\ wrongFor' = 0
    /\ UNCHANGED <<sinceSync, errors, inverted, tow, wrongs>>

\* The carrier loop slips by half a cycle.
Slip ==
    /\ wrongs < MaxWrongs /\ wrongs' = wrongs + 1
    /\ flipped' = ~flipped /\ received' = 0 /\ good' = 0
    /\ UNCHANGED <<stat, buffered, sinceSync, silence, sent, errors, inverted,
                   carried, towVars, now, wrongFor, resets>>

DecoderNext == Work \/ ResetDecoder \/ Slip
DecoderSpec == DecoderInit /\ [][DecoderNext]_decoderVars

-----------------------------------------------------------------------------
(* Properties.                                                             *)

DecoderTypeOK ==
    /\ stat \in {0, 1} /\ buffered \in 0 .. Frame
    /\ sinceSync \in 0 .. Frame /\ silence \in 0 .. Silent + 1
    /\ sent \in BOOLEAN /\ errors \in 0 .. 2 /\ inverted \in BOOLEAN
    /\ carried \in BOOLEAN /\ towSet \in BOOLEAN /\ tow \in Nat
    /\ have \in BOOLEAN /\ last \in Nat /\ sinceTow \in 0 .. Week - 1
    /\ now \in Nat /\ flipped \in BOOLEAN /\ received \in 0 .. Frame

\* A time of week that is right and was compared stays right: one frame that
\* passes its parity by chance, or a lost frame, cannot move it.
TowStaysRight ==
    [][towSet /\ have /\ tow % Week = now % Week /\ towSet'
        => tow' % Week = now' % Week]_decoderVars

\* A wrong time of week, or a phase that is half a cycle off, goes out for
\* three frames at most.
WrongIsBrief == wrongFor <= 3 * Frame

\* Once the symbols have been good for five frames, they leave with the right
\* time of week, whatever happened before.
GoodFramesCount == good >= 5 * Frame => towSet /\ Right

\* A wrong time is brief and a right one comes back.
TimeComesRight == DecoderTypeOK /\ WrongIsBrief /\ GoodFramesCount

\* Tracking is not told of a fault while the symbols are good: the message
\* is about frames that really were missing.
FaultIsTrue == [][good >= 5 * Frame /\ ~sent => ~sent']_decoderVars
=============================================================================
