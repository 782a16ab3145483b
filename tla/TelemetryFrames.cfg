\* Fifteen frames around one wrong frame, one slip or one reset.  A wrong frame
\* may say a time before, after, far away or past the end of the week.
SPECIFICATION DecoderSpec
CONSTANTS
    Frame = 3
    Preamble = 1
    Week = 60
    Silent = 18
    WrongTows = {3, 15, 30, 69}
    Horizon = 45
    MaxWrongs = 1
    MaxResets = 1
INVARIANT TimeComesRight
PROPERTIES TowStaysRight FaultIsTrue
CHECK_DEADLOCK FALSE
