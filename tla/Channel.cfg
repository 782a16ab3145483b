\* One channel, with every setting of its acquisition, telecommands and a stop
\* at any time. The receiver may come to rest: on standby, or in the deadlock of
\* a stop that the README describes.
SPECIFICATION FairChannelSpec
CONSTANTS
    SearchList = {s1, s2}
    Blocking = {TRUE, FALSE}
    Repeat = {TRUE, FALSE}
    TwoSteps = TRUE
    MaxDwells = 2
    MaxCommands = 2
    MayStop = TRUE
INVARIANTS ChannelIsAlive TrackedIsAcquired
PROPERTY SearchesGoOn
CHECK_DEADLOCK FALSE
