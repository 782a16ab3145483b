\* Three channels that search two at a time, in seven receivers. A receiver on
\* standby, or one that tracks what there is, may have nothing left to do.
SPECIFICATION FairSpec
CONSTANTS
    None = None
    N = 3
    MaxAcq = 2
    Primary = "1C"
    Elevation <- HighestFirst
    Receivers <- SevenReceivers
    MaxCommands = 1
INVARIANT PoolIsConsistent
PROPERTY PoolServes
CHECK_DEADLOCK FALSE
