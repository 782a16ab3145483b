\* Three chunks over queues of two, as in the code: both queues overflow.
SPECIFICATION FairSpec
CONSTANTS
  Capacity = 2
  MaxChunks = 3
INVARIANT QueuesServe
PROPERTIES OnlyNewer StagesProgress
CHECK_DEADLOCK FALSE
