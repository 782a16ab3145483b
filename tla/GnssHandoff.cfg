\* The ordered GNSS handoff with a queue of two chunks, under fairness.
SPECIFICATION FairSpec
CONSTANTS
  Cap = 2
  MaxChunks = 3
INVARIANTS HandoffIsSound MonitorAligned ReceiverReleased
PROPERTIES StreamSpec EndsWithReceiver AcceptedIsHandedOver
CHECK_DEADLOCK FALSE
