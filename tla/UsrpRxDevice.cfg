\* The device under two controls, the RX thread and the finalizer.
SPECIFICATION FairSpec
CONSTANTS
  Controls = {c1, c2}
  Packets = 2
INVARIANTS StreamerIsSafe QuietAtEnd
PROPERTIES StreamControlSpec CloseCompletes
CHECK_DEADLOCK FALSE
