\* Two chunks to three sources over FIFOs of one sample, in lockstep or not, with
\* and without a slow reader or writer; readers may stop for good.
SPECIFICATION FairSpec
CONSTANTS
  N = 3
  Stripe = 3
  Stripes = 2
  PipeSize = 1
  MaxChunks = 2
  Window = 1
INVARIANTS WritesAreFair NoCircularWait
PROPERTY BridgeProgress
CHECK_DEADLOCK FALSE
