\* Two channels and two satellites, with readers that keep up and readers that
\* do not. Nothing happens any more when the runs are used up.
SPECIFICATION FairSpec
CONSTANTS
  NoSat = NoSat
  NoChan = NoChan
  Chans = {c1, c2}
  Sats = {A, B}
  MaxRuns = 2
  MaxLines = 2
  MaxPackets = 1
INVARIANTS ShownIsOwn RunIsFresh
PROPERTY TrackedIsShown
CHECK_DEADLOCK FALSE
