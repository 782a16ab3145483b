\* One beam under fairness: two commands, ramps of two chunks, a release hold.
SPECIFICATION FairSpec
CONSTANTS
  Ramp = 2
  MinUpdates = 2
  Fanout = FALSE
  AutoArm = FALSE
  Hold = 1
  Satellites = {1}
  Fits = {TRUE}
  MaxCommands = 2
  Common = {1}
  Measured = {3}
INVARIANT ProtectionIsWanted
PROPERTIES ReleaseIsHeld ControlSettles
CHECK_DEADLOCK FALSE
