\* A source per satellite under fairness: one command of the operator, and the
\* automatic arming; protection weights that change, common weights stay uniform.
SPECIFICATION FairSpec
CONSTANTS
  Ramp = 1
  MinUpdates = 2
  Fanout = TRUE
  AutoArm = TRUE
  Hold = 0
  Satellites = {1}
  Fits = {TRUE}
  MaxCommands = 1
  Common = {}
  Measured = {3, 4}
INVARIANT ProtectionIsWanted
PROPERTY NullReachesSource
CHECK_DEADLOCK FALSE
