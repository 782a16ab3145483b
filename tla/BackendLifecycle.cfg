\* Two runs and a stop at any moment, with and without a preserved USRP session.
SPECIFICATION FairSpec
CONSTANTS
  MaxRuns = 2
  MaxStops = 1
INVARIANTS RunsEndClean FailureReasonKept
PROPERTIES OutcomeIsFinal StopEndsRun
CHECK_DEADLOCK FALSE
