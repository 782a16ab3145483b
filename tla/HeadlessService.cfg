\* A start, a stop and one of the other things that may happen, with and without
\* --auto-start, over a queue of one event, which every second event finds full.
SPECIFICATION FairSpec
CONSTANTS
  QueueSize = 1
  MaxStarts = 1
  MaxStops = 1
  MaxChances = 1
  MayAutoStart = TRUE
  Chances = {"signal", "failure", "note", "cut"}
INVARIANTS ServiceIsTruthful ViewFollows
PROPERTIES GuiIsAnswered ShutdownStops
CHECK_DEADLOCK FALSE
