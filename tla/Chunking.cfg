\* The shipped proportions on a coarse grid: audio of up to 14 ticks, up to
\* three intervals, blocks that need up to three parts.
CONSTANTS
  MinDuration = 3
  MaxDuration = 4
  StrictLimit = 6
  NewChunkThreshold = 1
  Horizon = 14
  MaxIntervals = 3
SPECIFICATION Spec
INVARIANTS FitsTheModel InOrder SpeechKept CutsInPauses NoNeedlessCuts
CHECK_DEADLOCK FALSE
