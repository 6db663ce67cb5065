\* The same audio, for what the README says of VAD_MIN_DURATION.
CONSTANTS
  MinDuration = 3
  MaxDuration = 4
  StrictLimit = 6
  NewChunkThreshold = 1
  Horizon = 14
  MaxIntervals = 3
SPECIFICATION Spec
INVARIANT MinSegmentLength
CHECK_DEADLOCK FALSE
