\* A stream whose client leaves before the body is iterated.
CONSTANTS
  r1 = r1
  s1 = s1
  s2 = s2
  Runs = {r1}
  Streams = {s1}
  MaxQueue = 1
SPECIFICATION FairSpec
PROPERTY TempFileBelongsToTheStream
CHECK_DEADLOCK FALSE
