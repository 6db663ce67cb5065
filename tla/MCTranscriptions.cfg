\* A synchronous request and two streams, two slots.
CONSTANTS
  r1 = r1
  s1 = s1
  s2 = s2
  Runs = {r1}
  Streams = {s1, s2}
  MaxQueue = 2
SPECIFICATION FairSpec
INVARIANTS FileUntilTheWorkerIsDone NothingLeftBehind OnlyTheGoneAreCancelled
PROPERTIES SyncAnswered StalledClientFreesWorker GoneFreesEverything ShutdownFreesEverything
CHECK_DEADLOCK FALSE
