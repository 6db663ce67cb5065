\* A run() whose awaiting task is cancelled competes with another one and two
\* streams for two slots, fairly.
CONSTANTS
  r1 = r1
  r2 = r2
  s1 = s1
  s2 = s2
  s3 = s3
  Runs = {r1, r2}
  Streams = {s1, s2}
  MaxQueue = 2
  Cancellable = {r1}
SPECIFICATION FairSpec
INVARIANT SlotAccounting
PROPERTIES NoOvertaking ServedInTurn SlotsComeBack
