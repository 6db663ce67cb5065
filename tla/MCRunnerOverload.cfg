\* The cap on the load when the task awaiting run() is cancelled: it competes
\* with another run() and a stream for two slots.
CONSTANTS
  r1 = r1
  r2 = r2
  s1 = s1
  s2 = s2
  s3 = s3
  Runs = {r1, r2}
  Streams = {s1}
  MaxQueue = 2
  Cancellable = {r1}
SPECIFICATION Spec
INVARIANT LoadBounded
