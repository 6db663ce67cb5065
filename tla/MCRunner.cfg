\* Two synchronous and three streaming calls compete for two slots.
CONSTANTS
  r1 = r1
  r2 = r2
  s1 = s1
  s2 = s2
  s3 = s3
  Runs = {r1, r2}
  Streams = {s1, s2, s3}
  MaxQueue = 2
  Cancellable = {}
SPECIFICATION Spec
SYMMETRY CallSymmetry
INVARIANT LoadBounded
PROPERTIES RefusedOnlyWhenFull ImplementsAdmission
