\* Uploads of none to three reads of two around a limit of four, audios at and
\* over a limit of two seconds, on a machine that starts torch with 8 threads;
\* one kind of file left behind at a time.
CONSTANTS
  Configurations <- StrictAndLax
  Cores = {8}
  CHUNK = 2
  Sizes = {0, 1, 3, 4, 5, 6}
  Lengths = {2, 3}
  MaxLeft = 1
SPECIFICATION Spec
INVARIANTS UploadWithinLimit WholeUpload OnlyAcceptableInferred  InferenceThreads
