------------------------------- MODULE MCRunner -------------------------------
(* Runner on a handful of calls. *)
EXTENDS Runner, TLC

CONSTANTS r1, r2, s1, s2, s3

\* Calls of the same kind are interchangeable (safety runs only).
CallSymmetry == Permutations(Runs) \cup Permutations(Streams)
==============================================================================
