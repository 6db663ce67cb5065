--------------------------- MODULE MCTranscriptions ---------------------------
(* The handler with a few concurrent requests. *)
EXTENDS Transcriptions

CONSTANTS r1, s1, s2
===============================================================================
