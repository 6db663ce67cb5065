------------------------------- MODULE MCIntake -------------------------------
(* Intake with a strict and an open configuration. *)
EXTENDS Intake

\* All limits set, and all switched off; the CPU, and whatever there is.
Strict == [DEVICE |-> "cpu", NUM_THREADS |-> 4, MAX_UPLOAD |-> 4,
           MAX_AUDIO_SECONDS |-> 2, API_KEY |-> TRUE]
Lax    == [DEVICE |-> "auto", NUM_THREADS |-> 2, MAX_UPLOAD |-> 0,
           MAX_AUDIO_SECONDS |-> 0, API_KEY |-> FALSE]
StrictAndLax == {Strict, Lax}
===============================================================================
