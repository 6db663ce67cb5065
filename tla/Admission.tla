------------------------------ MODULE Admission ------------------------------
(***************************************************************************)
(* What gigaam_api/runner.py promises its callers, without the counter,    *)
(* the lock, the thread pool or the futures: at most MaxQueue jobs hold a  *)
(* slot, one job at a time is in inference, inference needs a slot, and a  *)
(* slot is given back only when the job is not (or no longer) in inference.*)
(***************************************************************************)
EXTENDS Integers, FiniteSets

CONSTANTS Jobs,      \* the calls that may ask for inference
          MaxQueue   \* settings.MAX_QUEUE

VARIABLES held,      \* the jobs that hold a slot
          active     \* the job in inference, as a set of at most one

vars == <<held, active>>

Init == held = {} /\ active = {}

Admit(j) ==
  /\ j \notin held
  /\ Cardinality(held) < MaxQueue
  /\ held' = held \cup {j}
  /\ UNCHANGED active

Begin(j) ==
  /\ active = {}
  /\ j \in held
  /\ active' = {j}
  /\ UNCHANGED held

End ==
  /\ active # {}
  /\ active' = {}
  /\ UNCHANGED held

Leave(j) ==
  /\ j \in held \ active
  /\ held' = held \ {j}
  /\ UNCHANGED active

Next ==
  \/ \E j \in Jobs : Admit(j) \/ Begin(j) \/ Leave(j)
  \/ End

Spec == Init /\ [][Next]_vars
==============================================================================
