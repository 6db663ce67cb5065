---------------------------- MODULE EngineContract ----------------------------
(***************************************************************************)
(* What a call of the ASREngine protocol (gigaam_api/asr/engine.py)        *)
(* promises to the runner's jobs, whatever the backend: the segments come  *)
(* in order, each once; the call succeeds only when all were handed over;  *)
(* it is "cancelled" only when cancel_check() asks for it.                 *)
(***************************************************************************)
EXTENDS Naturals, Sequences

VARIABLES total,   \* how many segments the audio has
          given,   \* the numbers of the segments handed over
          asked,   \* cancel_check() returns True
          end      \* "open", "ok", "cancelled" or "failed"

vars == <<total, given, asked, end>>

First(n) == [i \in 1..n |-> i]

Init == total \in Nat /\ given = <<>> /\ asked = FALSE /\ end = "open"

Ask ==
  /\ asked' = TRUE
  /\ UNCHANGED <<total, given, end>>

Give ==
  /\ end = "open" /\ Len(given) < total
  /\ given' = First(Len(given) + 1)
  /\ UNCHANGED <<total, asked, end>>

\* transcribe() hands over everything when it returns, iter_segments() has
\* nothing left to hand over.
Succeed ==
  /\ end = "open"
  /\ given' = First(total)
  /\ end' = "ok"
  /\ UNCHANGED <<total, asked>>

\* A cancelled call has left something undone.
Cancel ==
  /\ end = "open" /\ asked /\ Len(given) < total
  /\ end' = "cancelled"
  /\ UNCHANGED <<total, given, asked>>

Fail ==
  /\ end = "open"
  /\ end' = "failed"
  /\ UNCHANGED <<total, given, asked>>

Next == Ask \/ Give \/ Succeed \/ Cancel \/ Fail

Spec == Init /\ [][Next]_vars
===============================================================================
