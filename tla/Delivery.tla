------------------------------- MODULE Delivery -------------------------------
(***************************************************************************)
(* What one SSE response promises its client, without threads, queues or   *)
(* frames: it is shown what the engine makes, in order, each text once and *)
(* none skipped; "done" is said only after everything made was shown, and  *)
(* "error" only when the engine failed, after everything made before that. *)
(***************************************************************************)
EXTENDS Sequences, Naturals

CONSTANT Texts

VARIABLES made,      \* the texts the engine has made
          source,    \* "open" until the engine is "done" or in "error"
          shown,     \* the texts the client was shown
          verdict    \* "open", "done", "error", or "cut" by the client

vars == <<made, source, shown, verdict>>

Init == made = <<>> /\ source = "open" /\ shown = <<>> /\ verdict = "open"

Make(t) ==
  /\ source = "open"
  /\ made' = Append(made, t)
  /\ UNCHANGED <<source, shown, verdict>>

Stop(r) ==
  /\ source = "open"
  /\ source' = r
  /\ UNCHANGED <<made, shown, verdict>>

Show ==
  /\ verdict = "open" /\ Len(shown) < Len(made)
  /\ shown' = Append(shown, made[Len(shown) + 1])
  /\ UNCHANGED <<made, source, verdict>>

Conclude ==
  /\ verdict = "open" /\ source # "open" /\ shown = made
  /\ verdict' = source
  /\ UNCHANGED <<made, source, shown>>

Cut ==
  /\ verdict = "open"
  /\ verdict' = "cut"
  /\ UNCHANGED <<made, source, shown>>

Next ==
  \/ \E t \in Texts : Make(t)
  \/ \E r \in {"done", "error"} : Stop(r)
  \/ Show \/ Conclude \/ Cut

Spec == Init /\ [][Next]_vars
===============================================================================
