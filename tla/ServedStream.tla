----------------------------- MODULE ServedStream -----------------------------
(***************************************************************************)
(* The stream (StreamBridge) with the engine behind it: make_iter() keeps  *)
(* the contract that Engine is shown to implement (EngineContract), and    *)
(* the event that the generators set is the one the engine looks at.       *)
(***************************************************************************)
EXTENDS StreamBridge

VARIABLES total,   \* how many segments the audio has
          end      \* how the engine call ended, as in EngineContract

served == <<vars, total, end>>

C == INSTANCE EngineContract
       WITH given <- [i \in 1..Len(produced) |-> i], asked <- cancel

ServedInit == Init /\ total \in 0..MaxSegments /\ end = "open"

\* `for segment in make_iter()`.
Give(t) == Emit(t) /\ C!Give

\* The iterator is exhausted.
Exhausted == Finish /\ producer' = "done" /\ C!Succeed

\* It raises: EngineCancelled, or what went wrong.
Raises == Finish /\ producer' = "error" /\ (C!Cancel \/ C!Fail)

Iterate == (\E t \in Texts : Give(t)) \/ Exhausted \/ Raises

\* Whatever else happens leaves the engine alone, but for the event.
Around(A) == A /\ UNCHANGED <<total, end>>

ServedNext == Iterate \/ Around(ProducerStart \/ OnDone \/ Put \/ Consume \/ Respond \/ Collect)

ServedSpec == ServedInit /\ [][ServedNext]_served

------------------------------------------------------------------------------
(* What the client can rely on. *)

\* A client that is told the text, and [DONE], is told the text of the whole
\* audio: no failure, and no cancellation racing the last segments, is ever
\* taken for the end of the audio.
DoneTellsAll ==
  OfType("done") \cup OfType("[DONE]") # {} => end = "ok" /\ Len(produced) = total

\* The error event of a stream is about a failure of the engine; nobody is
\* sent the error of a cancellation.
ErrorsAreFailures ==
  OfType("error") # {} => end = "failed"

(***************************************************************************)
(* Inductive together with StreamBridge's (StreamBridgeProofs.tla): an     *)
(* engine call is cancelled only when nothing more will be sent.           *)
(***************************************************************************)
EndsAgree ==
  /\ total \in Nat
  /\ producer = "done" => end = "ok" /\ Len(produced) = total
  /\ producer = "error" => end \in {"failed", "cancelled"}
  /\ producer \notin {"done", "error"} => end = "open"
  /\ end = "cancelled" => consumer \in {"closed", "dropped"} /\ OfType("error") = {}
===============================================================================
