-------------------------------- MODULE Engine --------------------------------
(***************************************************************************)
(* gigaam_api/asr/gigaam_engine.py: one transcribe() or iter_segments()    *)
(* call in the worker thread, while another thread may set the event that  *)
(* cancel_check() reads.  A segment is the number of its chunk.            *)
(***************************************************************************)
EXTENDS Integers, Sequences

CONSTANTS BatchSize,   \* settings.BATCH_SIZE
          MaxChunks    \* bound on the chunks of one audio

ASSUME EngineAssumption == BatchSize \in Nat \ {0} /\ MaxChunks \in Nat

VARIABLES mode,      \* "sync" for transcribe, "stream" for iter_segments
          audio,     \* its length class and its number of VAD chunks
          at,        \* where the call stands
          idx,       \* batch_idx
          taken,     \* how far chunks_iter has advanced
          batch,     \* segments decoded, not yet yielded by _iter_chunks
          made,      \* segments _iter_chunks has yielded, or the short one
          given,     \* segments the caller has got
          asked,     \* cancel_check() returns True
          late       \* history: batches decoded although asked

vars == <<mode, audio, at, idx, taken, batch, made, given, asked, late>>

(***************************************************************************)
(* "near": ffprobe says 25 s at most and gigaam, by samples, more; "over": *)
(* above MAX_AUDIO_SECONDS.                                                *)
(***************************************************************************)
Lengths  == {"short", "near", "long", "over"}
Failures == {"too_long", "undecodable", "no_tool", "crashed", "cancelled"}
Ended    == {"returned"} \cup Failures

\* A broken file or no ffprobe; a broken file or no ffmpeg.
ProbeFailures  == {"undecodable", "no_tool"}
DecodeFailures == {"undecodable", "no_tool"}

Total == IF audio.length = "short" THEN 1 ELSE audio.chunks

\* The segments k+1, ..., k+m.
From(k, m) == [i \in 1..m |-> k + i]

Init ==
  /\ mode \in {"sync", "stream"}
  /\ audio \in [length : Lengths, chunks : 0..MaxChunks]
  /\ at = "probing"
  /\ idx = 0 /\ taken = 0 /\ batch = <<>>
  /\ made = <<>> /\ given = <<>>
  /\ asked = FALSE /\ late = 0

Go(place) == at' = place /\ UNCHANGED <<mode, audio, asked>>
Raise(failures) ==
  /\ \E f \in failures : Go(f)
  /\ UNCHANGED <<idx, taken, batch, made, given, late>>

------------------------------------------------------------------------------
(* Routing by duration. *)

\* probe_duration, the limit, the 25 s threshold.
Probe ==
  /\ at = "probing"
  /\ \/ Raise(ProbeFailures)
     \/ audio.length = "over" /\ Raise({"too_long"})
     \/ /\ Go(IF audio.length = "long" THEN "preparing" ELSE "short")
        /\ audio.length # "over"
        /\ UNCHANGED <<idx, taken, batch, made, given, late>>

\* model.transcribe, which never looks at cancel_check; its "too long" is the
\* way to longform.
TranscribeShort ==
  /\ at = "short"
  /\ \/ Raise({"undecodable", "crashed"})
     \/ /\ audio.length = "short" /\ Go("handing") /\ made' = From(0, 1)
        /\ UNCHANGED <<idx, taken, batch, given, late>>
     \/ /\ audio.length = "near" /\ Go("preparing")
        /\ UNCHANGED <<idx, taken, batch, made, given, late>>

\* ffmpeg, the VAD and the chunking.
PrepareLongform ==
  /\ at = "preparing"
  /\ \/ Raise(DecodeFailures \cup {"crashed"})
     \/ Go("boundary") /\ UNCHANGED <<idx, taken, batch, made, given, late>>

------------------------------------------------------------------------------
(* _iter_chunks. *)

NBatchesFloor   == audio.chunks \div BatchSize       \* mutant

NBatches == (audio.chunks + BatchSize - 1) \div BatchSize

CheckFirstOnly ==   \* mutant: cancel_check before the loop
  /\ at = "boundary" /\ idx < NBatches
  /\ IF asked /\ idx = 0
     THEN Raise({"cancelled"})
     ELSE Go("taking") /\ UNCHANGED <<idx, taken, batch, made, given, late>>

\* cancel_check() at the start of each batch.
Check ==
  /\ at = "boundary" /\ idx < NBatches
  /\ IF asked
     THEN Raise({"cancelled"})
     ELSE Go("taking") /\ UNCHANGED <<idx, taken, batch, made, given, late>>

\* list(islice(chunks_iter, batch_size))
Batch == From(taken, IF audio.chunks - taken < BatchSize
                     THEN audio.chunks - taken ELSE BatchSize)

\* islice, forward and _decode; _collate fails on an empty batch.
Decode ==
  /\ at = "taking"
  /\ \/ Raise({"crashed"})
     \/ /\ Batch # <<>> /\ Go("yielding")
        /\ batch' = Batch
        /\ taken' = taken + Len(Batch)
        /\ late' = IF asked THEN late + 1 ELSE late
        /\ UNCHANGED <<idx, made, given>>

\* What _iter_chunks yields goes straight to the caller of iter_segments,
\* unless a list is built of it first: transcribe, and the way over "short".
Collecting == mode = "sync" \/ audio.length # "long"

YieldSegment ==
  /\ at = "yielding" /\ batch # <<>> /\ Go("yielding")
  /\ made' = Append(made, Head(batch))
  /\ given' = IF Collecting THEN given ELSE Append(given, Head(batch))
  /\ batch' = Tail(batch)
  /\ UNCHANGED <<idx, taken, late>>

NextBatchStays ==   \* mutant: the loop variable is not advanced
  /\ at = "yielding" /\ batch = <<>> /\ Go("boundary")
  /\ UNCHANGED <<idx, taken, batch, made, given, late>>

NextBatch ==
  /\ at = "yielding" /\ batch = <<>> /\ Go("boundary")
  /\ idx' = idx + 1
  /\ UNCHANGED <<taken, batch, made, given, late>>

EndOfChunks ==
  /\ at = "boundary" /\ idx = NBatches /\ Go("handing")
  /\ UNCHANGED <<idx, taken, batch, made, given, late>>

------------------------------------------------------------------------------
(* The caller. *)

\* `yield from result.segments`.
HandOver ==
  /\ at = "handing" /\ mode = "stream" /\ Len(given) < Len(made) /\ Go("handing")
  /\ given' = Append(given, made[Len(given) + 1])
  /\ UNCHANGED <<idx, taken, batch, made, late>>

\* `return ASRResult(...)`, or the end of the generator.
Return ==
  /\ at = "handing" /\ Go("returned")
  /\ mode = "sync" \/ given = made
  /\ given' = made
  /\ UNCHANGED <<idx, taken, batch, made, late>>

\* cancel_event.set() in the event loop.
Ask ==
  /\ at \notin Ended /\ ~asked
  /\ asked' = TRUE
  /\ UNCHANGED <<mode, audio, at, idx, taken, batch, made, given, late>>

\* The worker is free.
Terminated == at \in Ended /\ UNCHANGED vars

Next ==
  \/ Probe \/ TranscribeShort \/ PrepareLongform
  \/ Check \/ Decode \/ YieldSegment \/ NextBatch \/ EndOfChunks
  \/ HandOver \/ Return \/ Ask \/ Terminated

Spec == Init /\ [][Next]_vars

------------------------------------------------------------------------------
TypeOK ==
  /\ mode \in {"sync", "stream"}
  /\ audio \in [length : Lengths, chunks : Nat]
  /\ at \in {"probing", "short", "preparing", "boundary", "taking", "yielding",
             "handing"} \cup Ended
  /\ idx \in Nat /\ taken \in 0..audio.chunks
  /\ batch \in Seq(Nat) /\ made \in Seq(Nat) /\ given \in Seq(Nat)
  /\ asked \in BOOLEAN /\ late \in Nat

\* However the event and the loop interleave, at most one batch is decoded
\* after the client was found to be gone, the one already past its check.
AtMostOneLateBatch == late <= 1

\* The failures above, and cancellation, as the contract sees them.
End ==
  CASE at = "returned" -> "ok"
    [] at = "cancelled" -> "cancelled"
    [] at \in Failures \ {"cancelled"} -> "failed"
    [] OTHER -> "open"

\* Both calls implement the contract: a success hands over the segment of
\* every chunk in order, the last short batch included, and a call that had
\* nothing left to skip is never reported cancelled.
Contract == INSTANCE EngineContract WITH total <- Total, end <- End
ImplementsContract == Contract!Spec

\* How many steps a call has left at most: in and after the loop, and overall.
LoopLeft == Total + 3 * (NBatches - idx) + (audio.chunks - Len(made))

StepsLeft ==
  CASE at = "probing"   -> LoopLeft + 5
    [] at = "short"     -> LoopLeft + 4
    [] at = "preparing" -> LoopLeft + 3
    [] at = "boundary"  -> LoopLeft + 2
    [] at = "taking"    -> LoopLeft + 1
    [] at = "yielding"  -> LoopLeft
    [] at = "handing"   -> 1 + Total - Len(given)
    [] at \in Ended     -> 0

\* Why a call ends, for every number of chunks, so that only a tool or a model
\* can keep the next request waiting: no pass through the loop leaves as much
\* to do as there was before, and the work left never goes below nothing.
EveryStepCounts ==
  [][StepsLeft' \in Nat /\ StepsLeft' < StepsLeft]_<<at, idx, taken, batch, made, given>>

(* The inductive invariant (EngineProofs.tla). *)

\* Where chunks_iter stands at the start of batch idx.
Consumed(taken_, idx_) ==
  \/ taken_ = idx_ * BatchSize /\ taken_ <= audio.chunks
  \/ taken_ = audio.chunks /\ audio.chunks < idx_ * BatchSize

BatchesInStep ==
  /\ at \in {"probing", "short", "preparing"} => idx = 0 /\ taken = 0
  /\ at \in {"boundary", "taking"} => Consumed(taken, idx) /\ idx <= NBatches
  /\ at = "taking" => idx < NBatches
  /\ at = "yielding" => Consumed(taken, idx + 1) /\ idx < NBatches

SegmentsInOrder ==
  /\ made = From(0, Len(made)) /\ given = From(0, Len(given))
  /\ batch = From(Len(made), Len(batch))
  /\ at \notin {"handing"} \cup Ended => taken = Len(made) + Len(batch)
  /\ at # "yielding" /\ at \notin Ended => batch = <<>>
  /\ at \in {"handing", "returned"} => Len(made) = Total
  /\ at = "returned" => given = made
  /\ at \notin {"handing", "returned"} =>
       Len(given) = (IF Collecting THEN 0 ELSE Len(made))
  /\ at = "handing" => Len(given) <= Len(made)
  /\ at \in {"boundary", "taking", "yielding", "preparing"} => audio.length # "short"
  /\ at = "cancelled" => Len(given) < Total

Lateness ==
  /\ (~asked \/ at = "taking") => late = 0
  /\ late <= 1
  /\ at = "cancelled" => asked

IInv == TypeOK /\ BatchesInStep /\ SegmentsInOrder /\ Lateness
===============================================================================
