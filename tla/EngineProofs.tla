----------------------------- MODULE EngineProofs -----------------------------
(***************************************************************************)
(* Proofs about gigaam_engine.py for every BATCH_SIZE and every number of  *)
(* chunks: the loop of _iter_chunks takes every chunk exactly once, and    *)
(* the engine implements EngineContract.tla.                               *)
(***************************************************************************)
EXTENDS Engine, TLAPS

\* The batch count is the ceiling: it leaves no chunk out and asks for no
\* empty batch.
LEMMA Ceiling ==
  ASSUME NEW n \in Nat, NEW b \in Nat \ {0}, NEW q \in Nat,
         q = (n + b - 1) \div b
  PROVE  n <= q * b /\ q * b < n + b
<1> DEFINE m == n + b - 1
<1>1. m \in Nat /\ q = m \div b
  OBVIOUS
<1>2. m = b * (m \div b) + (m % b) /\ m % b \in 0..(b - 1)
  BY <1>1
<1> HIDE DEF m
<1>3. q * b + (m % b) = m
  BY <1>1, <1>2
<1> QED
  BY <1>2, <1>3 DEF m

LEMMA Multiples ==
  ASSUME NEW i \in Nat, NEW j \in Nat, NEW b \in Nat, i <= j
  PROVE  i * b <= j * b
OBVIOUS

LEMMA NBatchesType ==
  ASSUME TypeOK PROVE NBatches \in Nat
<1>1. audio.chunks \in Nat /\ BatchSize \in Nat \ {0}
  BY EngineAssumption DEF TypeOK
<1>2. audio.chunks + BatchSize - 1 \in Nat
  BY <1>1
<1>3. \A m \in Nat, b \in Nat \ {0} : m \div b \in Nat
  OBVIOUS
<1> QED
  BY <1>1, <1>2, <1>3 DEF NBatches

\* Before the last batch there is something left to take, after it nothing.
LEMMA SomethingLeft ==
  ASSUME TypeOK, Consumed(taken, idx), idx < NBatches
  PROVE  taken < audio.chunks /\ taken = idx * BatchSize
<1>1. audio.chunks \in Nat /\ idx \in Nat /\ BatchSize \in Nat \ {0}
      /\ NBatches \in Nat /\ taken \in Nat
  BY NBatchesType, EngineAssumption DEF TypeOK
<1>2. NBatches * BatchSize < audio.chunks + BatchSize
  BY <1>1, Ceiling DEF NBatches
<1>3. (idx + 1) * BatchSize <= NBatches * BatchSize
  BY <1>1, Multiples
<1>4. (idx + 1) * BatchSize = idx * BatchSize + BatchSize /\ idx * BatchSize \in Nat
  BY <1>1
<1>5. idx * BatchSize < audio.chunks
  BY <1>1, <1>2, <1>3, <1>4
<1> QED
  BY <1>1, <1>4, <1>5 DEF Consumed

LEMMA NothingLeft ==
  ASSUME TypeOK, Consumed(taken, idx), idx = NBatches
  PROVE  taken = audio.chunks
<1>1. audio.chunks \in Nat /\ idx \in Nat /\ BatchSize \in Nat \ {0}
      /\ NBatches \in Nat /\ taken \in Nat /\ NBatches * BatchSize \in Nat
  BY NBatchesType, EngineAssumption DEF TypeOK
<1>2. audio.chunks <= NBatches * BatchSize
  BY <1>1, Ceiling DEF NBatches
<1> QED
  BY <1>1, <1>2 DEF Consumed

------------------------------------------------------------------------------
(* Runs of consecutive segment numbers. *)

LEMMA FromRun ==
  ASSUME NEW k \in Nat, NEW m \in Nat
  PROVE  /\ From(k, m) \in Seq(Nat)
         /\ Len(From(k, m)) = m
         /\ From(k, m) = <<>> <=> m = 0
BY DEF From

LEMMA FromAppend ==
  ASSUME NEW n \in Nat
  PROVE  Append(From(0, n), n + 1) = From(0, n + 1)
BY DEF From

\* A run grown by its next number is a run.
LEMMA RunGrows ==
  ASSUME NEW s \in Seq(Nat), s = From(0, Len(s)),
         NEW t, t = Append(s, Len(s) + 1)
  PROVE  t \in Seq(Nat) /\ Len(t) = Len(s) + 1 /\ t = From(0, Len(t))
<1>1. Len(s) \in Nat
  OBVIOUS
<1>2. t = From(0, Len(s) + 1)
  BY <1>1, FromAppend
<1>3. Len(s) + 1 \in Nat
  BY <1>1
<1> QED
  BY <1>2, <1>3, FromRun

LEMMA FromTail ==
  ASSUME NEW k \in Nat, NEW m \in Nat \ {0}
  PROVE  Head(From(k, m)) = k + 1 /\ Tail(From(k, m)) = From(k + 1, m - 1)
BY DEF From

------------------------------------------------------------------------------
(* The inductive invariant. *)

LEMMA InitInv == Init => IInv
<1> SUFFICES ASSUME Init PROVE IInv
  OBVIOUS
<1>1. TypeOK
  <2>1. audio \in [length : Lengths, chunks : Nat] /\ 0 \in 0..audio.chunks
    BY EngineAssumption DEF Init
  <2>2. <<>> \in Seq(Nat) /\ 0 \in Nat /\ FALSE \in BOOLEAN
    OBVIOUS
  <2> QED
    BY <2>1, <2>2 DEF Init, TypeOK
<1>2. From(0, 0) = <<>>
  BY FromRun
<1>3. SegmentsInOrder
  BY <1>2 DEF Init, SegmentsInOrder, Ended, Failures
<1> QED
  BY <1>1, <1>3 DEF Init, IInv, BatchesInStep, Lateness

\* An exception leaves everything where it was, and a cancellation is raised
\* only when asked for, with segments left.
LEMMA RaiseKeeps ==
  ASSUME IInv, at \notin {"handing"} \cup Ended, Raise(Failures),
         at' = "cancelled" => asked /\ Len(given) < Total
  PROVE  IInv'
<1> USE DEF IInv, Raise, Go
<1>1. TypeOK'
  BY DEF TypeOK, Ended
<1>2. at' \in Failures
  OBVIOUS
<1>3. BatchesInStep' /\ Lateness'
  BY <1>2 DEF BatchesInStep, Lateness, Failures
<1>4. SegmentsInOrder'
  BY <1>2 DEF SegmentsInOrder, Ended, Failures, Total, Collecting
<1> QED
  BY <1>1, <1>3, <1>4

LEMMA ProbeInv == ASSUME IInv, Probe PROVE IInv'
<1>1. CASE \E F \in SUBSET {"undecodable", "no_tool", "too_long"} : Raise(F)
  <2>1. Raise(Failures) /\ at' # "cancelled"
    BY <1>1 DEF Raise, Go, Failures
  <2> QED
    BY <2>1, RaiseKeeps DEF Probe, Ended, Failures
<1>2. CASE /\ Go(IF audio.length = "long" THEN "preparing" ELSE "short")
           /\ audio.length # "over"
           /\ UNCHANGED <<idx, taken, batch, made, given, late>>
  <2> USE <1>2 DEF IInv, Go
  <2>1. TypeOK'
    BY DEF TypeOK
  <2>2. BatchesInStep' /\ Lateness'
    BY DEF Probe, BatchesInStep, Lateness
  <2>3. SegmentsInOrder'
    BY DEF Probe, SegmentsInOrder, Ended, Failures, Total, Collecting
  <2> QED
    BY <2>1, <2>2, <2>3
<1> QED
  BY <1>1, <1>2 DEF Probe, ProbeFailures

LEMMA ShortInv == ASSUME IInv, TranscribeShort PROVE IInv'
<1>1. CASE Raise({"undecodable", "crashed"})
  <2>1. Raise(Failures) /\ at' # "cancelled"
    BY <1>1 DEF Raise, Go, Failures
  <2> QED
    BY <2>1, RaiseKeeps DEF TranscribeShort, Ended, Failures
<1>2. CASE /\ audio.length = "short" /\ Go("handing") /\ made' = From(0, 1)
           /\ UNCHANGED <<idx, taken, batch, given, late>>
  <2> USE <1>2 DEF IInv, Go
  <2>1. made' \in Seq(Nat) /\ Len(made') = 1
    BY FromRun
  <2>2. TypeOK'
    BY <2>1 DEF TypeOK
  <2>3. BatchesInStep' /\ Lateness'
    BY DEF TranscribeShort, BatchesInStep, Lateness
  <2>4. SegmentsInOrder'
    <3>1. Len(made) = 0 /\ Len(given) = 0 /\ batch = <<>>
      BY DEF TranscribeShort, SegmentsInOrder, BatchesInStep, TypeOK, Ended,
             Failures, Collecting
    <3> QED
      BY <2>1, <3>1, FromRun
      DEF TranscribeShort, SegmentsInOrder, Ended, Failures, Total, Collecting
  <2> QED
    BY <2>2, <2>3, <2>4
<1>3. CASE /\ audio.length = "near" /\ Go("preparing")
           /\ UNCHANGED <<idx, taken, batch, made, given, late>>
  <2> USE <1>3 DEF IInv, Go
  <2>1. TypeOK'
    BY DEF TypeOK
  <2>2. BatchesInStep' /\ Lateness'
    BY DEF TranscribeShort, BatchesInStep, Lateness
  <2>3. SegmentsInOrder'
    BY DEF TranscribeShort, SegmentsInOrder, Ended, Failures, Total, Collecting
  <2> QED
    BY <2>1, <2>2, <2>3
<1> QED
  BY <1>1, <1>2, <1>3 DEF TranscribeShort

LEMMA PrepareInv == ASSUME IInv, PrepareLongform PROVE IInv'
<1>1. CASE Raise({"undecodable", "no_tool", "crashed"})
  <2>1. Raise(Failures) /\ at' # "cancelled"
    BY <1>1 DEF Raise, Go, Failures
  <2> QED
    BY <2>1, RaiseKeeps DEF PrepareLongform, Ended, Failures
<1>2. CASE Go("boundary") /\ UNCHANGED <<idx, taken, batch, made, given, late>>
  <2> USE <1>2 DEF IInv, Go
  <2>1. TypeOK'
    BY DEF TypeOK
  <2>2. idx = 0 /\ taken = 0 /\ NBatches \in Nat /\ 0 * BatchSize = 0
    BY NBatchesType, EngineAssumption DEF PrepareLongform, BatchesInStep
  <2>3. BatchesInStep' /\ Lateness'
    BY <2>2 DEF PrepareLongform, BatchesInStep, Lateness, Consumed, NBatches, TypeOK
  <2>4. SegmentsInOrder'
    BY DEF PrepareLongform, SegmentsInOrder, Ended, Failures, Total, Collecting
  <2> QED
    BY <2>1, <2>3, <2>4
<1> QED
  BY <1>1, <1>2 DEF PrepareLongform, DecodeFailures

LEMMA CheckInv == ASSUME IInv, Check PROVE IInv'
<1> USE DEF IInv
<1>1. CASE asked
  <2>1. Raise(Failures)
    BY <1>1 DEF Check, Raise, Failures
  <2>2. taken < audio.chunks
    BY SomethingLeft DEF Check, BatchesInStep
  <2>3. Len(given) < Total
    <3>1. Len(made) = taken /\ audio.length # "short"
      BY DEF Check, SegmentsInOrder, Ended, Failures, TypeOK
    <3>2. Len(given) <= Len(made)
      BY DEF Check, SegmentsInOrder, TypeOK
    <3> QED
      BY <2>2, <3>1, <3>2 DEF Total, TypeOK
  <2> QED
    BY <1>1, <2>1, <2>3, RaiseKeeps DEF Check, Ended, Failures
<1>2. CASE ~asked
  <2> USE <1>2 DEF Go
  <2>1. TypeOK'
    BY DEF Check, TypeOK
  <2>2. BatchesInStep' /\ Lateness'
    BY DEF Check, BatchesInStep, Lateness, Consumed, NBatches
  <2>3. SegmentsInOrder'
    BY DEF Check, SegmentsInOrder, Ended, Failures, Total, Collecting
  <2> QED
    BY <2>1, <2>2, <2>3
<1> QED
  BY <1>1, <1>2

LEMMA DecodeInv == ASSUME IInv, Decode PROVE IInv'
<1>1. CASE Raise({"crashed"})
  <2>1. Raise(Failures) /\ at' # "cancelled"
    BY <1>1 DEF Raise, Go, Failures
  <2> QED
    BY <2>1, RaiseKeeps DEF Decode, Ended, Failures
<1>2. CASE /\ Batch # <<>> /\ Go("yielding")
           /\ batch' = Batch
           /\ taken' = taken + Len(Batch)
           /\ late' = IF asked THEN late + 1 ELSE late
           /\ UNCHANGED <<idx, made, given>>
  <2> USE <1>2 DEF IInv, Go
  <2> DEFINE m == IF audio.chunks - taken < BatchSize
                  THEN audio.chunks - taken ELSE BatchSize
  <2>1. audio.chunks \in Nat /\ idx \in Nat /\ BatchSize \in Nat \ {0}
        /\ taken \in 0..audio.chunks /\ made \in Seq(Nat) /\ at = "taking"
    BY EngineAssumption DEF TypeOK, Decode
  <2>2. taken < audio.chunks /\ taken = idx * BatchSize
    BY SomethingLeft DEF Decode, BatchesInStep
  <2>3. m \in Nat \ {0} /\ taken + m <= audio.chunks
    BY <2>1, <2>2
  <2>4. Batch = From(taken, m) /\ Len(Batch) = m /\ Batch \in Seq(Nat)
    <3>1. Batch = From(taken, m)
      BY DEF Batch
    <3>2. taken \in Nat /\ m \in Nat
      BY <2>1, <2>3
    <3> HIDE DEF m
    <3> QED
      BY <3>1, <3>2, FromRun
  <2>5. TypeOK'
    BY <2>1, <2>3, <2>4 DEF TypeOK
  <2>6. (idx + 1) * BatchSize = idx * BatchSize + BatchSize
    BY <2>1
  <2>7. BatchesInStep'
    <3>1. taken' = taken + m /\ idx' = idx /\ audio' = audio /\ at' = "yielding"
      BY <2>4
    <3>2. m = BatchSize \/ (m = audio.chunks - taken /\ m < BatchSize)
      OBVIOUS
    <3>3. idx * BatchSize \in Nat
      BY <2>1
    <3>4. Consumed(taken + m, idx + 1)
      BY <2>1, <2>2, <2>3, <2>6, <3>2, <3>3 DEF Consumed
    <3> QED
      BY <2>1, <3>1, <3>4 DEF BatchesInStep, Consumed, NBatches
  <2>8. taken = Len(made)
    BY <2>1 DEF SegmentsInOrder, Ended, Failures
  <2>9. SegmentsInOrder'
    BY <2>1, <2>4, <2>8
    DEF SegmentsInOrder, Ended, Failures, Total, Collecting
  <2>10. Lateness'
    BY <2>1 DEF Lateness, TypeOK
  <2> QED
    BY <2>5, <2>7, <2>9, <2>10
<1> QED
  BY <1>1, <1>2 DEF Decode

LEMMA YieldInv == ASSUME IInv, YieldSegment PROVE IInv'
<1> USE DEF IInv, Go
<1>1. made \in Seq(Nat) /\ given \in Seq(Nat) /\ batch \in Seq(Nat)
      /\ at = "yielding" /\ at' = "yielding" /\ batch # <<>>
  BY DEF TypeOK, YieldSegment
<1>2. Len(batch) \in Nat \ {0} /\ Len(made) \in Nat /\ Len(given) \in Nat
  BY <1>1
<1>3. batch = From(Len(made), Len(batch)) /\ made = From(0, Len(made))
  BY DEF SegmentsInOrder
<1>4. Head(batch) = Len(made) + 1 /\ batch' = From(Len(made) + 1, Len(batch) - 1)
  BY <1>2, <1>3, FromTail DEF YieldSegment
<1>5. made' = From(0, Len(made) + 1) /\ Len(made') = Len(made) + 1
      /\ made' \in Seq(Nat)
  <2>1. made' = Append(made, Len(made) + 1)
    BY <1>4 DEF YieldSegment
  <2> QED
    BY <1>1, <1>3, <2>1, RunGrows
<1>6. Len(batch') = Len(batch) - 1 /\ batch' \in Seq(Nat)
  <2>1. Len(made) + 1 \in Nat /\ Len(batch) - 1 \in Nat
    BY <1>2
  <2> QED
    BY <1>4, <2>1, FromRun
<1>7. /\ Len(given) = (IF Collecting THEN 0 ELSE Len(made))
      /\ given = From(0, Len(given))
  BY <1>1 DEF SegmentsInOrder
<1>8. /\ given' = From(0, Len(given'))
      /\ Len(given') = (IF Collecting THEN 0 ELSE Len(made'))
      /\ given' \in Seq(Nat)
  <2>1. CASE Collecting
    BY <1>1, <1>7, <2>1 DEF YieldSegment, Collecting
  <2>2. CASE ~Collecting
    <3>1. given' = Append(given, Len(given) + 1) /\ Collecting' = Collecting
      BY <1>4, <1>7, <2>2 DEF YieldSegment, Collecting
    <3> QED
      BY <1>1, <1>5, <1>7, <2>2, <3>1, RunGrows
  <2> QED
    BY <2>1, <2>2
<1>9. TypeOK'
  BY <1>1, <1>6, <1>8 DEF TypeOK, YieldSegment
<1>10. BatchesInStep' /\ Lateness'
  BY <1>1 DEF YieldSegment, BatchesInStep, Lateness, Consumed, NBatches
<1>11. SegmentsInOrder'
  <2>1. taken = Len(made) + Len(batch)
    BY <1>1 DEF SegmentsInOrder, Ended, Failures
  <2> QED
    BY <1>1, <1>2, <1>4, <1>5, <1>6, <1>8, <2>1
    DEF YieldSegment, SegmentsInOrder, Ended, Failures, Total, Collecting
<1> QED
  BY <1>9, <1>10, <1>11

LEMMA NextBatchInv == ASSUME IInv, NextBatch PROVE IInv'
<1> USE DEF IInv, Go, NextBatch
<1>1. TypeOK'
  BY DEF TypeOK
<1>2. BatchesInStep' /\ Lateness'
  BY NBatchesType DEF BatchesInStep, Lateness, Consumed, NBatches, TypeOK
<1>3. SegmentsInOrder'
  BY DEF SegmentsInOrder, Ended, Failures, Total, Collecting, TypeOK
<1> QED
  BY <1>1, <1>2, <1>3

LEMMA EndOfChunksInv == ASSUME IInv, EndOfChunks PROVE IInv'
<1> USE DEF IInv, Go, EndOfChunks
<1>1. TypeOK'
  BY DEF TypeOK
<1>2. BatchesInStep' /\ Lateness'
  BY DEF BatchesInStep, Lateness
<1>3. taken = audio.chunks
  BY NothingLeft DEF BatchesInStep
<1>4. SegmentsInOrder'
  BY <1>3 DEF SegmentsInOrder, Ended, Failures, Total, Collecting, TypeOK
<1> QED
  BY <1>1, <1>2, <1>4

LEMMA HandOverInv == ASSUME IInv, HandOver PROVE IInv'
<1> USE DEF IInv, Go, HandOver
<1>1. made \in Seq(Nat) /\ given \in Seq(Nat) /\ Len(given) \in Nat
      /\ Len(made) \in Nat /\ Len(given) < Len(made)
  BY DEF TypeOK
<1>2. made = From(0, Len(made)) /\ given = From(0, Len(given))
  BY DEF SegmentsInOrder
<1>3. made[Len(given) + 1] = Len(given) + 1
  BY <1>1, <1>2 DEF From
<1>4. given' = From(0, Len(given) + 1) /\ Len(given') = Len(given) + 1
      /\ given' \in Seq(Nat)
  <2>1. given' = Append(given, Len(given) + 1)
    BY <1>3
  <2> QED
    BY <1>1, <1>2, <2>1, RunGrows
<1>5. TypeOK'
  BY <1>4 DEF TypeOK
<1>6. BatchesInStep' /\ Lateness'
  BY DEF BatchesInStep, Lateness
<1>7. SegmentsInOrder'
  BY <1>1, <1>4 DEF SegmentsInOrder, Ended, Failures, Total, Collecting
<1> QED
  BY <1>5, <1>6, <1>7

LEMMA ReturnInv == ASSUME IInv, Return PROVE IInv'
<1> USE DEF IInv, Go, Return
<1>1. TypeOK'
  BY DEF TypeOK, Ended
<1>2. BatchesInStep' /\ Lateness'
  BY DEF BatchesInStep, Lateness
<1>3. SegmentsInOrder'
  BY DEF SegmentsInOrder, Ended, Failures, Total, Collecting
<1> QED
  BY <1>1, <1>2, <1>3

LEMMA AskInv == ASSUME IInv, Ask PROVE IInv'
<1> USE DEF IInv, Ask
<1>1. TypeOK'
  BY DEF TypeOK
<1>2. BatchesInStep'
  BY DEF BatchesInStep, Consumed, NBatches
<1>3. SegmentsInOrder' /\ Lateness'
  BY DEF SegmentsInOrder, Lateness, Ended, Failures, Total, Collecting
<1> QED
  BY <1>1, <1>2, <1>3

LEMMA StutterInv == ASSUME IInv, UNCHANGED vars PROVE IInv'
BY DEF vars, IInv, TypeOK, BatchesInStep, SegmentsInOrder, Lateness, Consumed,
       NBatches, Total, Collecting

LEMMA NextInv == ASSUME IInv, [Next]_vars PROVE IInv'
BY ProbeInv, ShortInv, PrepareInv, CheckInv, DecodeInv, YieldInv, NextBatchInv,
   EndOfChunksInv, HandOverInv, ReturnInv, AskInv, StutterInv DEF Next, Terminated

\* The inductive invariant holds of every behaviour of the engine.
THEOREM Invariance == Spec => []IInv
<1>1. Init => IInv
  BY InitInv
<1>2. IInv /\ [Next]_vars => IInv'
  BY NextInv
<1> QED
  BY <1>1, <1>2, PTL DEF Spec

\* Every part of a call's state keeps its type, and the loop of _iter_chunks
\* never takes more chunks than there are.
THEOREM TypeCorrect == Spec => []TypeOK
<1>1. IInv => TypeOK
  BY DEF IInv
<1> QED
  BY <1>1, Invariance, PTL

\* For every batch size and number of chunks at most one batch is decoded
\* after cancel_check() would have said so.
THEOREM CancelIsPrompt == Spec => []AtMostOneLateBatch
<1>1. IInv => AtMostOneLateBatch
  BY DEF IInv, Lateness, AtMostOneLateBatch
<1> QED
  BY <1>1, Invariance, PTL

------------------------------------------------------------------------------
(* The engine implements the contract. *)

LEMMA FirstIsARun == ASSUME NEW n \in Nat PROVE Contract!First(n) = From(0, n)
BY DEF Contract!First, From

LEMMA TotalType == ASSUME TypeOK PROVE Total \in Nat
BY DEF TypeOK, Total

\* A step that touches neither what was given nor the end of the call.
LEMMA SameEnd ==
  ASSUME UNCHANGED <<audio, given, asked>>, at \notin Ended, at' \notin Ended
  PROVE  UNCHANGED Contract!vars
BY DEF Contract!vars, Total, End, Ended, Failures

\* A raised failure ends the call.
LEMMA RaiseFails ==
  ASSUME at \notin Ended, Raise(Failures), at' # "cancelled"
  PROVE  Contract!Fail
BY DEF Contract!Fail, Total, End, Ended, Failures, Raise, Go

\* Handing over the next segment.
LEMMA GivesNext ==
  ASSUME UNCHANGED <<audio, asked>>, at \notin Ended, at' \notin Ended,
         given \in Seq(Nat), Len(given) < Total,
         given' = From(0, Len(given) + 1)
  PROVE  Contract!Give
<1>1. End = "open" /\ End' = "open" /\ Total' = Total
  BY DEF End, Ended, Failures, Total
<1>2. Contract!First(Len(given) + 1) = From(0, Len(given) + 1)
  BY FirstIsARun
<1> QED
  BY <1>1, <1>2 DEF Contract!Give

LEMMA StepImplements ==
  ASSUME IInv, IInv', Next PROVE Contract!Next \/ UNCHANGED Contract!vars
<1> USE DEF IInv
<1>1. CASE Probe
  <2>1. CASE \E F \in SUBSET {"undecodable", "no_tool", "too_long"} : Raise(F)
    <3>1. Raise(Failures) /\ at' # "cancelled"
      BY <2>1 DEF Raise, Go, Failures
    <3> QED
      BY <1>1, <3>1, RaiseFails DEF Probe, Contract!Next, Ended, Failures
  <2>2. CASE at' \in {"preparing", "short"} /\ UNCHANGED <<audio, given, asked>>
    BY <1>1, <2>2, SameEnd DEF Probe, Ended, Failures
  <2> QED
    BY <1>1, <2>1, <2>2 DEF Probe, ProbeFailures, Go
<1>2. CASE TranscribeShort
  <2>1. CASE Raise({"undecodable", "crashed"})
    <3>1. Raise(Failures) /\ at' # "cancelled"
      BY <2>1 DEF Raise, Go, Failures
    <3> QED
      BY <1>2, <3>1, RaiseFails DEF TranscribeShort, Contract!Next, Ended, Failures
  <2>2. CASE at' \in {"preparing", "handing"} /\ UNCHANGED <<audio, given, asked>>
    BY <1>2, <2>2, SameEnd DEF TranscribeShort, Ended, Failures
  <2> QED
    BY <1>2, <2>1, <2>2 DEF TranscribeShort, Go
<1>3. CASE PrepareLongform
  <2>1. CASE Raise({"undecodable", "no_tool", "crashed"})
    <3>1. Raise(Failures) /\ at' # "cancelled"
      BY <2>1 DEF Raise, Go, Failures
    <3> QED
      BY <1>3, <3>1, RaiseFails DEF PrepareLongform, Contract!Next, Ended, Failures
  <2>2. CASE at' = "boundary" /\ UNCHANGED <<audio, given, asked>>
    BY <1>3, <2>2, SameEnd DEF PrepareLongform, Ended, Failures
  <2> QED
    BY <1>3, <2>1, <2>2 DEF PrepareLongform, DecodeFailures, Go
<1>4. CASE Check
  <2>1. CASE asked
    <3>1. at' = "cancelled" /\ UNCHANGED <<audio, given, asked>>
      BY <1>4, <2>1 DEF Check, Raise, Go
    <3>2. Len(given) < Total
      <4>1. Len(given') < Total'
        BY <3>1 DEF SegmentsInOrder
      <4> QED
        BY <3>1, <4>1 DEF Total
    <3>3. End = "open" /\ End' = "cancelled" /\ Total' = Total
      BY <1>4, <3>1 DEF Check, End, Total, Failures
    <3> QED
      BY <2>1, <3>1, <3>2, <3>3 DEF Contract!Cancel, Contract!Next
  <2>2. CASE ~asked
    BY <1>4, <2>2, SameEnd DEF Check, Go, Ended, Failures
  <2> QED
    BY <2>1, <2>2
<1>5. CASE Decode
  <2>1. CASE Raise({"crashed"})
    <3>1. Raise(Failures) /\ at' # "cancelled"
      BY <2>1 DEF Raise, Go, Failures
    <3> QED
      BY <1>5, <3>1, RaiseFails DEF Decode, Contract!Next, Ended, Failures
  <2>2. CASE at' = "yielding" /\ UNCHANGED <<audio, given, asked>>
    BY <1>5, <2>2, SameEnd DEF Decode, Ended, Failures
  <2> QED
    BY <1>5, <2>1, <2>2 DEF Decode, Go
<1>6. CASE YieldSegment
  <2>1. /\ at = "yielding" /\ at' = "yielding" /\ batch # <<>>
        /\ UNCHANGED <<mode, audio, asked>>
    BY <1>6 DEF YieldSegment, Go
  <2>2. CASE Collecting
    BY <1>6, <2>1, <2>2, SameEnd DEF YieldSegment, Ended, Failures
  <2>3. CASE ~Collecting
    <3>1. given' = Append(given, Head(batch))
      BY <1>6, <2>3 DEF YieldSegment
    <3>2. given \in Seq(Nat) /\ given' \in Seq(Nat) /\ Len(given') = Len(given) + 1
          /\ Head(batch) \in Nat
      BY <2>1, <3>1 DEF TypeOK
    <3>3. given' = From(0, Len(given) + 1)
      BY <3>2 DEF SegmentsInOrder
    <3>4. Len(given) < Total
      <4>1. taken = Len(made) + Len(batch) /\ Len(given) = Len(made)
            /\ audio.length # "short"
        BY <2>1, <2>3 DEF SegmentsInOrder, Ended, Failures
      <4>2. Len(batch) \in Nat \ {0} /\ Len(made) \in Nat
        BY <2>1 DEF TypeOK
      <4> QED
        BY <4>1, <4>2 DEF TypeOK, Total
    <3> QED
      BY <2>1, <3>2, <3>3, <3>4, GivesNext DEF Contract!Next, Ended, Failures
  <2> QED
    BY <2>2, <2>3
<1>7. CASE NextBatch \/ EndOfChunks
  BY <1>7, SameEnd DEF NextBatch, EndOfChunks, Go, Ended, Failures
<1>8. CASE HandOver
  <2>1. /\ at = "handing" /\ at' = "handing" /\ Len(given) < Len(made)
        /\ UNCHANGED <<mode, audio, asked>>
    BY <1>8 DEF HandOver, Go
  <2>2. given \in Seq(Nat) /\ given' \in Seq(Nat) /\ Len(made) = Total
    BY <2>1 DEF TypeOK, SegmentsInOrder
  <2>3. Len(given') = Len(given) + 1
    BY <1>8, <2>2 DEF HandOver
  <2>4. given' = From(0, Len(given) + 1)
    BY <2>3 DEF SegmentsInOrder
  <2> QED
    BY <2>1, <2>2, <2>4, GivesNext DEF Contract!Next, Ended, Failures
<1>9. CASE Return
  <2>1. at = "handing" /\ at' = "returned" /\ UNCHANGED <<audio, asked, made>>
        /\ given' = made
    BY <1>9 DEF Return, Go
  <2>2. made = From(0, Total)
    BY <2>1 DEF SegmentsInOrder
  <2>3. Contract!First(Total) = From(0, Total)
    BY TotalType, FirstIsARun
  <2>4. End = "open" /\ End' = "ok" /\ Total' = Total
    BY <2>1 DEF End, Total, Failures
  <2> QED
    BY <2>1, <2>2, <2>3, <2>4 DEF Contract!Succeed, Contract!Next
<1>10. CASE Ask
  BY <1>10 DEF Ask, Contract!Ask, Contract!Next, Total, End
<1>11. CASE Terminated
  BY <1>11 DEF Terminated, vars, Contract!vars, Total, End
<1> QED
  BY <1>1, <1>2, <1>3, <1>4, <1>5, <1>6, <1>7, <1>8, <1>9, <1>10, <1>11 DEF Next

\* Whatever the batch size, the number of chunks and the moment of the
\* cancellation, transcribe() and iter_segments() keep the contract: a
\* success hands over every chunk's segment once and in order, a cancelled
\* call was asked to stop and had segments left.
THEOREM ImplementsContractSpec == Spec => ImplementsContract
<1>1. Init => Contract!Init
  <2> SUFFICES ASSUME Init PROVE Contract!Init
    OBVIOUS
  <2>1. Total \in Nat
    BY InitInv, TotalType DEF IInv
  <2> QED
    BY <2>1 DEF Init, Contract!Init, End, Failures
<1>2. IInv /\ IInv' /\ [Next]_vars => [Contract!Next]_(Contract!vars)
  <2>1. ASSUME UNCHANGED vars PROVE UNCHANGED Contract!vars
    BY <2>1 DEF vars, Contract!vars, Total, End
  <2> QED
    BY <2>1, StepImplements
<1> QED
  BY <1>1, <1>2, Invariance, PTL DEF Spec, ImplementsContract, Contract!Spec
------------------------------------------------------------------------------
(* A call ends. *)

LeftFacts ==
  /\ at = "probing" => StepsLeft = LoopLeft + 5
  /\ at = "short" => StepsLeft = LoopLeft + 4
  /\ at = "preparing" => StepsLeft = LoopLeft + 3
  /\ at = "boundary" => StepsLeft = LoopLeft + 2
  /\ at = "taking" => StepsLeft = LoopLeft + 1
  /\ at = "yielding" => StepsLeft = LoopLeft
  /\ at = "handing" => StepsLeft = 1 + Total - Len(given) /\ Len(given) <= Total
  /\ at \in Ended => StepsLeft = 0
  /\ Total \in Nat /\ NBatches \in Nat /\ Len(made) \in Nat /\ Len(given) \in Nat
  /\ at \notin {"handing"} \cup Ended => LoopLeft \in Nat /\ Total <= LoopLeft

LEMMA LeftIs == IInv => LeftFacts
<1> SUFFICES ASSUME IInv PROVE LeftFacts
  OBVIOUS
<1>1. /\ Total \in Nat /\ NBatches \in Nat /\ Len(made) \in Nat /\ Len(given) \in Nat
      /\ Len(batch) \in Nat /\ idx \in Nat /\ audio.chunks \in Nat
      /\ taken \in 0..audio.chunks
  BY TotalType, NBatchesType DEF IInv, TypeOK
<1>2. at \notin {"handing"} \cup Ended => idx <= NBatches /\ Len(made) <= audio.chunks
  BY <1>1 DEF IInv, TypeOK, BatchesInStep, SegmentsInOrder
<1>3. at \notin {"handing"} \cup Ended => LoopLeft \in Nat /\ Total <= LoopLeft
  <2> SUFFICES ASSUME at \notin {"handing"} \cup Ended
               PROVE  LoopLeft \in Nat /\ Total <= LoopLeft
    OBVIOUS
  <2>1. NBatches - idx \in Nat /\ audio.chunks - Len(made) \in Nat
    BY <1>1, <1>2
  <2> QED
    BY <1>1, <2>1 DEF LoopLeft
<1>4. at = "handing" => Len(given) <= Total
  BY <1>1 DEF IInv, SegmentsInOrder
<1>5. /\ at = "probing" => StepsLeft = LoopLeft + 5
      /\ at = "short" => StepsLeft = LoopLeft + 4
      /\ at = "preparing" => StepsLeft = LoopLeft + 3
      /\ at = "boundary" => StepsLeft = LoopLeft + 2
      /\ at = "taking" => StepsLeft = LoopLeft + 1
      /\ at = "yielding" => StepsLeft = LoopLeft
      /\ at = "handing" => StepsLeft = 1 + Total - Len(given)
      /\ at \in Ended => StepsLeft = 0
  BY DEF StepsLeft, Ended, Failures
<1> QED
  BY <1>1, <1>3, <1>4, <1>5 DEF LeftFacts

LEMMA LeftIsNext == IInv' => LeftFacts'
BY LeftIs, PTL

Counts == StepsLeft' \in Nat /\ StepsLeft' < StepsLeft

\* An exception leaves nothing to do.
LEMMA RaiseEnds ==
  ASSUME LeftFacts, TypeOK, at \notin {"yielding"} \cup Ended, Raise(Failures)
  PROVE  Counts
<1>1. StepsLeft' = 0
  BY DEF StepsLeft, Raise, Go, Ended, Failures
<1>2. at \in {"probing", "short", "preparing", "boundary", "taking", "handing"}
  BY DEF TypeOK
<1>3. StepsLeft > 0
  BY <1>2 DEF LeftFacts, Ended, Failures
<1> QED
  BY <1>1, <1>3 DEF Counts

LEMMA StepCounts ==
  ASSUME IInv, IInv', Next, ~Ask, ~Terminated
  PROVE  Counts
<1> USE DEF Go
<1>1. TypeOK /\ TypeOK' /\ LeftFacts /\ LeftFacts'
  BY LeftIs, LeftIsNext DEF IInv
<1>2. UNCHANGED audio => UNCHANGED <<Total, NBatches>>
  BY DEF Total, NBatches
<1>3. CASE Probe
  <2>1. CASE Raise(Failures)
    BY <1>1, <1>3, <2>1, RaiseEnds DEF Probe, Ended, Failures
  <2>2. CASE at' \in {"short", "preparing"} /\ UNCHANGED <<audio, idx, made>>
    <3>1. LoopLeft' = LoopLeft /\ at = "probing"
      BY <1>2, <1>3, <2>2 DEF LoopLeft, Probe
    <3> QED
      BY <1>1, <2>2, <3>1 DEF LeftFacts, Counts, Ended, Failures
  <2> QED
    BY <1>3, <2>1, <2>2 DEF Probe, Raise, ProbeFailures, Failures
<1>4. CASE TranscribeShort
  <2>1. CASE Raise(Failures)
    BY <1>1, <1>4, <2>1, RaiseEnds DEF TranscribeShort, Ended, Failures
  <2>2. CASE at' = "preparing" /\ UNCHANGED <<audio, idx, made>>
    <3>1. LoopLeft' = LoopLeft /\ at = "short"
      BY <1>2, <1>4, <2>2 DEF LoopLeft, TranscribeShort
    <3> QED
      BY <1>1, <2>2, <3>1 DEF LeftFacts, Counts, Ended, Failures
  <2>3. CASE at' = "handing" /\ UNCHANGED <<audio, given>>
    <3>1. at = "short" /\ Total' = Total /\ Len(given') = Len(given)
      BY <1>2, <1>4, <2>3 DEF TranscribeShort
    <3> QED
      BY <1>1, <2>3, <3>1 DEF LeftFacts, Counts, Ended, Failures
  <2> QED
    BY <1>4, <2>1, <2>2, <2>3 DEF TranscribeShort, Raise, Failures
<1>5. CASE PrepareLongform
  <2>1. CASE Raise(Failures)
    BY <1>1, <1>5, <2>1, RaiseEnds DEF PrepareLongform, Ended, Failures
  <2>2. CASE at' = "boundary" /\ UNCHANGED <<audio, idx, made>>
    <3>1. LoopLeft' = LoopLeft /\ at = "preparing"
      BY <1>2, <1>5, <2>2 DEF LoopLeft, PrepareLongform
    <3> QED
      BY <1>1, <2>2, <3>1 DEF LeftFacts, Counts, Ended, Failures
  <2> QED
    BY <1>5, <2>1, <2>2 DEF PrepareLongform, Raise, DecodeFailures, Failures
<1>6. CASE Check
  <2>1. CASE Raise(Failures)
    BY <1>1, <1>6, <2>1, RaiseEnds DEF Check, Ended, Failures
  <2>2. CASE at' = "taking" /\ UNCHANGED <<audio, idx, made>>
    <3>1. LoopLeft' = LoopLeft /\ at = "boundary"
      BY <1>2, <1>6, <2>2 DEF LoopLeft, Check
    <3> QED
      BY <1>1, <2>2, <3>1 DEF LeftFacts, Counts, Ended, Failures
  <2> QED
    BY <1>6, <2>1, <2>2 DEF Check, Raise, Failures
<1>7. CASE Decode
  <2>1. CASE Raise(Failures)
    BY <1>1, <1>7, <2>1, RaiseEnds DEF Decode, Ended, Failures
  <2>2. CASE at' = "yielding" /\ UNCHANGED <<audio, idx, made>>
    <3>1. LoopLeft' = LoopLeft /\ at = "taking"
      BY <1>2, <1>7, <2>2 DEF LoopLeft, Decode
    <3> QED
      BY <1>1, <2>2, <3>1 DEF LeftFacts, Counts, Ended, Failures
  <2> QED
    BY <1>7, <2>1, <2>2 DEF Decode, Raise, Failures
<1>8. CASE YieldSegment
  <2>1. at = "yielding" /\ at' = "yielding" /\ UNCHANGED <<audio, idx>>
    BY <1>8 DEF YieldSegment
  <2>2. Len(made') = Len(made) + 1
    BY <1>1, <1>8 DEF YieldSegment, TypeOK
  <2>3. LoopLeft' = LoopLeft - 1
    BY <1>1, <1>2, <2>1, <2>2 DEF LoopLeft, LeftFacts, TypeOK
  <2> QED
    BY <1>1, <2>1, <2>3 DEF LeftFacts, Counts, Ended, Failures
<1>9. CASE NextBatch
  <2>1. at = "yielding" /\ at' = "boundary" /\ UNCHANGED <<audio, made>> /\ idx' = idx + 1
    BY <1>9 DEF NextBatch
  <2>2. LoopLeft' = LoopLeft - 3
    BY <1>1, <1>2, <2>1 DEF LoopLeft, LeftFacts, TypeOK
  <2> QED
    BY <1>1, <2>1, <2>2 DEF LeftFacts, Counts, Ended, Failures
<1>10. CASE EndOfChunks
  <2>1. at = "boundary" /\ at' = "handing" /\ UNCHANGED <<audio, given>>
    BY <1>10 DEF EndOfChunks
  <2> QED
    BY <1>1, <1>2, <2>1 DEF LeftFacts, Counts, Ended, Failures
<1>11. CASE HandOver
  <2>1. at = "handing" /\ at' = "handing" /\ UNCHANGED audio
    BY <1>11 DEF HandOver
  <2>2. Len(given') = Len(given) + 1
    BY <1>1, <1>11 DEF HandOver, TypeOK
  <2> QED
    BY <1>1, <1>2, <2>1, <2>2 DEF LeftFacts, Counts, Ended, Failures
<1>12. CASE Return
  <2>1. at = "handing" /\ at' = "returned"
    BY <1>12 DEF Return
  <2> QED
    BY <1>1, <2>1 DEF LeftFacts, Counts, Ended, Failures
<1> QED
  BY <1>3, <1>4, <1>5, <1>6, <1>7, <1>8, <1>9, <1>10, <1>11, <1>12 DEF Next

\* For every BATCH_SIZE and every audio: each step of a call, setting the event
\* apart, leaves less to do, so that no call takes for ever.
THEOREM CallsTerminate == Spec => EveryStepCounts
<1>1. IInv /\ IInv' /\ [Next]_vars
        => [StepsLeft' \in Nat /\ StepsLeft' < StepsLeft]_<<at, idx, taken, batch, made, given>>
  BY StepCounts DEF Counts, Ask, Terminated, vars
<1> QED
  BY <1>1, Invariance, PTL DEF Spec, EveryStepCounts
===============================================================================
