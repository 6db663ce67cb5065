------------------------------- MODULE Chunking -------------------------------
(***************************************************************************)
(* merge_intervals_to_chunks of gigaam_api/asr/vad.py: the speech          *)
(* intervals of a long audio, one loop iteration each, are merged into the *)
(* chunks the model decodes.  Times are in ticks.                          *)
(***************************************************************************)
EXTENDS Integers, Sequences

CONSTANTS MinDuration, MaxDuration, StrictLimit, NewChunkThreshold,  \* VAD_*
          Horizon,       \* bound on the length of the audio
          MaxIntervals   \* bound on the intervals of one audio

ASSUME ChunkingAssumption ==
  /\ MinDuration \in Nat /\ MaxDuration \in Nat /\ NewChunkThreshold \in Nat
  /\ StrictLimit \in Nat \ {0}
  /\ Horizon \in Nat /\ MaxIntervals \in Nat

VARIABLES duration,   \* audio_duration
          speech,     \* the intervals read so far, clamped
          current,    \* curr_start and curr_end
          chunks,     \* boundaries
          phase       \* "merging" or "done"

vars == <<duration, speech, current, chunks, phase>>

Interval == [start : Int, end : Int]
Dur(i) == i.end - i.start

\* Part `part` of the `of` equal parts of a block: (part-1)/of to part/of of it.
Piece == [block : Interval, part : Nat, of : Nat]

\* Where a piece starts and ends, in ticks times `of`.
From(p) == p.of * p.block.start + (p.part - 1) * Dur(p.block)
To(p)   == p.of * p.block.start + p.part * Dur(p.block)

Init ==
  /\ duration \in 0..Horizon
  /\ speech = <<>>
  /\ current = [start |-> 0, end |-> 0]
  /\ chunks = <<>>
  /\ phase = "merging"

------------------------------------------------------------------------------
(* _flush *)

\* int(d / strict_limit) + 1
Parts(d) == IF d > StrictLimit THEN d \div StrictLimit + 1 ELSE 1

PiecesNoLast(c) ==   \* mutant: the append after the loop is left out
  LET n == Parts(Dur(c))
  IN  [k \in 1..(IF n = 1 THEN 1 ELSE n - 1) |-> [block |-> c, part |-> k, of |-> n]]

Pieces(c) ==
  LET n == Parts(Dur(c))
  IN  [k \in 1..n |-> [block |-> c, part |-> k, of |-> n]]

------------------------------------------------------------------------------
(* The loop. *)

ClampStartOnly(raw) ==   \* mutant: the end is not clamped
  [start |-> IF raw.start < 0 THEN 0 ELSE raw.start, end |-> raw.end]

Clamp(raw) ==
  [start |-> IF raw.start < 0 THEN 0 ELSE raw.start,
   end   |-> IF raw.end > duration THEN duration ELSE raw.end]

\* Silero's intervals are sorted and disjoint and hold some speech; rounding
\* may push them a tick out of the audio.
Raw == {raw \in [start : -1..duration, end : 0..(duration + 1)] :
          /\ Clamp(raw).start < Clamp(raw).end
          /\ speech # <<>> => speech[Len(speech)].end <= Clamp(raw).start}

FullUnlessTooLong(c) ==   \* mutant: only min_duration is looked at
  Dur(current) > NewChunkThreshold /\ Dur(current) > MinDuration

FullAtMaximum(c) ==   \* mutant: a chunk of exactly max_duration is not allowed
  /\ Dur(current) > NewChunkThreshold
  /\ \/ Dur(current) + (c.end - current.end) >= MaxDuration
     \/ Dur(current) > MinDuration

Full(c) ==
  /\ Dur(current) > NewChunkThreshold
  /\ \/ Dur(current) + (c.end - current.end) > MaxDuration
     \/ Dur(current) > MinDuration

MergeKeepsStart(c) ==   \* mutant: curr_start is not moved after a flush
  \/ Dur(current) = 0 /\ current' = c /\ UNCHANGED chunks
  \/ /\ Dur(current) # 0 /\ Full(c)
     /\ chunks' = chunks \o Pieces(current)
     /\ current' = [current EXCEPT !.end = c.end]
  \/ /\ Dur(current) # 0 /\ ~Full(c)
     /\ current' = [current EXCEPT !.end = c.end]
     /\ UNCHANGED chunks

Merge(c) ==
  \/ Dur(current) = 0 /\ current' = c /\ UNCHANGED chunks
  \/ /\ Dur(current) # 0 /\ Full(c)
     /\ chunks' = chunks \o Pieces(current)
     /\ current' = c
  \/ /\ Dur(current) # 0 /\ ~Full(c)
     /\ current' = [current EXCEPT !.end = c.end]
     /\ UNCHANGED chunks

Read ==
  /\ phase = "merging" /\ Len(speech) < MaxIntervals
  /\ \E raw \in Raw :
       /\ speech' = Append(speech, Clamp(raw))
       /\ Merge(Clamp(raw))
  /\ UNCHANGED <<duration, phase>>

\* The flush after the loop.
Finish ==
  /\ phase = "merging"
  /\ phase' = "done"
  /\ chunks' = IF Dur(current) > NewChunkThreshold
               THEN chunks \o Pieces(current) ELSE chunks
  /\ UNCHANGED <<duration, speech, current>>

Next == Read \/ Finish

Spec == Init /\ [][Next]_vars

------------------------------------------------------------------------------
TypeOK ==
  /\ duration \in Nat
  /\ speech \in Seq(Interval)
  /\ \A i \in DOMAIN speech :
       0 <= speech[i].start /\ speech[i].start < speech[i].end /\ speech[i].end <= duration
  /\ current \in Interval
  /\ chunks \in Seq(Piece)
  /\ phase \in {"merging", "done"}

\* "Hard maximum": the model never gets a chunk longer than strict_limit, nor
\* one of no length, nor one that reaches out of the audio.
FitsTheModel ==
  \A i \in DOMAIN chunks :
    /\ To(chunks[i]) - From(chunks[i]) <= chunks[i].of * StrictLimit
    /\ From(chunks[i]) < To(chunks[i])
    /\ 0 <= From(chunks[i]) /\ To(chunks[i]) <= chunks[i].of * duration

\* Chunks come in the order of the audio and never overlap, so that no word
\* is transcribed twice.
InOrder ==
  \A i \in 1..(Len(chunks) - 1) :
    LET p == chunks[i]  q == chunks[i + 1]
    IN  To(p) * q.of <= From(q) * p.of

\* All the parts of a block around the interval are among the chunks cs.
Covered(cs, i) ==
  \E k \in DOMAIN cs :
    LET p == cs[k] IN
      /\ p.block.start <= i.start /\ i.end <= p.block.end
      /\ \A part \in 1..p.of : \E m \in DOMAIN cs :
           cs[m] = [block |-> p.block, part |-> part, of |-> p.of]

\* No speech is lost but for a last stretch of at most new_chunk_threshold,
\* measured from its first interval to the end of its last.
SpeechKept ==
  phase = "done" =>
    \E m \in 1..(Len(speech) + 1) :
      /\ \A i \in 1..(m - 1) : Covered(chunks, speech[i])
      /\ m <= Len(speech) =>
           speech[Len(speech)].end - speech[m].start <= NewChunkThreshold

\* The block starts and ends with speech; it is longer than max_duration
\* only by its last interval, before which it had new_chunk_threshold at most.
CutInPauses(sp, b) ==
  \E i, j \in DOMAIN sp :
    /\ i <= j /\ b.start = sp[i].start /\ b.end = sp[j].end
    /\ Dur(b) > MaxDuration /\ i < j =>
         sp[j - 1].end - sp[i].start <= NewChunkThreshold

\* Cuts are made in pauses: a chunk begins or ends in the middle of speech
\* only where a block longer than strict_limit was split.
CutsInPauses ==
  \A k \in DOMAIN chunks :
    /\ CutInPauses(speech, chunks[k].block)
    /\ chunks[k].of > 1 => Dur(chunks[k].block) > StrictLimit

\* Taken with the speech that follows it, the block is too long for a chunk.
WouldBeTooLong(sp, b) ==
  \E i \in DOMAIN sp :
    i < Len(sp) /\ b.end = sp[i].end /\ sp[i + 1].end - b.start > MaxDuration

\* What min_duration does give: a shorter block is made only of the last speech
\* of the audio, or where the next interval would carry it over max_duration;
\* and a block is never split into parts of half of strict_limit or less.
NoNeedlessCuts ==
  \A k \in DOMAIN chunks :
    LET b == chunks[k].block IN
      /\ Dur(b) <= MinDuration =>
           \/ WouldBeTooLong(speech, b)
           \/ phase = "done" /\ b.end = speech[Len(speech)].end
      /\ chunks[k].of > 1 => 2 * Dur(b) > chunks[k].of * StrictLimit

\* "Min segment length": chunks but the last are at least min_duration long.
MinSegmentLength ==
  \A k \in 1..(Len(chunks) - 1) :
    To(chunks[k]) - From(chunks[k]) >= chunks[k].of * MinDuration

(* The inductive invariant (ChunkingProofs.tla). *)

SpeechSorted ==
  \A i, j \in DOMAIN speech : i < j => speech[i].end <= speech[j].start

\* curr_start is the start of interval m, all before it is covered.
RestFrom(m) ==
  /\ current.start = speech[m].start
  /\ current.end = speech[Len(speech)].end
  /\ \A i \in 1..(m - 1) : Covered(chunks, speech[i])
  /\ Dur(current) > MaxDuration /\ m < Len(speech) =>
       speech[Len(speech) - 1].end - speech[m].start <= NewChunkThreshold

CurrentIsTheRest ==
  phase = "merging" =>
    IF speech = <<>> THEN current = [start |-> 0, end |-> 0] /\ chunks = <<>>
                     ELSE \E m \in DOMAIN speech : RestFrom(m)

ChunksBehind ==
  phase = "merging" /\ chunks # <<>> =>
    To(chunks[Len(chunks)]) <= chunks[Len(chunks)].of * current.start

\* Nothing as short as new_chunk_threshold is decoded on its own.
NoBlips == \A k \in DOMAIN chunks : Dur(chunks[k].block) > NewChunkThreshold

PartsOK == \A k \in DOMAIN chunks : chunks[k].of > 0

IInv ==
  /\ TypeOK /\ SpeechSorted /\ CurrentIsTheRest /\ ChunksBehind /\ PartsOK
  /\ FitsTheModel /\ InOrder /\ SpeechKept /\ CutsInPauses /\ NoBlips
  /\ NoNeedlessCuts
===============================================================================
