------------------------------ MODULE Subtitles ------------------------------
(***************************************************************************)
(* to_srt and to_vtt of gigaam_api/asr/formats.py, one cue for each        *)
(* segment: the times of the segments are rounded to milliseconds and      *)
(* split into hours, minutes, seconds and milliseconds.  Times are in      *)
(* tenths of a millisecond; texts are left out.                            *)
(***************************************************************************)
EXTENDS Integers, Sequences

CONSTANTS Times,         \* the times at which segments may start or end
          MaxSegments    \* bound on the segments of one result

ASSUME SubtitlesAssumption == Times \subseteq Int /\ MaxSegments \in Nat

VARIABLES segments,   \* result.segments, as far as they are rendered
          cues        \* what was written for them

vars == <<segments, cues>>

Init == segments = <<>> /\ cues = <<>>

FromStart(t) == IF t < 0 THEN 0 ELSE t   \* max(0.0, seconds)

\* round(seconds * 1000.0), which rounds halves to even.
Millis(t) ==
  LET down == t \div 10
      rest == t % 10
  IN  IF rest > 5 \/ (rest = 5 /\ down % 2 = 1) THEN down + 1 ELSE down

FormatTsSplit(t) ==   \* mutant: whole seconds first, then the rounded rest
  LET total == FromStart(t) \div 10000
  IN  [hours |-> total \div 3600, minutes |-> (total % 3600) \div 60,
       secs |-> total % 60, millis |-> Millis(FromStart(t) % 10000)]

\* The three divmods.
FormatTs(t) ==
  LET total == Millis(FromStart(t))
  IN  [hours   |-> total \div 3600000,
       minutes |-> (total % 3600000) \div 60000,
       secs    |-> (total % 60000) \div 1000,
       millis  |-> total % 1000]

CueFromZero(index, seg) ==   \* mutant: enumerate without start=1
  [index |-> index - 1, from |-> FormatTs(seg.start), to |-> FormatTs(seg.end)]

Cue(index, seg) ==
  [index |-> index, from |-> FormatTs(seg.start), to |-> FormatTs(seg.end)]

\* The engine's segments follow each other without overlap.
Render ==
  /\ Len(segments) < MaxSegments
  /\ \E start, end \in Times :
       LET seg == [start |-> start, end |-> end] IN
         /\ start <= end
         /\ segments # <<>> => segments[Len(segments)].end <= start
         /\ segments' = Append(segments, seg)
         /\ cues' = Append(cues, Cue(Len(segments) + 1, seg))

Next == Render

Spec == Init /\ [][Next]_vars

------------------------------------------------------------------------------
Segment   == [start : Int, end : Int]
Timestamp == [hours : Nat, minutes : 0..59, secs : 0..59, millis : 0..999]

TypeOK ==
  /\ segments \in Seq(Segment)
  /\ cues \in Seq([index : Nat, from : Timestamp, to : Timestamp])

\* The time a player reads, in milliseconds.
Read(ts) == ((ts.hours * 60 + ts.minutes) * 60 + ts.secs) * 1000 + ts.millis

Near(ts, t) == 10 * Read(ts) - 5 <= t /\ t <= 10 * Read(ts) + 5

\* No field of a time stamp runs over (59.9996 s is 00:01:00,000), and a player
\* reads the times of the segments, within half a millisecond.
TimesKept ==
  \A i \in DOMAIN segments :
    /\ cues[i].from \in Timestamp /\ cues[i].to \in Timestamp
    /\ Near(cues[i].from, FromStart(segments[i].start))
    /\ Near(cues[i].to, FromStart(segments[i].end))

\* Rounding never makes cues overlap or run backwards, and SRT numbers them
\* from 1.
CuesInOrder ==
  /\ \A i \in DOMAIN cues : cues[i].index = i /\ Read(cues[i].from) <= Read(cues[i].to)
  /\ \A i \in 1..(Len(cues) - 1) : Read(cues[i].to) <= Read(cues[i + 1].from)

(* The inductive invariant (SubtitlesProofs.tla). *)

SegmentsOK ==
  /\ \A i \in DOMAIN segments : segments[i].start <= segments[i].end
  /\ \A i \in 1..(Len(segments) - 1) : segments[i].end <= segments[i + 1].start

CuesOfSegments ==
  /\ Len(cues) = Len(segments)
  /\ \A i \in DOMAIN segments : cues[i] = Cue(i, segments[i])

IInv == TypeOK /\ SegmentsOK /\ CuesOfSegments
==============================================================================
